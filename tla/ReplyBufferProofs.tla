-------------------------- MODULE ReplyBufferProofs --------------------------
(***************************************************************************)
(* Proofs about ReplyBuffer, for any number of events and turns, any batch *)
(* size and any kind of session.                                           *)
(*                                                                         *)
(* First what the messages play no part in: an entry has one owner, a      *)
(* replaced turn is silent, and what is on file as not sent was not.  The  *)
(* shapes below say of a record which fields it has and of what kind those *)
(* are that decide, and leave its messages open.                           *)
(*                                                                         *)
(* Then where the messages are: each is answered once and shown to the     *)
(* model in the order in which they came, and without supplements none is  *)
(* left lying.                                                             *)
(***************************************************************************)
EXTENDS ReplyBuffer, TLAPS, WellFoundedInduction

\* A sequence, of whatever.
IsSequence(s) == s \in Seq(Elems(s))

EntryShape(x) ==
    /\ DOMAIN x = DOMAIN NewEntry
    /\ x.timer \in {"off", "armed", "gate"} /\ x.processing \in BOOLEAN
    /\ x.current \in Nat /\ x.superseded \in Nat /\ x.repl \in Nat /\ x.turn \in Nat
    /\ x.drain.pc # "off" => DOMAIN x.drain = DOMAIN NewDrain(0) /\ x.turn # 0

TurnShape(x) ==
    /\ DOMAIN x = DOMAIN NewTurn("poke", 0, 1, <<>>, FALSE)
    /\ x.entry \in Nat /\ x.gen \in Nat /\ x.fenced \in BOOLEAN

\* Turns refer to entries there are.
Shapes ==
    /\ IsSequence(entries) /\ IsSequence(turns) /\ slot \in 0 .. Len(entries)
    /\ \A e \in EntryIds : EntryShape(entries[e])
    /\ \A t \in TurnIds : TurnShape(turns[t]) /\ turns[t].entry <= Len(entries)

\* A live turn's entry is processing it, and a timer in its gate has an idle entry.
Owned ==
    /\ \A t \in TurnIds : turns[t].entry # 0 /\ turns[t].owner # "done"
            => /\ entries[turns[t].entry].processing
               /\ entries[turns[t].entry].turn = t
    /\ \A e \in EntryIds : entries[e].timer = "gate" => ~ entries[e].processing

IsTurnOf(t, e, g) == t \in TurnIds /\ turns[t].entry = e /\ turns[t].gen = g

\* The generations of an entry's turns differ, and its current one is the last; a
\* generation being replaced is superseded; drains and handlers that wait refer to
\* turns of their own entry.
Lineage ==
    /\ \A t \in TurnIds : turns[t].entry # 0 => turns[t].gen <= entries[turns[t].entry].current
    /\ \A t, u \in TurnIds : t # u /\ turns[t].entry = turns[u].entry /\ turns[t].entry # 0
            => turns[t].gen # turns[u].gen
    /\ \A e \in EntryIds :
        /\ entries[e].repl <= entries[e].superseded
        /\ \/ entries[e].turn = 0 /\ ~ entries[e].processing
           \/ IsTurnOf(entries[e].turn, e, entries[e].current)
        /\ entries[e].drain.pc \in {"judge", "lock"}
                => IsTurnOf(entries[e].drain.turn, e, entries[e].drain.gen)
    /\ \A j \in joins : j.turn \in TurnIds /\ j.entry \in EntryIds /\ turns[j.turn].entry = j.entry

\* A turn that waits for admission has done nothing; one on file as not sent has not
\* sent, and its child is over or fenced.
Honest(x) ==
    /\ x.owner = "admit" => x.child = "none" /\ x.stage = "none"
    /\ x.filed = "recoverable" =>
            /\ x.owner \in {"record", "done"} /\ x.stage \in {"none", "action"}
            /\ x.fenced \/ x.child \in {"none", "failed", "done"}

BufferInv ==
    /\ Shapes /\ Owned /\ Lineage /\ ReplacedIsSilent
    /\ \A t \in TurnIds : Honest(turns[t])
-----------------------------------------------------------------------------
(* Sequences whose elements may be anything                                 *)

\* An element at the end leaves the others in place.
LEMMA Appended ==
    ASSUME NEW s, IsSequence(s), NEW x
    PROVE  /\ IsSequence(Append(s, x)) /\ Len(Append(s, x)) = Len(s) + 1 /\ Len(s) \in Nat
           /\ Append(s, x)[Len(s) + 1] = x
           /\ \A i \in 1 .. Len(s) : Append(s, x)[i] = s[i]
  <1> DEFINE r == Append(s, x)
  <1>1. s \in Seq(Elems(s) \cup {x})
    BY DEF IsSequence
  <1>2. /\ r \in Seq(Elems(s) \cup {x}) /\ Len(r) = Len(s) + 1 /\ r[Len(s) + 1] = x
        /\ \A i \in 1 .. Len(s) : r[i] = s[i]
    BY <1>1
  <1>3. Len(s) \in Nat /\ DOMAIN s = 1 .. Len(s) /\ DOMAIN r = 1 .. Len(s) + 1
    BY <1>1, <1>2
  <1> HIDE DEF r
  <1>4. IsSequence(r)
    BY <1>2, <1>3 DEF IsSequence, Elems
  <1> QED BY <1>2, <1>3, <1>4 DEF r

Changed(s, i, x) == [s EXCEPT ![i] = x]

\* An element replaced leaves the others in place.
LEMMA Replacing ==
    ASSUME NEW s, IsSequence(s), NEW x, NEW i \in 1 .. Len(s)
    PROVE  /\ IsSequence(Changed(s, i, x)) /\ Len(Changed(s, i, x)) = Len(s)
           /\ Len(s) \in Nat
           /\ Changed(s, i, x)[i] = x
           /\ \A j \in 1 .. Len(s) : j # i => Changed(s, i, x)[j] = s[j]
  <1> DEFINE r == Changed(s, i, x)
  <1>1. s \in Seq(Elems(s) \cup {x})
    BY DEF IsSequence
  <1>2. /\ r \in Seq(Elems(s) \cup {x}) /\ Len(r) = Len(s)
        /\ r[i] = x /\ \A j \in 1 .. Len(s) : j # i => r[j] = s[j]
    BY <1>1 DEF Changed
  <1>3. Len(s) \in Nat /\ DOMAIN s = 1 .. Len(s) /\ DOMAIN r = 1 .. Len(s)
    BY <1>1, <1>2
  <1> HIDE DEF r
  <1>4. IsSequence(r)
    BY <1>2, <1>3 DEF IsSequence, Elems
  <1> QED BY <1>2, <1>3, <1>4 DEF r
-----------------------------------------------------------------------------
(* How an entry changes while no turn starts                                *)

\* From x to y an entry keeps its turn and generation; it becomes processing in no
\* way, its timer enters the gate only when it is idle, and its drain judges what it
\* judged or the current turn.
Base(x, y) ==
    /\ EntryShape(y) /\ y.current = x.current /\ y.turn = x.turn
    /\ y.processing => x.processing
    /\ y.timer = "gate" => x.timer = "gate" \/ ~ y.processing
    /\ y.drain.pc \in {"judge", "lock"} =>
          \/ /\ x.drain.pc \in {"judge", "lock"}
             /\ y.drain.turn = x.drain.turn /\ y.drain.gen = x.drain.gen
          \/ y.drain.turn = x.turn /\ y.drain.gen = x.current

Same(x, y)   == y.superseded = x.superseded /\ y.repl \in {0, x.repl}
Raised(x, y) == y.superseded = x.current /\ y.repl <= y.superseded

\* Moved about, but neither started nor superseded.
Tame(x, y) == Base(x, y) /\ Same(x, y)
Busy(x, y) == Tame(x, y) /\ y.processing = x.processing

\* Such changes follow one another.
LEMMA TameTwice ==
    ASSUME NEW x, NEW y, NEW z
    PROVE  /\ Tame(x, y) /\ Tame(y, z) => Tame(x, z)
           /\ Busy(x, y) /\ Busy(y, z) => Busy(x, z)
           /\ Base(x, y) /\ Raised(x, y) /\ Tame(y, z) => Base(x, z) /\ Raised(x, z)
  BY DEF Tame, Busy, Base, Same, Raised, EntryShape

\* An entry at rest is moved about in no way.
LEMMA Rests == ASSUME NEW x, EntryShape(x) PROVE Busy(x, x)
  BY DEF EntryShape, Busy, Tame, Base, Same, NewEntry

\* Each rewriting of an entry moves messages and keeps what decides.
LEMMA Rewritten ==
    ASSUME NEW x, EntryShape(x), NEW original
    PROVE  /\ Busy(x, x) /\ Busy(x, Armed(x)) /\ Busy(x, Promoted(x))
           /\ Busy(x, Replayed(x, original))
           /\ Tame(x, [x EXCEPT !.processing = FALSE])
           /\ Tame(x, [x EXCEPT !.processing = FALSE, !.active = <<>>])
  <1>1. Busy(x, x) /\ Busy(x, Armed(x))
    BY DEF EntryShape, Busy, Tame, Base, Same, Armed, NewEntry
  <1>2. Busy(x, Promoted(x))
    BY DEF EntryShape, Busy, Tame, Base, Same, Promoted, NewEntry
  <1>3. Busy(x, Replayed(x, original))
    BY DEF EntryShape, Busy, Tame, Base, Same, Replayed, NewEntry
  <1>4. /\ Tame(x, [x EXCEPT !.processing = FALSE])
        /\ Tame(x, [x EXCEPT !.processing = FALSE, !.active = <<>>])
    BY DEF EntryShape, Tame, Base, Same, NewEntry
  <1> QED BY <1>1, <1>2, <1>3, <1>4

\* finalize_generation hands an entry on.
LEMMA TimerHandsOver ==
    ASSUME NEW x, EntryShape(x), NEW g \in Nat
    PROVE  Tame(x, TimerHandOff(x, g))
  <1> DEFINE idle == [x EXCEPT !.processing = FALSE]
             closed == [idle EXCEPT !.active = <<>>]
             again == Replayed(idle, x.active)
  <1>1. Tame(x, x) /\ Tame(x, idle) /\ EntryShape(idle)
    BY Rewritten DEF Busy, Tame, Base
  <1>2. Tame(x, closed) /\ EntryShape(closed)
    <2> HIDE DEF idle
    <2>1. Tame(idle, closed)
      BY <1>1 DEF EntryShape, Tame, Base, Same, NewEntry
    <2> QED BY <1>1, <2>1, TameTwice DEF Tame, Base
  <1>t. TimerHandOff(x, g) =
          CASE x.token = g -> IF x.pending # <<>> THEN Armed(Promoted(closed)) ELSE closed
            [] x.token # g /\ x.superseded < g -> x
            [] x.token # g /\ x.superseded >= g ->
                 IF x.related # <<>> THEN [again EXCEPT !.original = x.active]
                 ELSE IF x.drain.pc # "off" THEN idle
                 ELSE IF x.pending # <<>> THEN Promoted(closed) ELSE closed
    BY DEF TimerHandOff
  <1> HIDE DEF idle, closed
  <1>3. Tame(x, Promoted(closed)) /\ Tame(x, again) /\ EntryShape(again)
    <2>1. Tame(closed, Promoted(closed)) /\ Tame(idle, again)
      BY <1>1, <1>2, Rewritten DEF Busy
    <2> QED BY <1>1, <1>2, <2>1, TameTwice DEF Tame, Base
  <1>4. Tame(x, Armed(Promoted(closed)))
    <2>1. Tame(Promoted(closed), Armed(Promoted(closed)))
      BY <1>3, Rewritten DEF Busy, Tame, Base
    <2> QED BY <1>3, <2>1, TameTwice
  <1> HIDE DEF again
  <1>5. Tame(x, [again EXCEPT !.original = x.active])
    <2>1. Tame(again, [again EXCEPT !.original = x.active])
      BY <1>3 DEF EntryShape, Tame, Base, Same, NewEntry
    <2> QED BY <1>3, <2>1, TameTwice
  <1>6. x.superseded \in Nat
    BY DEF EntryShape
  <1> QED BY <1>t, <1>1, <1>2, <1>3, <1>4, <1>5, <1>6

\* The end of the private path of handle_reply_event hands an entry on.
LEMMA DirectHandsOver ==
    ASSUME NEW x, EntryShape(x), NEW g
    PROVE  Tame(x, DirectHandOff(x, g))
  <1> DEFINE closed == [x EXCEPT !.processing = FALSE, !.active = <<>>]
             full == [closed EXCEPT !.items = x.active \o x.related, !.related = <<>>]
  <1>1. Tame(x, x) /\ Tame(x, closed) /\ EntryShape(closed)
    BY Rewritten DEF Busy, Tame, Base
  <1>t. DirectHandOff(x, g) = IF x.token # g /\ x.related # <<>> THEN Armed(full)
                              ELSE IF x.pending # <<>> THEN Armed(Promoted(closed)) ELSE x
    BY DEF DirectHandOff
  <1> HIDE DEF closed
  <1>2. Tame(closed, full) /\ Tame(closed, Promoted(closed))
    BY <1>1, Rewritten DEF EntryShape, Busy, Tame, Base, Same, NewEntry
  <1> HIDE DEF full
  <1>3. Tame(full, Armed(full)) /\ Tame(Promoted(closed), Armed(Promoted(closed)))
    BY <1>2, Rewritten DEF Busy, Tame, Base
  <1> QED BY <1>t, <1>1, <1>2, <1>3, TameTwice

\* The end of a drain.
LEMMA DrainsOut ==
    ASSUME NEW x, EntryShape(x), x.drain.pc # "off", NEW T, NEW g
    PROVE  Busy(x, Drained(x, T, g))
  <1> DEFINE ended == [x EXCEPT !.drain = NoDrain]
             again == ended.candidates # <<>> /\ ended.current = g
             can == Eligible(ended, T)
             renewed == [ended EXCEPT !.drain = NewDrain(g)]
             dropped == [ended EXCEPT !.candidates = <<>>]
             queued == CASE ~ again -> ended [] again /\ can -> renewed [] again /\ ~ can -> dropped
             original == IF queued.original # <<>> THEN queued.original ELSE queued.active
  <1>t. Drained(x, T, g) =
          IF queued.processing \/ queued.superseded < g THEN queued
          ELSE IF queued.related # <<>> THEN Armed(Replayed(queued, original))
          ELSE IF queued.pending # <<>> /\ queued.drain.pc = "off" THEN Armed(Promoted(queued))
          ELSE queued
    BY DEF Drained
  <1>1. Busy(x, ended) /\ EntryShape(ended) /\ ended.turn # 0
    BY DEF EntryShape, Busy, Tame, Base, Same, NewEntry, NoDrain
  <1> HIDE DEF ended
  <1>2. Busy(ended, renewed) /\ Busy(ended, dropped) /\ Busy(ended, ended)
    BY <1>1 DEF EntryShape, Busy, Tame, Base, Same, NewEntry, NewDrain
  <1> HIDE DEF can, again, renewed, dropped
  <1>3. queued \in {ended, renewed, dropped}
    OBVIOUS
  <1> HIDE DEF queued
  <1>4. Busy(x, queued) /\ EntryShape(queued)
    BY <1>1, <1>2, <1>3, TameTwice DEF Busy, Tame, Base
  <1> HIDE DEF original
  <1>5. Busy(queued, Promoted(queued)) /\ Busy(queued, Replayed(queued, original))
    BY <1>4, Rewritten
  <1>6. EntryShape(Promoted(queued)) /\ EntryShape(Replayed(queued, original))
    BY <1>5 DEF Busy, Tame, Base
  <1>7. /\ Busy(Promoted(queued), Armed(Promoted(queued)))
        /\ Busy(Replayed(queued, original), Armed(Replayed(queued, original)))
    BY <1>6, Rewritten
  <1>8. Busy(queued, Armed(Promoted(queued))) /\ Busy(queued, Armed(Replayed(queued, original)))
    BY <1>5, <1>7, TameTwice
  <1> QED BY <1>t, <1>4, <1>8, TameTwice

\* An entry superseded at its current generation, which is the first time or not.
LEMMA Supersedes ==
    ASSUME NEW x, EntryShape(x), NEW joining
    PROVE  LET y == Superseding(x, x.current, joining)
           IN  /\ Base(x, y) /\ y.processing = x.processing /\ y.drain = x.drain
               /\ x.superseded < x.current => Raised(x, y)
               /\ x.repl = x.current /\ x.repl <= x.superseded => Same(x, y)
  <1> DEFINE top == Greatest(x.superseded, x.current)
             next == x.current + 1
             y == [x EXCEPT !.related = @ \o joining, !.repl = x.current,
                            !.superseded = top, !.token = next]
  <1>1. /\ x.current \in Nat /\ x.superseded \in Nat /\ top \in Nat
        /\ x.superseded < x.current => top = x.current
        /\ x.current <= x.superseded => top = x.superseded
    BY DEF EntryShape, Greatest
  <1>2. Superseding(x, x.current, joining) = y
    BY DEF Superseding
  <1> HIDE DEF top, next
  <1>3. Base(x, y) /\ y.processing = x.processing /\ y.drain = x.drain
    BY <1>1 DEF EntryShape, Base, NewEntry
  <1>4. y.superseded = top /\ y.repl = x.current
    BY DEF EntryShape, NewEntry
  <1> QED BY <1>1, <1>2, <1>3, <1>4 DEF Raised, Same

\* A cue supersedes a random turn's entry at its current generation.
LEMMA Preempts ==
    ASSUME NEW x, EntryShape(x), NEW m, x.superseded < x.current, x.repl <= x.superseded
    PROVE  LET y == Preempted(x, m)
           IN  Base(x, y) /\ y.processing = x.processing /\ Raised(x, y)
  <1> DEFINE top == Greatest(x.superseded, x.current)
             line == Merged(x.active, Append(x.pending, m))
             y == [x EXCEPT !.pending = line, !.superseded = top]
  <1>1. x.current \in Nat /\ x.superseded \in Nat /\ x.repl \in Nat /\ top = x.current
    BY DEF EntryShape, Greatest
  <1>2. Preempted(x, m) = y
    BY DEF Preempted
  <1> HIDE DEF top, line
  <1>3. Base(x, y) /\ y.processing = x.processing
    BY <1>1 DEF EntryShape, Base, NewEntry
  <1>4. y.superseded = top /\ y.repl = x.repl
    BY DEF EntryShape, NewEntry
  <1> QED BY <1>1, <1>2, <1>3, <1>4 DEF Raised
-----------------------------------------------------------------------------
(* Steps that begin no turn                                                 *)

\* From x to y a turn keeps what it is, and does not come back.
TurnMove(x, y) ==
    /\ DOMAIN y = DOMAIN x /\ y.entry = x.entry /\ y.gen = x.gen /\ y.fenced \in BOOLEAN
    /\ y.items = x.items
    /\ x.owner = "done" => y.owner = "done"
    /\ Honest(y)

\* Turns that move without acting or sending.
Quieted(T) ==
    /\ IsSequence(T) /\ Len(T) = Len(turns)
    /\ \A t \in TurnIds : TurnMove(turns[t], T[t]) /\ T[t].stage = turns[t].stage

\* A turn of e that acts for its current generation has not acted yet.
Untouched(e) ==
    \E t \in TurnIds : IsTurnOf(t, e, entries[e].current) /\ turns[t].stage = "none"

\* Entry e is moved about, or its current, still untouched turn is superseded; it is
\* released only by the owner that ends.
EntryMoves(e) ==
    /\ Base(entries[e], entries'[e])
    /\ \/ Same(entries[e], entries'[e])
       \/ Raised(entries[e], entries'[e]) /\ Untouched(e)
    /\ \/ entries'[e].processing = entries[e].processing
       \/ \E t \in TurnIds : turns[t].entry = e /\ turns[t].owner # "done" /\ turns'[t].owner = "done"

\* A step of existing turns and entries.
OldStep ==
    /\ IsSequence(entries') /\ Len(entries') = Len(entries) /\ slot' \in 0 .. Len(entries)
    /\ IsSequence(turns') /\ Len(turns') = Len(turns)
    /\ \A e \in EntryIds : EntryMoves(e)
    /\ \A t \in TurnIds : TurnMove(turns[t], turns'[t])
    /\ \/ \A t \in TurnIds : turns'[t].stage = turns[t].stage
       \/ /\ entries' = entries
          /\ \A t \in TurnIds : turns'[t].stage = turns[t].stage \/ turns[t].stage # "none" \/ Fresh(t)
    /\ \A j \in joins' : \/ j \in joins
                         \/ /\ j.entry \in EntryIds /\ entries[j.entry].processing
                            /\ j.turn = entries[j.entry].turn

\* Such a step keeps the invariant.
LEMMA OldStepKeeps == ASSUME BufferInv, OldStep PROVE BufferInv'
  <1>1. TurnIds' = TurnIds /\ EntryIds' = EntryIds
    BY DEF OldStep, TurnIds, EntryIds
  <1>2. Shapes'
    <2>1. ASSUME NEW e \in EntryIds PROVE EntryShape(entries'[e])
      BY <2>1 DEF OldStep, EntryMoves, Base
    <2>2. ASSUME NEW t \in TurnIds PROVE TurnShape(turns'[t]) /\ turns'[t].entry <= Len(entries)
      BY <2>2 DEF OldStep, TurnMove, BufferInv, Shapes, TurnShape
    <2> QED BY <1>1, <2>1, <2>2 DEF Shapes, OldStep
  <1>s. ASSUME NEW t \in TurnIds
        PROVE  /\ turns'[t].entry = turns[t].entry /\ turns'[t].gen = turns[t].gen
               /\ turns[t].entry # 0 => turns[t].entry \in EntryIds
               /\ turns[t].owner = "done" => turns'[t].owner = "done"
    <2>1. Len(entries) \in Nat
      BY DEF BufferInv, Shapes, IsSequence
    <2>2. TurnMove(turns[t], turns'[t])
      BY DEF OldStep
    <2>3. turns[t].entry \in Nat /\ turns[t].entry <= Len(entries)
      BY DEF BufferInv, Shapes, TurnShape
    <2> QED BY <2>1, <2>2, <2>3 DEF TurnMove, EntryIds
  <1>e. ASSUME NEW e \in EntryIds
        PROVE  /\ entries'[e].current = entries[e].current /\ entries'[e].turn = entries[e].turn
               /\ entries'[e].processing => entries[e].processing
    BY <1>e DEF OldStep, EntryMoves, Base
  <1>3. Owned'
    <2>1. ASSUME NEW t \in TurnIds, turns[t].entry # 0, turns'[t].owner # "done"
          PROVE  entries'[turns[t].entry].processing /\ entries'[turns[t].entry].turn = t
      <3> DEFINE e == turns[t].entry
      <3>1. e \in EntryIds /\ entries[e].processing /\ entries[e].turn = t
        BY <1>s, <2>1 DEF BufferInv, Owned
      <3>2. ASSUME NEW u \in TurnIds, turns[u].entry = e, turns[u].owner # "done", turns'[u].owner = "done"
            PROVE  FALSE
        BY <2>1, <3>1, <3>2 DEF BufferInv, Owned
      <3>3. entries'[e].processing = entries[e].processing
        BY <3>1, <3>2 DEF OldStep, EntryMoves
      <3> QED BY <3>1, <3>3, <1>e
    <2>2. ASSUME NEW e \in EntryIds, entries'[e].timer = "gate" PROVE ~ entries'[e].processing
      BY <2>2 DEF OldStep, EntryMoves, Base, BufferInv, Owned
    <2> QED BY <1>1, <1>s, <2>1, <2>2 DEF Owned
  <1>i. ASSUME NEW t, NEW e, NEW g, IsTurnOf(t, e, g)
        PROVE  t \in TurnIds /\ turns'[t].entry = e /\ turns'[t].gen = g
    BY <1>i, <1>s DEF IsTurnOf
  <1>4. Lineage'
    <2>1. ASSUME NEW t \in TurnIds, turns'[t].entry # 0
          PROVE  turns'[t].gen <= entries'[turns'[t].entry].current
      BY <2>1, <1>s, <1>e DEF BufferInv, Lineage
    <2>2. ASSUME NEW t \in TurnIds, NEW u \in TurnIds, t # u, turns'[t].entry = turns'[u].entry, turns'[t].entry # 0
          PROVE  turns'[t].gen # turns'[u].gen
      BY <2>2, <1>s DEF BufferInv, Lineage
    <2>3. ASSUME NEW e \in EntryIds
          PROVE  entries'[e].repl <= entries'[e].superseded
      <3>1. entries[e].repl <= entries[e].superseded /\ entries[e].superseded \in Nat
        BY <2>3 DEF BufferInv, Lineage, Shapes, EntryShape
      <3> QED BY <3>1, <2>3 DEF OldStep, EntryMoves, Same, Raised
    <2>4. ASSUME NEW e \in EntryIds
          PROVE  \/ entries'[e].turn = 0 /\ ~ entries'[e].processing
                 \/ IsTurnOf(entries[e].turn, e, entries[e].current)
      BY <2>4, <1>e DEF BufferInv, Lineage
    <2>5. ASSUME NEW e \in EntryIds, entries'[e].drain.pc \in {"judge", "lock"}
          PROVE  IsTurnOf(entries'[e].drain.turn, e, entries'[e].drain.gen)
      <3>1. \/ /\ entries[e].drain.pc \in {"judge", "lock"}
               /\ entries'[e].drain.turn = entries[e].drain.turn
               /\ entries'[e].drain.gen = entries[e].drain.gen
            \/ entries'[e].drain.turn = entries[e].turn /\ entries'[e].drain.gen = entries[e].current
        BY <2>5 DEF OldStep, EntryMoves, Base
      <3>2. entries[e].turn # 0
        BY <2>5, <1>e DEF OldStep, EntryMoves, Base, EntryShape
      <3> QED BY <3>1, <3>2 DEF BufferInv, Lineage
    <2>6. ASSUME NEW j \in joins'
          PROVE  j.turn \in TurnIds /\ j.entry \in EntryIds /\ turns'[j.turn].entry = j.entry
      <3>1. CASE j \in joins
        BY <3>1, <1>s DEF BufferInv, Lineage
      <3>2. CASE j.entry \in EntryIds /\ entries[j.entry].processing /\ j.turn = entries[j.entry].turn
        BY <3>2, <1>i DEF BufferInv, Lineage
      <3> QED BY <2>6, <3>1, <3>2 DEF OldStep
    <2>7. ASSUME NEW e \in EntryIds
          PROVE  /\ \/ entries'[e].turn = 0 /\ ~ entries'[e].processing
                    \/ IsTurnOf(entries[e].turn, e, entries[e].current)'
                 /\ entries'[e].drain.pc \in {"judge", "lock"}
                        => IsTurnOf(entries[e].drain.turn, e, entries[e].drain.gen)'
      BY <2>4, <2>5, <1>e, <1>i, <1>1 DEF IsTurnOf
    <2> QED BY <1>1, <2>1, <2>2, <2>3, <2>6, <2>7 DEF Lineage
  <1>5. ReplacedIsSilent'
    <2> SUFFICES ASSUME NEW t \in TurnIds, turns'[t].entry # 0,
                        turns'[t].gen = entries'[turns'[t].entry].superseded
                 PROVE  turns'[t].stage = "none"
      BY <1>1 DEF ReplacedIsSilent
    <2> DEFINE e == turns[t].entry
    <2>1. e \in EntryIds /\ turns[t].gen = entries'[e].superseded /\ e # 0
      BY <1>s
    <2>2. CASE Same(entries[e], entries'[e])
      <3>1. turns[t].gen = entries[e].superseded /\ turns[t].stage = "none"
        BY <2>1, <2>2 DEF Same, BufferInv, ReplacedIsSilent
      <3>2. ~ Fresh(t)
        <4>1. entries[e].superseded \in Nat
          BY <2>1 DEF BufferInv, Shapes, EntryShape
        <4> QED BY <2>1, <3>1, <4>1 DEF Fresh, Current, EntryOf
      <3> QED BY <3>1, <3>2 DEF OldStep
    <2>3. CASE Raised(entries[e], entries'[e]) /\ ~ Same(entries[e], entries'[e])
      <3>1. Untouched(e)
        BY <2>1, <2>3 DEF OldStep, EntryMoves
      <3>2. PICK u \in TurnIds : IsTurnOf(u, e, entries[e].current) /\ turns[u].stage = "none"
        BY <3>1 DEF Untouched
      <3>3. turns[t].gen = entries[e].current
        BY <2>1, <2>3 DEF Raised
      <3>4. u = t
        BY <2>1, <3>2, <3>3 DEF IsTurnOf, BufferInv, Lineage
      <3>5. entries' # entries
        BY <2>3, <3>3, <2>1 DEF Same, Raised, BufferInv, Lineage
      <3> QED BY <3>2, <3>4, <3>5 DEF OldStep
    <2> QED BY <2>1, <2>2, <2>3 DEF OldStep, EntryMoves
  <1>6. \A t \in TurnIds : Honest(turns'[t])
    BY DEF OldStep, TurnMove
  <1> QED BY <1>1, <1>2, <1>3, <1>4, <1>5, <1>6 DEF BufferInv
-----------------------------------------------------------------------------
(* Ways to take such a step                                                 *)

\* What the invariant says of the entries.
LEMMA EntriesAre ==
    ASSUME BufferInv
    PROVE  /\ Len(entries) \in Nat /\ IsSequence(entries) /\ slot \in 0 .. Len(entries)
           /\ \A e \in EntryIds : EntryShape(entries[e])
  <1>1. IsSequence(entries) /\ slot \in 0 .. Len(entries) /\ \A e \in EntryIds : EntryShape(entries[e])
    BY DEF BufferInv, Shapes
  <1>2. Len(entries) \in Nat
    BY <1>1 DEF IsSequence
  <1> QED BY <1>1, <1>2

\* What the invariant says of the turns.
LEMMA TurnsAre ==
    ASSUME BufferInv
    PROVE  /\ Len(turns) \in Nat /\ IsSequence(turns)
           /\ \A t \in TurnIds : TurnShape(turns[t]) /\ Honest(turns[t]) /\ turns[t].entry <= Len(entries)
  <1>1. /\ IsSequence(turns)
        /\ \A t \in TurnIds : TurnShape(turns[t]) /\ Honest(turns[t]) /\ turns[t].entry <= Len(entries)
    BY DEF BufferInv, Shapes
  <1>2. Len(turns) \in Nat
    BY <1>1 DEF IsSequence
  <1> QED BY <1>1, <1>2

\* An entry and a turn may stay as they are.
LEMMA EntryStays == ASSUME BufferInv, NEW e \in EntryIds, entries'[e] = entries[e] PROVE EntryMoves(e)
  <1>1. EntryShape(entries[e])
    BY EntriesAre
  <1>2. Busy(entries[e], entries[e])
    BY <1>1, Rests
  <1>3. Busy(entries[e], entries'[e])
    BY <1>2
  <1> QED BY <1>3 DEF EntryMoves, Busy, Tame

LEMMA TurnStays == ASSUME BufferInv, NEW t \in TurnIds PROVE TurnMove(turns[t], turns[t])
  <1>1. TurnShape(turns[t]) /\ Honest(turns[t])
    BY TurnsAre
  <1> QED BY <1>1 DEF TurnShape, TurnMove

LEMMA TurnsStay == ASSUME BufferInv PROVE Quieted(turns)
  <1>1. IsSequence(turns)
    BY TurnsAre
  <1> QED BY <1>1, TurnStays DEF Quieted

\* One turn moves, alone.
LEMMA TurnAlone ==
    ASSUME BufferInv, NEW t \in TurnIds, NEW new, TurnMove(turns[t], new),
           turns' = Changed(turns, t, new), UNCHANGED <<entries, slot, joins>>,
           new.stage = turns[t].stage \/ turns[t].stage # "none" \/ Fresh(t)
    PROVE  OldStep
  <1>0. IsSequence(turns) /\ TurnIds = 1 .. Len(turns) /\ t \in 1 .. Len(turns)
    BY TurnsAre DEF TurnIds
  <1>r. /\ IsSequence(Changed(turns, t, new)) /\ Len(Changed(turns, t, new)) = Len(turns)
        /\ Changed(turns, t, new)[t] = new
        /\ \A u \in 1 .. Len(turns) : u # t => Changed(turns, t, new)[u] = turns[u]
    BY <1>0, Replacing
  <1>1. /\ IsSequence(turns') /\ Len(turns') = Len(turns)
        /\ \A u \in TurnIds : turns'[u] = IF u = t THEN new ELSE turns[u]
    BY <1>0, <1>r
  <1>2. ASSUME NEW u \in TurnIds
        PROVE  /\ TurnMove(turns[u], turns'[u])
               /\ turns'[u].stage = turns[u].stage \/ turns[u].stage # "none" \/ Fresh(u)
    BY <1>1, TurnStays
  <1>3. \A e \in EntryIds : EntryMoves(e)
    BY EntryStays
  <1>4. IsSequence(entries) /\ slot \in 0 .. Len(entries)
    BY EntriesAre
  <1> QED BY <1>1, <1>2, <1>3, <1>4 DEF OldStep

\* One entry moves, while turns at most become fenced or cancelled.
LEMMA EntryAlone ==
    ASSUME BufferInv, NEW e \in EntryIds, NEW new, Base(entries[e], new),
           new.processing = entries[e].processing,
           Same(entries[e], new) \/ (Raised(entries[e], new) /\ Untouched(e)),
           entries' = Changed(entries, e, new), slot' \in 0 .. Len(entries),
           Quieted(turns'),
           \A j \in joins' : \/ j \in joins
                             \/ /\ j.entry \in EntryIds /\ entries[j.entry].processing
                                /\ j.turn = entries[j.entry].turn
    PROVE  OldStep
  <1>0. IsSequence(entries) /\ EntryIds = 1 .. Len(entries) /\ e \in 1 .. Len(entries)
    BY EntriesAre DEF EntryIds
  <1>r. /\ IsSequence(Changed(entries, e, new)) /\ Len(Changed(entries, e, new)) = Len(entries)
        /\ Changed(entries, e, new)[e] = new
        /\ \A f \in 1 .. Len(entries) : f # e => Changed(entries, e, new)[f] = entries[f]
    BY <1>0, Replacing
  <1>1. /\ IsSequence(entries') /\ Len(entries') = Len(entries)
        /\ \A f \in EntryIds : entries'[f] = IF f = e THEN new ELSE entries[f]
    BY <1>0, <1>r
  <1>2. ASSUME NEW f \in EntryIds PROVE EntryMoves(f)
    <2>1. CASE f = e
      BY <1>1, <2>1 DEF EntryMoves
    <2>2. CASE f # e
      BY <1>1, <2>2, EntryStays
    <2> QED BY <2>1, <2>2
  <1> QED BY <1>1, <1>2 DEF OldStep, Quieted

\* The turn with its owner gone, and the turns with t fenced.
Over(x) == [x EXCEPT !.owner = "done"]

\* Turns of which t alone has changed, and has not acted.
Touches(T, t) ==
    /\ IsSequence(T) /\ Len(T) = Len(turns)
    /\ \A u \in TurnIds : u # t => T[u] = turns[u]
    /\ DOMAIN T[t] = DOMAIN turns[t] /\ T[t].fenced \in BOOLEAN /\ T[t].by = turns[t].by
    /\ T[t].entry = turns[t].entry /\ T[t].gen = turns[t].gen /\ T[t].stage = turns[t].stage
    /\ T[t].items = turns[t].items

\* The owner of a turn ends, and hands its entry on.
LEMMA Finishes ==
    ASSUME BufferInv, NEW t \in TurnIds, NEW T, Touches(T, t), turns[t].owner # "done",
           Honest(Over(T[t])), Finish(t, T), UNCHANGED joins
    PROVE  OldStep
  <1> DEFINE last == Over(T[t])
  <1>0. /\ IsSequence(T) /\ TurnIds = 1 .. Len(T) /\ t \in 1 .. Len(T) /\ DOMAIN T = 1 .. Len(T)
        /\ TurnShape(turns[t])
    BY TurnsAre DEF Touches, TurnIds, IsSequence
  <1>1. /\ last.stage = turns[t].stage /\ last.owner = "done" /\ last.fenced \in BOOLEAN
        /\ DOMAIN last = DOMAIN turns[t]
        /\ last.entry = turns[t].entry /\ last.gen = turns[t].gen /\ last.items = turns[t].items
    BY <1>0 DEF Touches, Over, TurnShape, NewTurn
  <1>m. TurnMove(turns[t], last)
    BY <1>1 DEF TurnMove
  <1>2. turns' = Changed(T, t, last)
    BY <1>0 DEF Finish, Changed, Over
  <1> HIDE DEF last
  <1>3. /\ IsSequence(Changed(T, t, last)) /\ Len(Changed(T, t, last)) = Len(T)
        /\ Changed(T, t, last)[t] = last
        /\ \A u \in 1 .. Len(T) : u # t => Changed(T, t, last)[u] = T[u]
    BY <1>0, Replacing
  <1>4. /\ IsSequence(turns') /\ Len(turns') = Len(turns) /\ turns'[t] = last
        /\ \A u \in TurnIds : u # t => turns'[u] = turns[u]
    BY <1>0, <1>2, <1>3 DEF Touches
  <1>5. ASSUME NEW u \in TurnIds PROVE TurnMove(turns[u], turns'[u]) /\ turns'[u].stage = turns[u].stage
    BY <1>1, <1>m, <1>4, TurnStays
  <1>6. slot' \in 0 .. Len(entries)
    <2>1. slot' = 0 \/ slot' = slot
      BY DEF Finish
    <2> QED BY <2>1, EntriesAre
  <1>7. /\ IsSequence(entries') /\ Len(entries') = Len(entries)
        /\ \A e \in EntryIds : EntryMoves(e)
    <2>1. CASE turns[t].entry = 0
      <3>1. entries' = entries
        BY <2>1 DEF Finish, Touches
      <3> QED BY <3>1, EntriesAre, EntryStays
    <2>2. CASE turns[t].entry # 0
      <3> DEFINE e == turns[t].entry
                 after == IF T[t].by = "timer" THEN TimerHandOff(entries[e], T[t].gen)
                          ELSE DirectHandOff(entries[e], T[t].gen)
      <3>a. e \in Nat /\ e # 0 /\ e <= Len(entries) /\ T[t].gen \in Nat
        BY <1>0, <2>2, TurnsAre DEF TurnShape, Touches
      <3>1. /\ e \in EntryIds /\ e \in 1 .. Len(entries) /\ EntryIds = 1 .. Len(entries)
            /\ T[t].gen \in Nat
        BY <3>a, EntriesAre DEF EntryIds
      <3>2. EntryShape(entries[e])
        BY <3>1, EntriesAre
      <3>3. Tame(entries[e], after)
        BY <3>1, <3>2, TimerHandsOver, DirectHandsOver
      <3>4. entries' = Changed(entries, e, after)
        <4>1. IsSequence(entries) /\ DOMAIN entries = 1 .. Len(entries)
          BY EntriesAre DEF IsSequence
        <4> QED BY <3>1, <4>1, <2>2 DEF Finish, Touches, Changed
      <3> HIDE DEF after
      <3>5. /\ IsSequence(Changed(entries, e, after))
            /\ Len(Changed(entries, e, after)) = Len(entries) /\ Changed(entries, e, after)[e] = after
            /\ \A f \in 1 .. Len(entries) : f # e => Changed(entries, e, after)[f] = entries[f]
        BY <3>1, EntriesAre, Replacing
      <3>6. \E u \in TurnIds : turns[u].entry = e /\ turns[u].owner # "done" /\ turns'[u].owner = "done"
        BY <1>1, <1>4
      <3>7. EntryMoves(e)
        BY <3>3, <3>4, <3>5, <3>6 DEF EntryMoves, Tame
      <3>8. ASSUME NEW f \in EntryIds, f # e PROVE EntryMoves(f)
        BY <3>1, <3>4, <3>5, <3>8, EntryStays
      <3> QED BY <3>4, <3>5, <3>7, <3>8
    <2> QED BY <2>1, <2>2
  <1> QED BY <1>4, <1>5, <1>6, <1>7 DEF OldStep

Fenced(t) == [turns EXCEPT ![t].fenced = TRUE]

\* Fencing a turn and cancelling an entry's task keep the turns quiet.
LEMMA FencedIsQuiet == ASSUME BufferInv, NEW t \in TurnIds PROVE Quieted(Fenced(t))
  <1> DEFINE new == [turns[t] EXCEPT !.fenced = TRUE]
  <1>0. /\ IsSequence(turns) /\ TurnIds = 1 .. Len(turns) /\ t \in 1 .. Len(turns)
        /\ DOMAIN turns = 1 .. Len(turns) /\ TurnShape(turns[t]) /\ Honest(turns[t])
    BY TurnsAre DEF TurnIds, IsSequence
  <1>1. TurnMove(turns[t], new) /\ new.stage = turns[t].stage
    BY <1>0 DEF TurnMove, Honest, TurnShape, NewTurn
  <1>2. Fenced(t) = Changed(turns, t, new)
    BY <1>0 DEF Changed, Fenced
  <1> HIDE DEF new
  <1>3. /\ IsSequence(Changed(turns, t, new)) /\ Len(Changed(turns, t, new)) = Len(turns)
        /\ Changed(turns, t, new)[t] = new
        /\ \A u \in 1 .. Len(turns) : u # t => Changed(turns, t, new)[u] = turns[u]
    BY <1>0, Replacing
  <1>4. ASSUME NEW u \in TurnIds
        PROVE  TurnMove(turns[u], Fenced(t)[u]) /\ Fenced(t)[u].stage = turns[u].stage
    BY <1>0, <1>1, <1>2, <1>3, TurnStays
  <1> QED BY <1>2, <1>3, <1>4 DEF Quieted

LEMMA CancelIsQuiet ==
    ASSUME BufferInv, NEW T, NEW e \in EntryIds, Quieted(T)
    PROVE  Quieted(CancelActive(T, entries[e]))
  <1> DEFINE i == entries[e].turn
             new == [T[i] EXCEPT !.cancelled = TRUE]
  <1>1. CASE entries[e].processing /\ T[i].owner # "done"
    <2>0. i \in TurnIds
      BY <1>1 DEF BufferInv, Lineage, IsTurnOf
    <2>1. /\ IsSequence(T) /\ TurnIds = 1 .. Len(T) /\ i \in 1 .. Len(T) /\ DOMAIN T = 1 .. Len(T)
          /\ TurnMove(turns[i], T[i]) /\ T[i].stage = turns[i].stage /\ TurnShape(turns[i])
      BY <2>0, TurnsAre DEF TurnIds, IsSequence, Quieted
    <2>2. TurnMove(turns[i], new) /\ new.stage = turns[i].stage
      BY <2>1, <1>1 DEF TurnMove, Honest, TurnShape, NewTurn
    <2>3. CancelActive(T, entries[e]) = Changed(T, i, new)
      BY <1>1, <2>1 DEF CancelActive, Changed
    <2> HIDE DEF new
    <2>4. /\ IsSequence(Changed(T, i, new)) /\ Len(Changed(T, i, new)) = Len(T)
          /\ Changed(T, i, new)[i] = new
          /\ \A u \in 1 .. Len(T) : u # i => Changed(T, i, new)[u] = T[u]
      BY <2>1, Replacing
    <2>5. ASSUME NEW u \in TurnIds
          PROVE  TurnMove(turns[u], Changed(T, i, new)[u]) /\ Changed(T, i, new)[u].stage = turns[u].stage
      BY <2>1, <2>2, <2>4 DEF Quieted
    <2> QED BY <2>3, <2>4, <2>5 DEF Quieted
  <1>2. CASE ~ (entries[e].processing /\ T[i].owner # "done")
    BY <1>2 DEF CancelActive
  <1> QED BY <1>1, <1>2

\* What a turn's generation does, and its admission.
LEMMA GenerationMoves ==
    ASSUME BufferInv, NEW t \in TurnIds,
           \/ Admit(t) \/ Act(t) \/ WantCommit(t) \/ GetCommit(t) \/ StartDelivery(t)
           \/ CompleteDelivery(t) \/ \E how \in {"done", "failed"} : Ends(t, how)
    PROVE  OldStep
  <1>0. /\ IsSequence(turns) /\ TurnIds = 1 .. Len(turns) /\ t \in 1 .. Len(turns)
        /\ DOMAIN turns = 1 .. Len(turns) /\ TurnShape(turns[t]) /\ Honest(turns[t])
    BY TurnsAre DEF TurnIds, IsSequence
  <1>1. CASE Admit(t)
    <2> DEFINE new == [turns[t] EXCEPT !.owner = "run", !.child = "work"]
    <2>1. TurnMove(turns[t], new)
      BY <1>0, <1>1 DEF Admit, Waiting, TurnMove, Honest, TurnShape, NewTurn
    <2>2. new.stage = turns[t].stage \/ turns[t].stage # "none" \/ Fresh(t)
      BY <1>0, <1>1 DEF Admit, TurnShape, NewTurn
    <2>3. turns' = Changed(turns, t, new) /\ UNCHANGED <<entries, slot, joins>>
      BY <1>0, <1>1 DEF Admit, Changed
    <2> HIDE DEF new
    <2> QED BY <2>1, <2>2, <2>3, TurnAlone
  <1>2. CASE Act(t)
    <2> DEFINE new == [turns[t] EXCEPT !.stage = "action"]
    <2>1. TurnMove(turns[t], new)
      BY <1>0, <1>2 DEF Act, Child, Fresh, Current, TurnMove, Honest, TurnShape, NewTurn
    <2>2. new.stage = turns[t].stage \/ turns[t].stage # "none" \/ Fresh(t)
      BY <1>0, <1>2 DEF Act, TurnShape, NewTurn
    <2>3. turns' = Changed(turns, t, new) /\ UNCHANGED <<entries, slot, joins>>
      BY <1>0, <1>2 DEF Act, Changed
    <2> HIDE DEF new
    <2> QED BY <2>1, <2>2, <2>3, TurnAlone
  <1>3. CASE WantCommit(t)
    <2> DEFINE new == [turns[t] EXCEPT !.child = "wait"]
    <2>1. TurnMove(turns[t], new)
      BY <1>0, <1>3 DEF WantCommit, Child, Fresh, Current, TurnMove, Honest, TurnShape, NewTurn
    <2>2. new.stage = turns[t].stage \/ turns[t].stage # "none" \/ Fresh(t)
      BY <1>0, <1>3 DEF WantCommit, TurnShape, NewTurn
    <2>3. turns' = Changed(turns, t, new) /\ UNCHANGED <<entries, slot, joins>>
      BY <1>0, <1>3 DEF WantCommit, Changed
    <2> HIDE DEF new
    <2> QED BY <2>1, <2>2, <2>3, TurnAlone
  <1>4. CASE GetCommit(t)
    <2> DEFINE new == [turns[t] EXCEPT !.child = "hold"]
    <2>1. TurnMove(turns[t], new)
      BY <1>0, <1>4 DEF GetCommit, Child, Fresh, Current, TurnMove, Honest, TurnShape, NewTurn
    <2>2. new.stage = turns[t].stage \/ turns[t].stage # "none" \/ Fresh(t)
      BY <1>0, <1>4 DEF GetCommit, TurnShape, NewTurn
    <2>3. turns' = Changed(turns, t, new) /\ UNCHANGED <<entries, slot, joins>>
      BY <1>0, <1>4 DEF GetCommit, Changed
    <2> HIDE DEF new
    <2> QED BY <2>1, <2>2, <2>3, TurnAlone
  <1>5. CASE StartDelivery(t)
    <2> DEFINE new == [turns[t] EXCEPT !.stage = "started"]
    <2>1. TurnMove(turns[t], new)
      BY <1>0, <1>5 DEF StartDelivery, Child, Fresh, Current, TurnMove, Honest, TurnShape, NewTurn
    <2>2. new.stage = turns[t].stage \/ turns[t].stage # "none" \/ Fresh(t)
      BY <1>0, <1>5 DEF StartDelivery, TurnShape, NewTurn
    <2>3. turns' = Changed(turns, t, new) /\ UNCHANGED <<entries, slot, joins>>
      BY <1>0, <1>5 DEF StartDelivery, Changed
    <2> HIDE DEF new
    <2> QED BY <2>1, <2>2, <2>3, TurnAlone
  <1>6. CASE CompleteDelivery(t)
    <2> DEFINE new == [turns[t] EXCEPT !.stage = "complete"]
    <2>1. TurnMove(turns[t], new)
      BY <1>0, <1>6 DEF CompleteDelivery, Child, TurnMove, Honest, TurnShape, NewTurn
    <2>2. new.stage = turns[t].stage \/ turns[t].stage # "none" \/ Fresh(t)
      BY <1>0, <1>6 DEF CompleteDelivery, TurnShape, NewTurn
    <2>3. turns' = Changed(turns, t, new) /\ UNCHANGED <<entries, slot, joins>>
      BY <1>0, <1>6 DEF CompleteDelivery, Changed
    <2> HIDE DEF new
    <2> QED BY <2>1, <2>2, <2>3, TurnAlone
  <1>7. ASSUME NEW how \in {"done", "failed"}, Ends(t, how) PROVE OldStep
    <2> DEFINE new == [turns[t] EXCEPT !.child = how]
    <2>1. TurnMove(turns[t], new) /\ new.stage = turns[t].stage
      BY <1>0, <1>7 DEF Ends, Child, TurnMove, Honest, TurnShape, NewTurn
    <2>2. turns' = Changed(turns, t, new) /\ UNCHANGED <<entries, slot, joins>>
      BY <1>0, <1>7 DEF Ends, Changed
    <2> HIDE DEF new
    <2> QED BY <2>1, <2>2, TurnAlone
  <1> QED BY <1>1, <1>2, <1>3, <1>4, <1>5, <1>6, <1>7

LEMMA StaysTouched == ASSUME BufferInv, NEW t \in TurnIds PROVE Touches(turns, t)
  BY TurnsAre DEF Touches, TurnShape

\* An honest turn that is over is honest.
LEMMA OverIsHonest == ASSUME NEW x, TurnShape(x), Honest(x) PROVE Honest(Over(x))
  BY DEF TurnShape, Honest, Over, NewTurn

\* What a turn's owner does once it has asked for admission.
LEMMA OwnerMoves ==
    ASSUME BufferInv, NEW t \in TurnIds,
           \/ AdmissionTimeout(t) \/ Returns(t) \/ Fails(t) \/ Timeout(t)
           \/ RecordWritten(t) \/ OwnerCancelled(t)
    PROVE  OldStep
  <1>0. /\ IsSequence(turns) /\ TurnIds = 1 .. Len(turns) /\ t \in 1 .. Len(turns)
        /\ DOMAIN turns = 1 .. Len(turns) /\ TurnShape(turns[t]) /\ Honest(turns[t])
    BY TurnsAre DEF TurnIds, IsSequence
  <1>t. ASSUME NEW new, DOMAIN new = DOMAIN turns[t],
               new.fenced \in BOOLEAN, new.by = turns[t].by, new.entry = turns[t].entry,
               new.gen = turns[t].gen, new.stage = turns[t].stage, new.items = turns[t].items
        PROVE  Touches(Changed(turns, t, new), t) /\ Changed(turns, t, new)[t] = new
    <2>1. /\ IsSequence(Changed(turns, t, new)) /\ Len(Changed(turns, t, new)) = Len(turns)
          /\ Changed(turns, t, new)[t] = new
          /\ \A u \in 1 .. Len(turns) : u # t => Changed(turns, t, new)[u] = turns[u]
      BY <1>0, Replacing
    <2> QED BY <1>0, <1>t, <2>1 DEF Touches
  <1>o. Touches(turns, t) /\ Honest(Over(turns[t]))
    BY <1>0, StaysTouched, OverIsHonest
  <1>1. CASE AdmissionTimeout(t)
    <2> DEFINE new == [turns[t] EXCEPT !.filed = "recoverable"]
    <2>1. /\ DOMAIN new = DOMAIN turns[t] /\ new.fenced \in BOOLEAN /\ new.by = turns[t].by
          /\ new.entry = turns[t].entry /\ new.gen = turns[t].gen /\ new.stage = turns[t].stage
          /\ new.items = turns[t].items
      BY <1>0 DEF TurnShape, NewTurn
    <2>2. Honest(Over(new))
      BY <1>0, <1>1 DEF AdmissionTimeout, Waiting, Over, Honest, TurnShape, NewTurn
    <2>3. Finish(t, Changed(turns, t, new)) /\ turns[t].owner # "done" /\ UNCHANGED joins
      <3>1. [turns EXCEPT ![t].filed = "recoverable"] = Changed(turns, t, new)
        BY <1>0 DEF Changed
      <3> QED BY <3>1, <1>1 DEF AdmissionTimeout, Waiting
    <2> HIDE DEF new
    <2> QED BY <2>1, <2>2, <2>3, <1>t, Finishes
  <1>2. CASE Returns(t) \/ RecordWritten(t)
    <2>1. turns[t].owner # "done" /\ Finish(t, turns) /\ UNCHANGED joins
      BY <1>2 DEF Returns, RecordWritten, Waiting
    <2> QED BY <2>1, <1>o, Finishes
  <1>3. CASE Fails(t)
    <2>1. CASE Finish(t, turns)
      <3>1. turns[t].owner # "done" /\ UNCHANGED joins
        BY <1>3 DEF Fails, Waiting
      <3> QED BY <2>1, <3>1, <1>o, Finishes
    <2>2. CASE Files(t, turns)
      <3> DEFINE new == [turns[t] EXCEPT !.owner = "record", !.filed = FailureClass(turns[t])]
      <3>1. TurnMove(turns[t], new) /\ new.stage = turns[t].stage
        BY <1>0, <1>3 DEF Fails, Waiting, FailureClass, TurnMove, Honest, TurnShape, NewTurn
      <3>2. turns' = Changed(turns, t, new) /\ UNCHANGED <<entries, slot, joins>>
        BY <1>0, <1>3, <2>2 DEF Fails, Files, Changed
      <3> HIDE DEF new
      <3> QED BY <3>1, <3>2, TurnAlone
    <2> QED BY <1>3, <2>1, <2>2 DEF Fails
  <1>4. CASE Timeout(t)
    <2> DEFINE new == [turns[t] EXCEPT !.fenced = TRUE]
               last == [turns[t] EXCEPT !.fenced = TRUE, !.owner = "record",
                                        !.filed = FailureClass(turns[t])]
    <2>0. turns[t].owner = "run" /\ UNCHANGED joins
      BY <1>4 DEF Timeout, Waiting
    <2>1. CASE Finish(t, [turns EXCEPT ![t].fenced = TRUE])
      <3>1. /\ DOMAIN new = DOMAIN turns[t] /\ new.fenced \in BOOLEAN /\ new.by = turns[t].by
            /\ new.entry = turns[t].entry /\ new.gen = turns[t].gen /\ new.stage = turns[t].stage
            /\ new.items = turns[t].items
        BY <1>0 DEF TurnShape, NewTurn
      <3>2. Honest(Over(new))
        BY <1>0, <2>0 DEF Over, Honest, TurnShape, NewTurn
      <3>3. [turns EXCEPT ![t].fenced = TRUE] = Changed(turns, t, new)
        BY <1>0 DEF Changed
      <3> HIDE DEF new
      <3> QED BY <2>0, <2>1, <3>1, <3>2, <3>3, <1>t, Finishes
    <2>2. CASE Files(t, [turns EXCEPT ![t].fenced = TRUE])
      <3>1. TurnMove(turns[t], last) /\ last.stage = turns[t].stage
        BY <1>0, <2>0 DEF FailureClass, TurnMove, Honest, TurnShape, NewTurn
      <3>2. turns' = Changed(turns, t, last) /\ UNCHANGED <<entries, slot, joins>>
        BY <1>0, <2>0, <2>2 DEF Files, Changed
      <3> HIDE DEF last
      <3> QED BY <3>1, <3>2, TurnAlone
    <2> QED BY <1>4, <2>1, <2>2 DEF Timeout
  <1>5. CASE OwnerCancelled(t)
    <2> DEFINE new == [turns[t] EXCEPT !.cancelled = FALSE,
                                       !.fenced = @ \/ turns[t].owner = "run"]
               last == [turns[t] EXCEPT !.cancelled = FALSE,
                                        !.fenced = @ \/ turns[t].owner = "run", !.owner = "done"]
               T == [turns EXCEPT ![t].cancelled = FALSE,
                                  ![t].fenced = @ \/ turns[t].owner = "run"]
    <2>0. turns[t].owner # "done" /\ UNCHANGED joins
      BY <1>5 DEF OwnerCancelled
    <2>1. CASE Finish(t, T)
      <3>1. /\ DOMAIN new = DOMAIN turns[t] /\ new.fenced \in BOOLEAN /\ new.by = turns[t].by
            /\ new.entry = turns[t].entry /\ new.gen = turns[t].gen /\ new.stage = turns[t].stage
            /\ new.items = turns[t].items
        BY <1>0 DEF TurnShape, NewTurn
      <3>2. Honest(Over(new))
        BY <1>0, <2>0 DEF Over, Honest, TurnShape, NewTurn
      <3>3. T = Changed(turns, t, new)
        BY <1>0 DEF Changed
      <3> HIDE DEF new, T
      <3> QED BY <2>0, <2>1, <3>1, <3>2, <3>3, <1>t, Finishes
    <2>2. CASE turns' = [T EXCEPT ![t].owner = "done"] /\ UNCHANGED <<entries, slot>>
      <3>1. TurnMove(turns[t], last) /\ last.stage = turns[t].stage
        BY <1>0, <2>0 DEF TurnMove, Honest, TurnShape, NewTurn
      <3>2. turns' = Changed(turns, t, last)
        BY <1>0, <2>2 DEF Changed
      <3> HIDE DEF last
      <3> QED BY <2>0, <2>2, <3>1, <3>2, TurnAlone
    <2> QED BY <1>5, <2>1, <2>2 DEF OwnerCancelled
  <1> QED BY <1>1, <1>2, <1>3, <1>4, <1>5

\* What the invariant says of one entry.
LEMMA KnownEntry ==
    ASSUME BufferInv, NEW e \in EntryIds
    PROVE  /\ IsSequence(entries) /\ EntryIds = 1 .. Len(entries) /\ DOMAIN entries = 1 .. Len(entries)
           /\ e # 0 /\ EntryShape(entries[e]) /\ entries[e].repl <= entries[e].superseded
           /\ entries[e].processing => entries[e].turn # 0
           /\ entries[e].turn # 0 => IsTurnOf(entries[e].turn, e, entries[e].current)
  <1>1. /\ IsSequence(entries) /\ EntryIds = 1 .. Len(entries) /\ DOMAIN entries = 1 .. Len(entries)
        /\ e # 0 /\ EntryShape(entries[e])
    BY EntriesAre DEF EntryIds, IsSequence
  <1>2. /\ entries[e].repl <= entries[e].superseded
        /\ \/ entries[e].turn = 0 /\ ~ entries[e].processing
           \/ IsTurnOf(entries[e].turn, e, entries[e].current)
    BY DEF BufferInv, Lineage
  <1>3. ASSUME NEW g PROVE ~ IsTurnOf(0, e, g)
    BY DEF IsTurnOf, TurnIds
  <1> QED BY <1>1, <1>2, <1>3

\* A turn of an entry that may still be replaced is of its current generation,
\* untouched, and the first of it to be superseded.
LEMMA SafeIsCurrent ==
    ASSUME BufferInv, NEW e \in EntryIds, NEW t \in TurnIds, turns[t].entry = e,
           Safe(turns[t], entries[e])
    PROVE  /\ turns[t].gen = entries[e].current /\ entries[e].superseded < entries[e].current
           /\ Untouched(e)
  <1>1. /\ turns[t].gen = entries[e].current /\ entries[e].superseded < turns[t].gen
        /\ turns[t].stage = "none"
    BY KnownEntry DEF Safe, Current
  <1> QED BY <1>1 DEF Untouched, IsTurnOf

\* An entry moved about in place, with all else at rest.
LEMMA EntryMoved ==
    ASSUME BufferInv, NEW e \in EntryIds, NEW new, Busy(entries[e], new),
           entries' = Changed(entries, e, new), slot' = slot \/ slot' = 0, Quieted(turns'),
           joins' \subseteq joins
    PROVE  OldStep
  <1>1. slot' \in 0 .. Len(entries)
    BY EntriesAre
  <1> QED BY <1>1, EntryAlone DEF Busy, Tame

\* The delay or the window of an entry is over.
LEMMA ClockMoves ==
    ASSUME BufferInv, NEW e \in EntryIds, TimerFires(e) \/ WindowCloses(e)
    PROVE  OldStep
  <1>1. CASE TimerFires(e)
    <2> DEFINE at == IF slot # e \/ entries[e].processing THEN "off" ELSE "gate"
               new == [entries[e] EXCEPT !.timer = at]
    <2>1. at \in {"off", "gate"} /\ (at = "gate" => ~ entries[e].processing)
      OBVIOUS
    <2>2. entries' = Changed(entries, e, new) /\ UNCHANGED <<slot, turns, joins>>
      BY <1>1, KnownEntry DEF TimerFires, Changed
    <2> HIDE DEF at
    <2>3. Busy(entries[e], new)
      BY <2>1, KnownEntry DEF EntryShape, Busy, Tame, Base, Same, NewEntry
    <2> HIDE DEF new
    <2> QED BY <2>2, <2>3, EntryMoved, TurnsStay
  <1>2. CASE WindowCloses(e)
    <2> DEFINE new == [entries[e] EXCEPT !.window = "shut"]
    <2>1. entries' = Changed(entries, e, new) /\ UNCHANGED <<slot, turns, joins>>
      BY <1>2, KnownEntry DEF WindowCloses, Changed
    <2>2. Busy(entries[e], new)
      BY KnownEntry DEF EntryShape, Busy, Tame, Base, Same, NewEntry
    <2> HIDE DEF new
    <2> QED BY <2>1, <2>2, EntryMoved, TurnsStay
  <1> QED BY <1>1, <1>2

\* A drain ends and leaves the entry otherwise as it was.
LEMMA DrainEndsAsIs ==
    ASSUME BufferInv, NEW e \in EntryIds, NEW x, Busy(entries[e], x), x.drain.pc # "off", NEW T, Quieted(T),
           DrainEnds(e, x, T), UNCHANGED <<slot, joins>>
    PROVE  OldStep
  <1> DEFINE new == Drained(x, T, x.drain.gen)
  <1>1. Busy(x, new)
    BY DrainsOut DEF Busy, Tame, Base
  <1>2. Busy(entries[e], new)
    BY <1>1, TameTwice
  <1>3. entries' = Changed(entries, e, new) /\ turns' = T
    BY DEF DrainEnds, Changed
  <1> HIDE DEF new
  <1> QED BY <1>2, <1>3, EntryMoved

\* A drain ends with its entry superseded.
LEMMA DrainEndsSuperseding ==
    ASSUME BufferInv, NEW e \in EntryIds, entries[e].drain.pc # "off", NEW accepted, NEW T, Quieted(T),
           \/ entries[e].repl = entries[e].current
           \/ entries[e].superseded < entries[e].current /\ Untouched(e),
           DrainEnds(e, Superseding(entries[e], entries[e].current, accepted), T), UNCHANGED <<slot, joins>>
    PROVE  OldStep
  <1> DEFINE x == entries[e]
             y == Superseding(x, x.current, accepted)
             new == Drained(y, T, y.drain.gen)
  <1>1. /\ Base(x, y) /\ y.processing = x.processing /\ y.drain = x.drain
        /\ x.superseded < x.current => Raised(x, y)
        /\ x.repl = x.current => Same(x, y)
    BY KnownEntry, Supersedes
  <1>2. entries' = Changed(entries, e, new) /\ turns' = T
    BY DEF DrainEnds, Changed
  <1> HIDE DEF y
  <1>3. Busy(y, new)
    BY <1>1, DrainsOut DEF Base
  <1> HIDE DEF new
  <1>4. /\ Base(x, new) /\ new.processing = x.processing
        /\ Raised(x, y) => Raised(x, new)
        /\ Same(x, y) => Same(x, new)
    BY <1>1, <1>3 DEF Busy, Tame, Base, Same, Raised, EntryShape
  <1>5. slot' \in 0 .. Len(entries)
    BY EntriesAre
  <1> QED BY <1>1, <1>2, <1>4, <1>5, EntryAlone

\* The final check under the commit lock, and what follows from it.
LEMMA FenceMoves ==
    ASSUME BufferInv, NEW e \in EntryIds, NEW accepted, entries[e].drain.pc \in {"judge", "lock"},
           FenceUnderLock(e, accepted), UNCHANGED <<slot, joins>>
    PROVE  OldStep
  <1> DEFINE d == entries[e].drain
  <1>1. IsTurnOf(d.turn, e, d.gen)
    BY DEF BufferInv, Lineage
  <1>2. CASE DrainEnds(e, entries[e], turns)
    <2>1. Busy(entries[e], entries[e])
      BY KnownEntry, Rests
    <2> QED BY <1>2, <2>1, TurnsStay, DrainEndsAsIs
  <1>3. CASE /\ Safe(turns[d.turn], entries[e])
             /\ DrainEnds(e, Superseding(entries[e], d.gen, accepted),
                          CancelActive([turns EXCEPT ![d.turn].fenced = TRUE], entries[e]))
    <2>1. d.turn \in TurnIds /\ turns[d.turn].entry = e /\ turns[d.turn].gen = d.gen
      BY <1>1 DEF IsTurnOf
    <2>2. /\ d.gen = entries[e].current /\ entries[e].superseded < entries[e].current
          /\ Untouched(e)
      BY <1>3, <2>1, SafeIsCurrent
    <2> DEFINE T == CancelActive(Fenced(d.turn), entries[e])
    <2>3. Quieted(T)
      BY <2>1, FencedIsQuiet, CancelIsQuiet
    <2>4. DrainEnds(e, Superseding(entries[e], entries[e].current, accepted), T)
      BY <1>3, <2>2 DEF Fenced
    <2> HIDE DEF T
    <2> QED BY <2>2, <2>3, <2>4, DrainEndsSuperseding
  <1> QED BY <1>2, <1>3 DEF FenceUnderLock

\* The three steps of an entry's drain.
LEMMA DrainMoves ==
    ASSUME BufferInv, NEW e \in EntryIds,
           \/ DrainSubmits(e) \/ DrainLocks(e)
           \/ \E related \in SUBSET Msgs : DrainJudged(e, related)
    PROVE  OldStep
  <1>0. EntryShape(entries[e]) /\ Busy(entries[e], entries[e])
    BY KnownEntry, Rests
  <1>1. CASE DrainSubmits(e)
    <2> DEFINE g == entries[e].drain.gen
               taken == [entries[e] EXCEPT !.candidates = <<>>]
               open == CanReplace(entries[e], g, Safe(turns[entries[e].turn], entries[e]))
                            \/ ReplacementPending(entries[e], g)
    <2>0. entries[e].drain.pc = "sleep" /\ UNCHANGED <<slot, joins>>
      BY <1>1 DEF DrainSubmits
    <2>1. CASE DrainEnds(e, taken, turns)
      <3>1. Busy(entries[e], taken) /\ taken.drain = entries[e].drain
        BY <1>0 DEF EntryShape, Busy, Tame, Base, Same, NewEntry
      <3> HIDE DEF taken
      <3> QED BY <2>0, <2>1, <3>1, TurnsStay, DrainEndsAsIs
    <2>2. ASSUME NEW safe, entries[e].current = g, UNCHANGED turns,
                 entries' = [entries EXCEPT ![e] =
                        [taken EXCEPT !.drain = [pc |-> "judge", gen |-> g, turn |-> entries[e].turn,
                                                 batch |-> entries[e].candidates, safe |-> safe]]]
          PROVE  OldStep
      <3> DEFINE d == [pc |-> "judge", gen |-> g, turn |-> entries[e].turn,
                       batch |-> entries[e].candidates, safe |-> safe]
                 new == [entries[e] EXCEPT !.candidates = <<>>, !.drain = d]
      <3>1. /\ DOMAIN d = DOMAIN NewDrain(0) /\ d.pc = "judge" /\ d.gen = g
            /\ d.turn = entries[e].turn
        BY DEF NewDrain
      <3>2. entries' = Changed(entries, e, new)
        BY <2>2, <1>0 DEF Changed
      <3> HIDE DEF d
      <3>3. Busy(entries[e], new)
        BY <1>0, <2>0, <2>2, <3>1 DEF EntryShape, Busy, Tame, Base, Same, NewEntry
      <3> HIDE DEF new
      <3> QED BY <2>0, <2>2, <3>2, <3>3, TurnsStay, EntryMoved
    <2>3. open => entries[e].current = g
      BY DEF CanReplace, ReplacementPending
    <2> QED BY <1>1, <2>1, <2>2, <2>3 DEF DrainSubmits
  <1>2. CASE DrainLocks(e)
    BY <1>2, FenceMoves DEF DrainLocks
  <1>3. ASSUME NEW related \in SUBSET Msgs, DrainJudged(e, related) PROVE OldStep
    <2> DEFINE d == entries[e].drain
               accepted == Without(d.batch, Elems(d.batch) \ related)
    <2>0. d.pc = "judge" /\ UNCHANGED <<slot, joins>>
      BY <1>3 DEF DrainJudged
    <2>1. CASE DrainEnds(e, entries[e], turns)
      BY <1>0, <2>0, <2>1, TurnsStay, DrainEndsAsIs
    <2>2. CASE /\ ReplacementPending(entries[e], d.gen)
               /\ DrainEnds(e, Superseding(entries[e], d.gen, accepted), CancelActive(turns, entries[e]))
      <3> HIDE DEF accepted
      <3> DEFINE T == CancelActive(turns, entries[e])
      <3>1. entries[e].repl = entries[e].current /\ d.gen = entries[e].current
        BY <2>2 DEF ReplacementPending
      <3>2. Quieted(T)
        BY TurnsStay, CancelIsQuiet
      <3>3. DrainEnds(e, Superseding(entries[e], entries[e].current, accepted), T)
        BY <2>2, <3>1
      <3> HIDE DEF T
      <3> QED BY <2>0, <3>1, <3>2, <3>3, DrainEndsSuperseding
    <2>3. CASE FenceUnderLock(e, accepted)
      <3> HIDE DEF accepted
      <3> QED BY <2>0, <2>3, FenceMoves
    <2>4. CASE /\ entries' = [entries EXCEPT ![e].drain = [d EXCEPT !.pc = "lock", !.batch = accepted]]
               /\ UNCHANGED turns
      <3> HIDE DEF accepted
      <3> DEFINE next == [d EXCEPT !.pc = "lock", !.batch = accepted]
                 new == [entries[e] EXCEPT !.drain = next]
      <3>1. /\ DOMAIN next = DOMAIN NewDrain(0) /\ next.pc = "lock" /\ next.turn = d.turn
            /\ next.gen = d.gen
        BY <1>0, <2>0 DEF EntryShape, NewDrain
      <3>2. entries' = Changed(entries, e, new)
        BY <2>4, KnownEntry DEF Changed
      <3> HIDE DEF next
      <3>3. Busy(entries[e], new)
        BY <1>0, <2>0, <3>1 DEF EntryShape, Busy, Tame, Base, Same, NewEntry
      <3> HIDE DEF new
      <3> QED BY <2>0, <2>4, <3>2, <3>3, TurnsStay, EntryMoved
    <2> QED BY <1>3, <2>1, <2>2, <2>3, <2>4 DEF DrainJudged
  <1> QED BY <1>1, <1>2, <1>3
-----------------------------------------------------------------------------
(* Steps that begin a turn or make an entry                                 *)

\* An entry processing turn i, of generation g, which has just begun; x was idle until then.
Opened(y, i, g) ==
    /\ EntryShape(y) /\ y.processing /\ y.turn = i /\ y.current = g
    /\ y.timer # "gate" /\ y.repl <= y.superseded

Continues(x, y) ==
    ~ x.processing /\ y.superseded = x.superseded /\ y.drain = x.drain /\ x.current < y.current

\* A turn begins, with no entry, with a new one or with an idle one.
LEMMA Begins ==
    ASSUME BufferInv, NEW turn, TurnShape(turn), Honest(turn), turn.stage = "none",
           turns' = Append(turns, turn), joins' = joins, slot' \in 0 .. Len(entries'),
           IsSequence(entries'), Len(entries) <= Len(entries'),
           \A e \in EntryIds : e # turn.entry => entries'[e] = entries[e],
           \A e \in EntryIds' : e \in EntryIds \/ e = turn.entry,
           turn.entry # 0 => /\ turn.entry \in EntryIds'
                             /\ Opened(entries'[turn.entry], Len(turns) + 1, turn.gen),
           turn.entry \in EntryIds => Continues(entries[turn.entry], entries'[turn.entry]),
           turn.entry # 0 /\ turn.entry \notin EntryIds => entries'[turn.entry].drain.pc = "off"
    PROVE  BufferInv'
  <1> DEFINE n == Len(turns) + 1
             e0 == turn.entry
  <1>l. /\ IsSequence(turns) /\ Len(turns) \in Nat /\ Len(entries) \in Nat /\ Len(entries') \in Nat
    <2>1. Len(entries') \in Nat
      BY DEF IsSequence
    <2> QED BY <2>1, TurnsAre, EntriesAre
  <1>1. /\ IsSequence(turns') /\ Len(turns') = n /\ turns'[n] = turn
        /\ \A t \in TurnIds : turns'[t] = turns[t]
    BY <1>l, Appended DEF TurnIds
  <1>2. /\ n \in TurnIds' /\ n \notin TurnIds /\ n # 0
        /\ \A t \in TurnIds' : t \in TurnIds \/ t = n
        /\ TurnIds \subseteq TurnIds' /\ EntryIds \subseteq EntryIds' /\ 0 \notin EntryIds'
    BY <1>l, <1>1 DEF TurnIds, EntryIds
  <1>3. ASSUME NEW t \in TurnIds
        PROVE  /\ TurnShape(turns[t]) /\ Honest(turns[t]) /\ turns[t].entry <= Len(entries)
               /\ turns[t].entry # 0 => turns[t].entry \in EntryIds
    <2>1. TurnShape(turns[t]) /\ Honest(turns[t]) /\ turns[t].entry <= Len(entries)
      BY TurnsAre
    <2>2. turns[t].entry \in Nat
      BY <2>1 DEF TurnShape
    <2> QED BY <1>l, <2>1, <2>2 DEF EntryIds
  <1>4. ASSUME NEW t \in TurnIds, turns[t].entry = e0, e0 # 0
        PROVE  /\ e0 \in EntryIds /\ turns[t].owner = "done" /\ turns[t].gen < turn.gen
               /\ turns[t].gen <= entries'[e0].current /\ entries'[e0].superseded = entries[e0].superseded
    <2>1. e0 \in EntryIds /\ ~ entries[e0].processing /\ entries[e0].current < entries'[e0].current
          /\ entries'[e0].superseded = entries[e0].superseded /\ entries'[e0].current = turn.gen
      BY <1>3, <1>4 DEF Continues, Opened
    <2>2. turns[t].owner = "done" /\ turns[t].gen <= entries[e0].current
      BY <1>4, <2>1 DEF BufferInv, Owned, Lineage
    <2>3. turns[t].gen \in Nat /\ entries[e0].current \in Nat /\ turn.gen \in Nat
      BY <1>3, <2>1, EntriesAre DEF TurnShape, EntryShape
    <2> QED BY <2>1, <2>2, <2>3
  <1>5. ASSUME NEW t \in TurnIds, turns[t].entry # 0, turns[t].entry # e0
        PROVE  entries'[turns[t].entry] = entries[turns[t].entry]
    BY <1>3, <1>5
  <1>6. Shapes'
    <2>1. ASSUME NEW e \in EntryIds' PROVE EntryShape(entries'[e])
      <3>1. CASE e = e0
        BY <1>2, <3>1 DEF Opened
      <3>2. CASE e # e0
        BY <3>2, EntriesAre
      <3> QED BY <3>1, <3>2
    <2>2. ASSUME NEW t \in TurnIds' PROVE TurnShape(turns'[t]) /\ turns'[t].entry <= Len(entries')
      <3>1. CASE t \in TurnIds
        <4>1. turns[t].entry \in Nat /\ turns[t].entry <= Len(entries)
          BY <1>3, <3>1 DEF TurnShape
        <4>2. TurnShape(turns[t]) /\ turns'[t] = turns[t]
          BY <1>1, <1>3, <3>1
        <4>3. turns[t].entry <= Len(entries')
          BY <1>l, <4>1
        <4> QED BY <4>2, <4>3
      <3>2. CASE t = n
        <4>1. turn.entry = 0 \/ turn.entry \in 1 .. Len(entries')
          BY DEF EntryIds
        <4> QED BY <1>1, <1>l, <3>2, <4>1
      <3> QED BY <1>2, <3>1, <3>2
    <2> QED BY <1>1, <2>1, <2>2 DEF Shapes
  <1>7. Owned'
    <2>1. ASSUME NEW t \in TurnIds', turns'[t].entry # 0, turns'[t].owner # "done"
          PROVE  entries'[turns'[t].entry].processing /\ entries'[turns'[t].entry].turn = t
      <3>1. CASE t = n
        BY <1>1, <2>1, <3>1 DEF Opened
      <3>2. CASE t \in TurnIds
        <4>1. turns'[t] = turns[t] /\ turns[t].entry # e0
          BY <1>1, <1>4, <2>1, <3>2
        <4>2. entries[turns[t].entry].processing /\ entries[turns[t].entry].turn = t
          BY <2>1, <3>2, <4>1 DEF BufferInv, Owned
        <4> QED BY <1>5, <2>1, <3>2, <4>1, <4>2
      <3> QED BY <1>2, <3>1, <3>2
    <2>2. ASSUME NEW e \in EntryIds', entries'[e].timer = "gate" PROVE ~ entries'[e].processing
      <3>1. e # e0
        BY <1>2, <2>2 DEF Opened
      <3> QED BY <2>2, <3>1 DEF BufferInv, Owned
    <2> QED BY <2>1, <2>2 DEF Owned
  <1>8. Lineage'
    <2>1. ASSUME NEW t \in TurnIds', turns'[t].entry # 0
          PROVE  turns'[t].gen <= entries'[turns'[t].entry].current
      <3>1. CASE t = n
        <4>1. turn.gen \in Nat /\ entries'[e0].current = turn.gen
          BY <1>1, <2>1, <3>1 DEF Opened, TurnShape
        <4> QED BY <1>1, <3>1, <4>1
      <3>2. CASE t \in TurnIds /\ turns[t].entry = e0
        BY <1>1, <1>4, <2>1, <3>2
      <3>3. CASE t \in TurnIds /\ turns[t].entry # e0
        <4>1. turns'[t] = turns[t] /\ turns[t].entry # 0
          BY <1>1, <2>1, <3>3
        <4>2. turns[t].gen <= entries[turns[t].entry].current
          BY <3>3, <4>1 DEF BufferInv, Lineage
        <4> QED BY <1>5, <3>3, <4>1, <4>2
      <3> QED BY <1>2, <3>1, <3>2, <3>3
    <2>2. ASSUME NEW t \in TurnIds', NEW u \in TurnIds', t # u,
                 turns'[t].entry = turns'[u].entry, turns'[t].entry # 0
          PROVE  turns'[t].gen # turns'[u].gen
      <3>1. CASE t \in TurnIds /\ u \in TurnIds
        <4>1. turns'[t] = turns[t] /\ turns'[u] = turns[u]
          BY <1>1, <3>1
        <4> QED BY <2>2, <3>1, <4>1 DEF BufferInv, Lineage
      <3>2. ASSUME NEW a \in TurnIds, turns[a].entry = e0, e0 # 0 PROVE turns[a].gen # turn.gen
        <4>1. turns[a].gen < turn.gen /\ turns[a].gen \in Nat /\ turn.gen \in Nat
          BY <1>3, <1>4, <3>2 DEF TurnShape
        <4> QED BY <4>1
      <3> QED BY <1>1, <1>2, <2>2, <3>1, <3>2
    <2>3. ASSUME NEW e \in EntryIds'
          PROVE  /\ entries'[e].repl <= entries'[e].superseded
                 /\ \/ entries'[e].turn = 0 /\ ~ entries'[e].processing
                    \/ IsTurnOf(entries[e].turn, e, entries[e].current)'
                 /\ entries'[e].drain.pc \in {"judge", "lock"}
                        => IsTurnOf(entries[e].drain.turn, e, entries[e].drain.gen)'
      <3>1. CASE e = e0
        <4>1. Opened(entries'[e], n, turn.gen)
          BY <1>2, <3>1
        <4>2. IsTurnOf(entries[e].turn, e, entries[e].current)'
          BY <1>1, <1>2, <3>1, <4>1 DEF IsTurnOf, Opened
        <4>3. ASSUME entries'[e].drain.pc \in {"judge", "lock"}
              PROVE  IsTurnOf(entries[e].drain.turn, e, entries[e].drain.gen)'
          <5>1. e \in EntryIds /\ entries'[e].drain = entries[e].drain
            BY <1>2, <3>1, <4>3 DEF Continues
          <5>2. IsTurnOf(entries[e].drain.turn, e, entries[e].drain.gen)
            BY <4>3, <5>1 DEF BufferInv, Lineage
          <5>3. /\ entries[e].drain.turn \in TurnIds' /\ turns'[entries[e].drain.turn].entry = e
                /\ turns'[entries[e].drain.turn].gen = entries[e].drain.gen
            BY <1>1, <1>2, <5>2, Zenon DEF IsTurnOf
          <5> QED BY <5>1, <5>3 DEF IsTurnOf
        <4> QED BY <4>1, <4>2, <4>3 DEF Opened
      <3>2. CASE e # e0
        <4>1. e \in EntryIds /\ entries'[e] = entries[e]
          BY <3>2
        <4>2. /\ entries[e].repl <= entries[e].superseded
              /\ \/ entries[e].turn = 0 /\ ~ entries[e].processing
                 \/ IsTurnOf(entries[e].turn, e, entries[e].current)
              /\ entries[e].drain.pc \in {"judge", "lock"}
                    => IsTurnOf(entries[e].drain.turn, e, entries[e].drain.gen)
          BY <4>1 DEF BufferInv, Lineage
        <4>3. \/ entries'[e].turn = 0 /\ ~ entries'[e].processing
              \/ IsTurnOf(entries[e].turn, e, entries[e].current)'
          <5>1. CASE IsTurnOf(entries[e].turn, e, entries[e].current)
            <6>1. /\ entries[e].turn \in TurnIds' /\ turns'[entries[e].turn].entry = e
                  /\ turns'[entries[e].turn].gen = entries[e].current
              BY <1>1, <1>2, <5>1, Zenon DEF IsTurnOf
            <6> QED BY <4>1, <6>1 DEF IsTurnOf
          <5> QED BY <4>1, <4>2, <5>1
        <4>4. ASSUME entries'[e].drain.pc \in {"judge", "lock"}
              PROVE  IsTurnOf(entries[e].drain.turn, e, entries[e].drain.gen)'
          <5>1. IsTurnOf(entries[e].drain.turn, e, entries[e].drain.gen)
            BY <4>1, <4>2, <4>4
          <5>2. /\ entries[e].drain.turn \in TurnIds' /\ turns'[entries[e].drain.turn].entry = e
                /\ turns'[entries[e].drain.turn].gen = entries[e].drain.gen
            BY <1>1, <1>2, <5>1, Zenon DEF IsTurnOf
          <5> QED BY <4>1, <5>2 DEF IsTurnOf
        <4> QED BY <4>1, <4>2, <4>3, <4>4
      <3> QED BY <3>1, <3>2
    <2>4. ASSUME NEW j \in joins'
          PROVE  j.turn \in TurnIds' /\ j.entry \in EntryIds' /\ turns'[j.turn].entry = j.entry
      BY <1>1, <1>2, <2>4 DEF BufferInv, Lineage
    <2> QED BY <2>1, <2>2, <2>3, <2>4 DEF Lineage
  <1>9. ReplacedIsSilent'
    <2> SUFFICES ASSUME NEW t \in TurnIds', turns'[t].entry # 0,
                        turns'[t].gen = entries'[turns'[t].entry].superseded
                 PROVE  turns'[t].stage = "none"
      BY DEF ReplacedIsSilent
    <2>1. CASE t = n
      BY <1>1, <2>1
    <2>2. CASE t \in TurnIds
      <3>1. turns'[t] = turns[t] /\ entries'[turns[t].entry].superseded = entries[turns[t].entry].superseded
        BY <1>1, <1>4, <1>5, <2>2
      <3> QED BY <2>2, <3>1 DEF BufferInv, ReplacedIsSilent
    <2> QED BY <1>2, <2>1, <2>2
  <1>10. ASSUME NEW t \in TurnIds' PROVE Honest(turns'[t])
    BY <1>1, <1>2, <1>3
  <1> QED BY <1>6, <1>7, <1>8, <1>9, <1>10 DEF BufferInv

\* An entry is made whose turn is still to come.
LEMMA Makes ==
    ASSUME BufferInv, NEW y, EntryShape(y), ~ y.processing, y.turn = 0, y.repl <= y.superseded,
           y.drain.pc = "off", entries' = Append(entries, y), slot' = Len(entries) + 1,
           UNCHANGED <<turns, joins>>
    PROVE  BufferInv'
  <1> DEFINE n == Len(entries) + 1
  <1>l. IsSequence(entries) /\ Len(entries) \in Nat /\ TurnIds' = TurnIds
    BY EntriesAre DEF TurnIds
  <1>1. /\ IsSequence(entries') /\ Len(entries') = n /\ entries'[n] = y
        /\ \A e \in EntryIds : entries'[e] = entries[e]
    BY <1>l, Appended DEF EntryIds
  <1>2. /\ \A e \in EntryIds' : e \in EntryIds \/ e = n
        /\ EntryIds \subseteq EntryIds'
    BY <1>l, <1>1 DEF EntryIds
  <1>3. ASSUME NEW t \in TurnIds, turns[t].entry # 0
        PROVE  turns[t].entry \in EntryIds /\ entries'[turns[t].entry] = entries[turns[t].entry]
    <2>1. turns[t].entry \in Nat /\ turns[t].entry <= Len(entries)
      BY TurnsAre DEF TurnShape
    <2> QED BY <1>l, <1>1, <1>3, <2>1 DEF EntryIds
  <1>4. Shapes'
    <2>1. ASSUME NEW e \in EntryIds' PROVE EntryShape(entries'[e])
      BY <1>1, <1>2, EntriesAre
    <2>2. ASSUME NEW t \in TurnIds PROVE TurnShape(turns[t]) /\ turns[t].entry <= Len(entries')
      <3>1. TurnShape(turns[t]) /\ turns[t].entry <= Len(entries)
        BY TurnsAre
      <3>2. turns[t].entry \in Nat
        BY <3>1 DEF TurnShape
      <3> QED BY <1>l, <1>1, <3>1, <3>2
    <2>3. IsSequence(turns) /\ slot' \in 0 .. Len(entries')
      BY <1>l, <1>1, TurnsAre
    <2> QED BY <1>l, <1>1, <2>1, <2>2, <2>3 DEF Shapes, IsSequence
  <1>5. Owned'
    <2>1. ASSUME NEW t \in TurnIds, turns[t].entry # 0, turns[t].owner # "done"
          PROVE  entries'[turns[t].entry].processing /\ entries'[turns[t].entry].turn = t
      BY <1>3, <2>1 DEF BufferInv, Owned
    <2>2. ASSUME NEW e \in EntryIds', entries'[e].timer = "gate" PROVE ~ entries'[e].processing
      <3>1. CASE e \in EntryIds
        BY <1>1, <2>2, <3>1 DEF BufferInv, Owned
      <3>2. CASE e = n
        BY <1>1, <3>2
      <3> QED BY <1>2, <3>1, <3>2
    <2> QED BY <1>l, <2>1, <2>2 DEF Owned
  <1>6. Lineage'
    <2>1. ASSUME NEW e \in EntryIds'
          PROVE  /\ entries'[e].repl <= entries'[e].superseded
                 /\ \/ entries'[e].turn = 0 /\ ~ entries'[e].processing
                    \/ IsTurnOf(entries'[e].turn, e, entries'[e].current)
                 /\ entries'[e].drain.pc \in {"judge", "lock"}
                        => IsTurnOf(entries'[e].drain.turn, e, entries'[e].drain.gen)
      BY <1>1, <1>2 DEF BufferInv, Lineage
    <2>2. ASSUME NEW t \in TurnIds, turns[t].entry # 0
          PROVE  turns[t].gen <= entries'[turns[t].entry].current
      BY <1>3, <2>2 DEF BufferInv, Lineage
    <2>3. ASSUME NEW j \in joins
          PROVE  j.turn \in TurnIds /\ j.entry \in EntryIds' /\ turns[j.turn].entry = j.entry
      BY <1>2, <2>3 DEF BufferInv, Lineage
    <2>4. ASSUME NEW t \in TurnIds, NEW u \in TurnIds, t # u, turns[t].entry = turns[u].entry, turns[t].entry # 0
          PROVE  turns[t].gen # turns[u].gen
      BY <2>4 DEF BufferInv, Lineage
    <2>5. ASSUME NEW e \in EntryIds'
          PROVE  /\ \/ entries'[e].turn = 0 /\ ~ entries'[e].processing
                    \/ IsTurnOf(entries[e].turn, e, entries[e].current)'
                 /\ entries'[e].drain.pc \in {"judge", "lock"}
                        => IsTurnOf(entries[e].drain.turn, e, entries[e].drain.gen)'
      BY <1>l, <2>1 DEF IsTurnOf
    <2> QED BY <1>l, <2>1, <2>2, <2>3, <2>4, <2>5 DEF Lineage
  <1>7. ReplacedIsSilent'
    BY <1>l, <1>3 DEF BufferInv, ReplacedIsSilent
  <1>8. \A t \in TurnIds' : Honest(turns'[t])
    BY <1>l, TurnsAre
  <1> QED BY <1>4, <1>5, <1>6, <1>7, <1>8 DEF BufferInv
-----------------------------------------------------------------------------
(* Ingress and the start of a timer's turn                                  *)

\* Entries and turns rest.
LEMMA Rested ==
    ASSUME BufferInv, UNCHANGED <<entries, slot, turns>>,
           \A j \in joins' : \/ j \in joins
                             \/ /\ j.entry \in EntryIds /\ entries[j.entry].processing
                                /\ j.turn = entries[j.entry].turn
    PROVE  OldStep
  <1>1. ASSUME NEW e \in EntryIds PROVE EntryMoves(e)
    BY EntryStays
  <1>2. ASSUME NEW t \in TurnIds PROVE TurnMove(turns[t], turns'[t])
    BY TurnStays
  <1> QED BY <1>1, <1>2, EntriesAre, TurnsAre DEF OldStep

\* A supplement supersedes the running turn.
LEMMA JoinMoves ==
    ASSUME BufferInv, NEW e \in EntryIds, NEW m, NEW T, Quieted(T),
           \/ entries[e].repl = entries[e].current
           \/ entries[e].superseded < entries[e].current /\ Untouched(e),
           Join(e, m, T), joins' \subseteq joins
    PROVE  OldStep
  <1> DEFINE x == entries[e]
             y == Superseding(x, x.current, <<m>>)
  <1>1. /\ Base(x, y) /\ y.processing = x.processing
        /\ x.superseded < x.current => Raised(x, y)
        /\ x.repl = x.current => Same(x, y)
    BY KnownEntry, Supersedes
  <1>2. entries' = Changed(entries, e, y) /\ turns' = CancelActive(T, x) /\ slot' = slot
    BY KnownEntry DEF Join, Changed
  <1> HIDE DEF y
  <1>3. Quieted(turns')
    BY <1>2, CancelIsQuiet
  <1>4. slot' \in 0 .. Len(entries)
    BY <1>2, EntriesAre
  <1> QED BY <1>1, <1>2, <1>3, <1>4, EntryAlone

\* A message waits for the next batch.
LEMMA WaitMoves ==
    ASSUME BufferInv, NEW e \in EntryIds, NEW m, Wait(e, m), joins' \subseteq joins
    PROVE  OldStep
  <1> DEFINE line == Append(entries[e].pending, m)
             new == [entries[e] EXCEPT !.pending = line]
  <1>1. entries' = Changed(entries, e, new) /\ UNCHANGED <<slot, turns>>
    BY KnownEntry DEF Wait, Changed
  <1> HIDE DEF line
  <1>2. Busy(entries[e], new)
    BY KnownEntry DEF EntryShape, Busy, Tame, Base, Same, NewEntry
  <1> HIDE DEF new
  <1> QED BY <1>1, <1>2, TurnsStay, EntryMoved

\* A handler gets the commit lock it waited for.
LEMMA JoinResumesMoves == ASSUME BufferInv, JoinResumes PROVE OldStep
  <1>1. PICK j \in joins :
            /\ joins' = joins \ {j}
            /\ IF Safe(turns[j.turn], entries[j.entry])
               THEN Join(j.entry, j.msg, [turns EXCEPT ![j.turn].fenced = TRUE])
               ELSE Wait(j.entry, j.msg)
    BY DEF JoinResumes
  <1>2. j.turn \in TurnIds /\ j.entry \in EntryIds /\ turns[j.turn].entry = j.entry
    BY DEF BufferInv, Lineage
  <1>3. CASE Safe(turns[j.turn], entries[j.entry])
    <2>1. entries[j.entry].superseded < entries[j.entry].current /\ Untouched(j.entry)
      BY <1>2, <1>3, SafeIsCurrent
    <2>2. Quieted(Fenced(j.turn))
      BY <1>2, FencedIsQuiet
    <2>3. Join(j.entry, j.msg, Fenced(j.turn))
      BY <1>1, <1>3 DEF Fenced
    <2> QED BY <1>1, <1>2, <2>1, <2>2, <2>3, JoinMoves
  <1>4. CASE ~ Safe(turns[j.turn], entries[j.entry])
    BY <1>1, <1>2, <1>4, WaitMoves
  <1> QED BY <1>3, <1>4

\* A private event comes while a turn of its entry is processing.
LEMMA InTurnMoves ==
    ASSUME BufferInv, NEW e \in EntryIds, NEW m, entries[e].processing, ArriveInTurn(e, m)
    PROVE  OldStep
  <1> DEFINE t == entries[e].turn
             can == CanReplace(entries[e], entries[e].current, Safe(turns[t], entries[e]))
  <1>1. t \in TurnIds /\ turns[t].entry = e
    BY KnownEntry DEF IsTurnOf
  <1>2. ASSUME can PROVE entries[e].superseded < entries[e].current /\ Untouched(e)
    <2>1. Safe(turns[t], entries[e])
      BY <1>2 DEF CanReplace
    <2> QED BY <1>1, <2>1, SafeIsCurrent
  <1>3. CASE ReplacementPending(entries[e], entries[e].current) /\ Join(e, m, turns) /\ UNCHANGED joins
    <2>1. entries[e].repl = entries[e].current
      BY <1>3 DEF ReplacementPending
    <2> QED BY <1>3, <2>1, TurnsStay, JoinMoves
  <1>4. CASE can /\ Join(e, m, [turns EXCEPT ![t].fenced = TRUE]) /\ UNCHANGED joins
    <2>1. Quieted(Fenced(t)) /\ Join(e, m, Fenced(t))
      BY <1>1, <1>4, FencedIsQuiet DEF Fenced
    <2> QED BY <1>2, <1>4, <2>1, JoinMoves
  <1>5. CASE /\ joins' = joins \cup {[msg |-> m, entry |-> e, turn |-> t]}
             /\ UNCHANGED <<entries, slot, turns>>
    BY <1>5, Rested
  <1>6. CASE Wait(e, m) /\ UNCHANGED joins
    BY <1>6, WaitMoves
  <1> QED BY <1>3, <1>4, <1>5, <1>6 DEF ArriveInTurn

\* A private event comes.
LEMMA PrivateKeeps == ASSUME BufferInv, NEW m, ArrivePrivate(m) PROVE BufferInv'
  <1>0. slot # 0 => slot \in EntryIds
    BY EntriesAre DEF EntryIds
  <1>1. CASE slot # 0 /\ entries[slot].processing /\ ArriveInTurn(slot, m)
    BY <1>0, <1>1, InTurnMoves, OldStepKeeps
  <1>2. CASE /\ slot # 0
             /\ entries' = [entries EXCEPT ![slot] =
                               Armed([entries[slot] EXCEPT !.items = Append(@, m)])]
             /\ UNCHANGED <<slot, turns, joins>>
    <2> DEFINE line == Append(entries[slot].items, m)
               put == [entries[slot] EXCEPT !.items = line]
               new == Armed(put)
    <2>0. slot \in EntryIds /\ EntryShape(entries[slot]) /\ DOMAIN entries = EntryIds
      BY <1>0, <1>2, KnownEntry
    <2>1. entries' = Changed(entries, slot, new)
      BY <1>2, <2>0 DEF Changed
    <2> HIDE DEF line
    <2>2. Busy(entries[slot], put)
      BY <1>0, <1>2, KnownEntry DEF EntryShape, Busy, Tame, Base, Same, NewEntry
    <2> HIDE DEF put
    <2>3. Busy(put, new)
      BY <2>2, Rewritten DEF Busy, Tame, Base
    <2> HIDE DEF new
    <2>4. Busy(entries[slot], new)
      BY <2>2, <2>3, TameTwice
    <2> QED BY <1>0, <1>2, <2>1, <2>4, TurnsStay, EntryMoved, OldStepKeeps
  <1>3. CASE /\ turns' = Append(turns, Direct(0, m))
             /\ UNCHANGED <<entries, slot, joins>>
    <2> DEFINE turn == Direct(0, m)
    <2>1. TurnShape(turn) /\ Honest(turn) /\ turn.stage = "none" /\ turn.entry = 0
      BY DEF Direct, NewTurn, TurnShape, Honest
    <2> HIDE DEF turn
    <2>2. turns' = Append(turns, turn)
      BY <1>3 DEF turn
    <2>3. Len(entries) <= Len(entries') /\ slot' \in 0 .. Len(entries') /\ IsSequence(entries')
      BY <1>3, EntriesAre
    <2>4. EntryIds' = EntryIds /\ 0 \notin EntryIds
      BY <1>3 DEF EntryIds
    <2> QED BY <1>3, <2>1, <2>2, <2>3, <2>4, Begins
  <1>4. CASE LET e == Len(entries) + 1
             IN  /\ entries' = Append(entries,
                       [NewEntry EXCEPT !.processing = TRUE, !.active = <<m>>,
                                        !.current = 1, !.token = 1,
                                        !.turn = Len(turns) + 1, !.window = "open"])
                 /\ slot' = e
                 /\ turns' = Append(turns, Direct(e, m))
                 /\ UNCHANGED joins
    <2> DEFINE e == Len(entries) + 1
               n == Len(turns) + 1
               turn == Direct(e, m)
               y == [NewEntry EXCEPT !.processing = TRUE, !.active = <<m>>, !.current = 1,
                                     !.token = 1, !.turn = n, !.window = "open"]
    <2>0. /\ IsSequence(entries) /\ Len(entries) \in Nat /\ Len(turns) \in Nat
          /\ EntryIds = 1 .. Len(entries)
      BY EntriesAre, TurnsAre DEF EntryIds
    <2>1. /\ entries' = Append(entries, y) /\ slot' = e /\ turns' = Append(turns, turn)
          /\ joins' = joins /\ e \in Nat /\ e # 0 /\ n \in Nat /\ n # 0
      BY <1>4, <2>0
    <2>2. /\ TurnShape(turn) /\ Honest(turn) /\ turn.stage = "none"
          /\ turn.entry = e /\ turn.gen = 1
      BY <2>1 DEF Direct, NewTurn, TurnShape, Honest
    <2> HIDE DEF turn, n
    <2>3. Opened(y, n, 1) /\ y.drain.pc = "off"
      BY <2>1 DEF Opened, EntryShape, NewEntry, NoDrain
    <2> HIDE DEF y
    <2>4. /\ IsSequence(entries') /\ Len(entries') = Len(entries) + 1 /\ entries'[e] = y
          /\ \A i \in 1 .. Len(entries) : entries'[i] = entries[i]
      BY <2>0, <2>1, Appended
    <2> HIDE DEF e
    <2>5. /\ EntryIds' = 1 .. Len(entries') /\ e \in EntryIds' /\ e \notin EntryIds
          /\ \A i \in EntryIds' : i \in EntryIds \/ i = e
          /\ slot' \in 0 .. Len(entries') /\ Len(entries) <= Len(entries')
      BY <2>0, <2>1, <2>4 DEF EntryIds, e
    <2> QED BY <2>0, <2>1, <2>2, <2>3, <2>4, <2>5, Begins DEF n
  <1> QED BY <1>1, <1>2, <1>3, <1>4 DEF ArrivePrivate

\* A group event comes.
LEMMA GroupKeeps ==
    ASSUME BufferInv, NEW m, NEW cue, ArriveGroup(m, cue), UNCHANGED joins PROVE BufferInv'
  <1>1. CASE slot = 0
    <2> DEFINE line == Append(NewEntry.items, m)
               put == [NewEntry EXCEPT !.items = line]
               y == Armed(put)
    <2>1. entries' = Append(entries, y) /\ slot' = Len(entries) + 1 /\ turns' = turns
      <3>1. ~ NewEntry.processing
        BY DEF NewEntry
      <3> QED BY <1>1, <3>1 DEF ArriveGroup
    <2> HIDE DEF line
    <2>2. /\ EntryShape(put) /\ ~ put.processing /\ put.turn = 0 /\ put.repl <= put.superseded
          /\ put.drain.pc = "off"
      BY DEF EntryShape, NewEntry, NoDrain
    <2> HIDE DEF put
    <2>3. /\ EntryShape(y) /\ ~ y.processing /\ y.turn = 0 /\ y.repl <= y.superseded
          /\ y.drain.pc = "off"
      BY <2>2 DEF Armed, EntryShape, NewEntry
    <2> HIDE DEF y
    <2> QED BY <2>1, <2>3, Makes
  <1>2. CASE slot # 0
    <2> DEFINE x == entries[slot]
    <2>0. slot \in EntryIds /\ EntryShape(x) /\ Busy(x, x)
      <3>1. slot \in EntryIds
        BY <1>2, EntriesAre DEF EntryIds
      <3> QED BY <3>1, KnownEntry, Rests
    <2>s. slot' = slot
      BY <1>2 DEF ArriveGroup
    <2>1. CASE /\ UNCHANGED turns
               /\ entries' = [entries EXCEPT ![slot] = Armed([x EXCEPT !.items = Append(x.items, m)])]
      <3> DEFINE line == Append(x.items, m)
                 put == [x EXCEPT !.items = line]
      <3>1. entries' = Changed(entries, slot, Armed(put))
        BY <2>1 DEF Changed
      <3> HIDE DEF line
      <3>2. Busy(x, put)
        BY <2>0 DEF EntryShape, Busy, Tame, Base, Same, NewEntry
      <3> HIDE DEF put
      <3>3. Busy(put, Armed(put))
        BY <3>2, Rewritten DEF Busy, Tame, Base
      <3>4. Busy(x, Armed(put))
        BY <3>2, <3>3, TameTwice
      <3> QED BY <2>0, <2>1, <2>s, <3>1, <3>4, TurnsStay, EntryMoved, OldStepKeeps
    <2>2. CASE /\ x.processing /\ Preemptable(x)
               /\ entries' = [entries EXCEPT ![slot] = Preempted(x, m)]
               /\ turns' = CancelActive(turns, x)
      <3> DEFINE y == Preempted(x, m)
      <3>1. x.turn \in TurnIds /\ turns[x.turn].entry = slot /\ x.repl <= x.superseded
        BY <2>0, <2>2, KnownEntry DEF IsTurnOf
      <3>2. x.superseded < x.current /\ Untouched(slot)
        <4>1. Safe(turns[x.turn], x)
          BY <2>2 DEF Preemptable
        <4> QED BY <2>0, <3>1, <4>1, SafeIsCurrent
      <3>3. Base(x, y) /\ y.processing = x.processing /\ Raised(x, y)
        BY <2>0, <3>1, <3>2, Preempts
      <3>4. entries' = Changed(entries, slot, y) /\ Quieted(turns')
        <4>1. Quieted(CancelActive(turns, x))
          BY <2>0, TurnsStay, CancelIsQuiet
        <4> QED BY <2>2, <4>1 DEF Changed
      <3> HIDE DEF y
      <3>5. slot' \in 0 .. Len(entries)
        BY <2>s, EntriesAre
      <3> QED BY <2>0, <3>2, <3>3, <3>4, <3>5, EntryAlone, OldStepKeeps
    <2>3. CASE /\ x.processing /\ UNCHANGED turns
               /\ entries' = [entries EXCEPT ![slot] =
                     IF Eligible(x, turns)
                     THEN [[x EXCEPT !.pending = Append(x.pending, m)] EXCEPT
                            !.candidates = Append(@, m),
                            !.drain = IF @.pc = "off" THEN NewDrain(x.current) ELSE @]
                     ELSE Armed([x EXCEPT !.pending = Append(x.pending, m)])]
      <3> DEFINE line == Append(x.pending, m)
                 queued == [x EXCEPT !.pending = line]
                 more == Append(queued.candidates, m)
                 drain == IF queued.drain.pc = "off" THEN NewDrain(x.current) ELSE queued.drain
                 heard == [queued EXCEPT !.candidates = more, !.drain = drain]
                 new == IF Eligible(x, turns) THEN heard ELSE Armed(queued)
      <3>0. x.turn # 0
        BY <2>0, <2>3, KnownEntry
      <3>1. entries' = Changed(entries, slot, new)
        BY <2>3 DEF Changed
      <3> HIDE DEF line
      <3>2. Busy(x, queued) /\ queued.drain = x.drain /\ EntryShape(queued) /\ queued.turn = x.turn
        BY <2>0 DEF EntryShape, Busy, Tame, Base, Same, NewEntry
      <3> HIDE DEF queued
      <3>3. /\ drain.pc # "off" => DOMAIN drain = DOMAIN NewDrain(0)
            /\ drain = queued.drain \/ drain.pc = "sleep"
        BY <3>2 DEF EntryShape, NewDrain
      <3> HIDE DEF more, drain
      <3>4. Busy(queued, heard)
        BY <3>0, <3>2, <3>3 DEF EntryShape, Busy, Tame, Base, Same, NewEntry
      <3>5. Busy(queued, Armed(queued))
        BY <3>2, Rewritten
      <3> HIDE DEF heard
      <3>6. Busy(x, heard) /\ Busy(x, Armed(queued))
        BY <3>2, <3>4, <3>5, TameTwice
      <3>7. Busy(x, new)
        BY <3>6
      <3> HIDE DEF new
      <3> QED BY <2>0, <2>3, <2>s, <3>1, <3>7, TurnsStay, EntryMoved, OldStepKeeps
    <2> QED BY <1>2, <2>1, <2>2, <2>3 DEF ArriveGroup
  <1> QED BY <1>1, <1>2

\* An event comes.
LEMMA ArriveKeeps == ASSUME BufferInv, Arrive PROVE BufferInv'
  <1>1. ASSUME NEW m, Refused(m) PROVE BufferInv'
    BY <1>1, Rested, OldStepKeeps DEF Refused
  <1>2. ASSUME NEW m, Poke(m) PROVE BufferInv'
    <2> DEFINE turn == NewTurn("poke", 0, 1, <<m>>, FALSE)
    <2>1. TurnShape(turn) /\ Honest(turn) /\ turn.stage = "none" /\ turn.entry = 0
      BY DEF NewTurn, TurnShape, Honest
    <2>2. turns' = Append(turns, turn) /\ UNCHANGED <<entries, slot, joins>>
      BY <1>2 DEF Poke
    <2> HIDE DEF turn
    <2>3. Len(entries) <= Len(entries') /\ slot' \in 0 .. Len(entries') /\ IsSequence(entries')
      BY <2>2, EntriesAre
    <2>4. EntryIds' = EntryIds /\ 0 \notin EntryIds
      BY <2>2 DEF EntryIds
    <2> QED BY <2>1, <2>2, <2>3, <2>4, Begins
  <1>3. ASSUME NEW m, ArriveGroup(m, TRUE) \/ ArriveGroup(m, FALSE) PROVE BufferInv'
    <2>1. UNCHANGED joins
      BY <1>3 DEF ArriveGroup
    <2> QED BY <1>3, <2>1, GroupKeeps
  <1> QED BY <1>1, <1>2, <1>3, PrivateKeeps DEF Arrive

\* What run_buffer_timer writes when a turn begins.
Opening(s, n, g, kept, none, window) ==
    [s EXCEPT !.processing = TRUE, !.active = kept, !.items = none, !.original = none,
              !.current = g, !.token = g, !.turn = n, !.repl = 0, !.window = window]

\* An entry on which a turn begins.
LEMMA Opens ==
    ASSUME NEW s, EntryShape(s), s.timer = "off", NEW g \in Nat, NEW n \in Nat, n # 0,
           NEW kept, NEW none, NEW window
    PROVE  LET y == Opening(s, n, g, kept, none, window)
           IN  Opened(y, n, g) /\ y.superseded = s.superseded /\ y.drain = s.drain
  <1> DEFINE z == [s EXCEPT !.processing = TRUE, !.current = g, !.turn = n, !.repl = 0]
             y == [z EXCEPT !.active = kept, !.items = none, !.original = none, !.token = g,
                            !.window = window]
  <1>1. Opened(z, n, g) /\ z.superseded = s.superseded /\ z.drain = s.drain
    BY DEF Opened, EntryShape, NewEntry
  <1>2. Opening(s, n, g, kept, none, window) = y
    BY DEF Opening, EntryShape, NewEntry
  <1> HIDE DEF z
  <1>3. Opened(y, n, g) /\ y.superseded = z.superseded /\ y.drain = z.drain
    BY <1>1 DEF Opened, EntryShape, NewEntry
  <1> HIDE DEF y
  <1> QED BY <1>1, <1>2, <1>3

\* The gate of a timer lets a turn begin, or lets nothing pass.
LEMMA TimerStartsKeeps ==
    ASSUME BufferInv, NEW e \in EntryIds, NEW refused, TimerStarts(e, refused) PROVE BufferInv'
  <1> DEFINE x == entries[e]
             cut == Least(MaxBatch, Len(x.items))
             kept == Without(SubSeq(x.items, 1, cut), refused)
             tail == SubSeq(x.items, cut + 1, Len(x.items)) \o x.pending
             split == [x EXCEPT !.pending = tail, !.timer = "off"]
             g == x.current + 1
             n == Len(turns) + 1
             window == IF supplements /\ split.window = "none" THEN "open" ELSE split.window
             y == [split EXCEPT !.processing = TRUE, !.active = kept, !.items = <<>>,
                                !.original = <<>>, !.current = g, !.token = g,
                                !.turn = n, !.repl = 0, !.window = window]
             random == lane = "group" /\ Elems(kept) \cap cues = {}
             turn == NewTurn("timer", e, g, kept, random)
  <1>0. /\ x.timer = "gate" /\ slot = e /\ joins' = joins
        /\ \/ /\ entries' = [entries EXCEPT ![e] = IF tail # <<>> THEN Armed(Promoted(split)) ELSE split]
              /\ slot' = IF tail # <<>> THEN slot ELSE 0
              /\ UNCHANGED turns
           \/ /\ entries' = [entries EXCEPT ![e] = y]
              /\ turns' = Append(turns, turn)
              /\ UNCHANGED slot
    BY DEF TimerStarts
  <1>1. EntryShape(x) /\ ~ x.processing /\ x.repl <= x.superseded
    BY <1>0, KnownEntry DEF BufferInv, Owned
  <1> HIDE DEF tail
  <1>2. Busy(x, split) /\ EntryShape(split) /\ split.drain = x.drain
    BY <1>1 DEF EntryShape, Busy, Tame, Base, Same, NewEntry
  <1>3. CASE /\ entries' = [entries EXCEPT ![e] = IF tail # <<>> THEN Armed(Promoted(split)) ELSE split]
             /\ slot' = IF tail # <<>> THEN slot ELSE 0
             /\ UNCHANGED turns
    <2> DEFINE new == IF tail # <<>> THEN Armed(Promoted(split)) ELSE split
    <2>1. entries' = Changed(entries, e, new) /\ (slot' = slot \/ slot' = 0)
      BY <1>3 DEF Changed
    <2> HIDE DEF split
    <2>2. Busy(split, Promoted(split))
      BY <1>2, Rewritten
    <2>3. Busy(Promoted(split), Armed(Promoted(split)))
      BY <2>2, Rewritten DEF Busy, Tame, Base
    <2>4. Busy(x, new)
      BY <1>2, <2>2, <2>3, TameTwice
    <2> HIDE DEF new
    <2> QED BY <1>0, <1>3, <2>1, <2>4, TurnsStay, EntryMoved, OldStepKeeps
  <1>4. CASE entries' = [entries EXCEPT ![e] = y] /\ turns' = Append(turns, turn) /\ UNCHANGED slot
    <2>0. /\ IsSequence(entries) /\ EntryIds = 1 .. Len(entries) /\ e \in 1 .. Len(entries)
          /\ e \in Nat /\ e # 0 /\ g \in Nat /\ x.current < g /\ n \in Nat /\ n # 0
          /\ slot \in 0 .. Len(entries)
      <3>1. x.current \in Nat /\ Len(turns) \in Nat /\ Len(entries) \in Nat
        BY <1>1, TurnsAre, EntriesAre DEF EntryShape
      <3> QED BY <3>1, EntriesAre DEF EntryIds
    <2>1. entries' = Changed(entries, e, y)
      BY <1>4 DEF Changed
    <2> HIDE DEF g, n, kept, window, random
    <2>2. /\ TurnShape(turn) /\ Honest(turn) /\ turn.stage = "none" /\ turn.entry = e /\ turn.gen = g
      BY <2>0 DEF NewTurn, TurnShape, Honest
    <2> HIDE DEF turn, split
    <2>3. Opened(y, n, g) /\ Continues(x, y)
      <3>1. split.superseded = x.superseded /\ split.timer = "off"
        BY <1>1 DEF split, EntryShape, NewEntry
      <3>2. y = Opening(split, n, g, kept, <<>>, window)
        BY DEF Opening
      <3> HIDE DEF y
      <3>3. Opened(y, n, g) /\ y.superseded = split.superseded /\ y.drain = split.drain
        BY <1>2, <2>0, <3>1, <3>2, Opens
      <3> QED BY <1>1, <1>2, <2>0, <3>1, <3>3 DEF Opened, Continues
    <2> HIDE DEF y
    <2>4. /\ IsSequence(Changed(entries, e, y)) /\ Len(Changed(entries, e, y)) = Len(entries)
          /\ Changed(entries, e, y)[e] = y
          /\ \A f \in 1 .. Len(entries) : f # e => Changed(entries, e, y)[f] = entries[f]
      BY <2>0, Replacing
    <2>5. /\ IsSequence(entries') /\ Len(entries') = Len(entries) /\ entries'[e] = y
          /\ \A f \in EntryIds : f # e => entries'[f] = entries[f]
          /\ EntryIds' = EntryIds /\ slot' \in 0 .. Len(entries') /\ Len(entries) <= Len(entries')
      <3>1. Len(entries) \in Nat
        BY EntriesAre
      <3>2. IsSequence(entries') /\ Len(entries') = Len(entries) /\ entries'[e] = y
        BY <2>1, <2>4
      <3>3. ASSUME NEW f \in EntryIds, f # e PROVE entries'[f] = entries[f]
        BY <2>0, <2>1, <2>4, <3>3
      <3>4. slot' \in 0 .. Len(entries')
        BY <1>4, <2>0, <3>2
      <3> QED BY <3>1, <3>2, <3>3, <3>4 DEF EntryIds
    <2> QED BY <1>0, <1>4, <2>0, <2>2, <2>3, <2>5, Begins DEF n
  <1> QED BY <1>0, <1>3, <1>4
-----------------------------------------------------------------------------
(* The theorems                                                             *)

\* The invariant holds at first, and every step keeps it.
LEMMA InitBuffer == Init => BufferInv
  <1> SUFFICES ASSUME Init PROVE BufferInv
    OBVIOUS
  <1>1. /\ entries = <<>> /\ turns = <<>> /\ slot = 0 /\ joins = {} /\ IsSequence(<<>>)
        /\ TurnIds = {} /\ EntryIds = {} /\ Len(entries) = 0
    BY DEF Init, IsSequence, TurnIds, EntryIds
  <1> QED BY <1>1 DEF BufferInv, Shapes, Owned, Lineage, ReplacedIsSilent

LEMMA NextBuffer == BufferInv /\ [Next]_vars => BufferInv'
  <1> SUFFICES ASSUME BufferInv, [Next]_vars PROVE BufferInv'
    OBVIOUS
  <1>1. CASE Arrive
    BY <1>1, ArriveKeeps
  <1>2. CASE JoinResumes
    BY <1>2, JoinResumesMoves, OldStepKeeps
  <1>3. ASSUME NEW t \in TurnIds, TurnStep(t) PROVE BufferInv'
    BY <1>3, GenerationMoves, OwnerMoves, OldStepKeeps DEF TurnStep
  <1>4. ASSUME NEW e \in EntryIds, EntryStep(e) PROVE BufferInv'
    <2>1. CASE TimerFires(e) \/ WindowCloses(e)
      BY <2>1, ClockMoves, OldStepKeeps
    <2>2. CASE \/ DrainSubmits(e) \/ DrainLocks(e)
               \/ \E related \in SUBSET Msgs : DrainJudged(e, related)
      BY <2>2, DrainMoves, OldStepKeeps
    <2>3. ASSUME NEW refused, TimerStarts(e, refused) PROVE BufferInv'
      BY <2>3, TimerStartsKeeps
    <2> QED BY <1>4, <2>1, <2>2, <2>3 DEF EntryStep
  <1>5. CASE UNCHANGED vars
    <2>1. UNCHANGED <<entries, slot, turns, joins>>
      BY <1>5 DEF vars
    <2> QED BY <2>1, Rested, OldStepKeeps
  <1> QED BY <1>1, <1>2, <1>3, <1>4, <1>5 DEF Next

\* The invariant holds in every reachable state.
LEMMA BufferAlways == Spec => []BufferInv
  BY InitBuffer, NextBuffer, PTL DEF Spec

\* An entry of msg_buffer is worked by one turn at a time, whatever its timer, its
\* cancelled owner and its supplements do (run_buffer_timer, finalize_generation).
THEOREM OneOwnerAlways == Spec => []OneOwner
  <1>1. BufferInv => OneOwner
    BY DEF BufferInv, Owned, OneOwner
  <1> QED BY <1>1, BufferAlways, PTL

\* A turn that is to be replaced has not sent, and never will: the check and the fence
\* of invalidate_generation leave its generation no gap.
THEOREM ReplacedIsSilentAlways == Spec => []ReplacedIsSilent
  <1>1. BufferInv => ReplacedIsSilent
    BY DEF BufferInv
  <1> QED BY <1>1, BufferAlways, PTL

\* A turn on file with the recovery queue as not sent was not sent, and its generation,
\* left behind by a deadline or not, never sends.
THEOREM RecoverableWasNotSentAlways == Spec => []RecoverableWasNotSent
  <1>1. BufferInv => RecoverableWasNotSent
    BY DEF BufferInv, Honest, RecoverableWasNotSent
  <1> QED BY <1>1, BufferAlways, PTL

-----------------------------------------------------------------------------
(* Sequences of messages                                                    *)

\* The order of the naturals as a set of pairs.
Before == {ss \in Nat \X Nat : ss[1] < ss[2]}

\* A set of naturals has a least element: what induction is done with below.
LEMMA LeastNumber ==
    ASSUME NEW T, T \subseteq Nat, T # {}
    PROVE  \E n \in T : \A m \in T : n <= m
  <1>1. IsWellFoundedOn(Before, Nat)
    BY NatLessThanWellFounded DEF OpToRel, Before
  <1>2. \E x \in T : \A y \in T : ~ (<<y, x>> \in Before)
    BY <1>1, WFMin, Zenon
  <1>3. PICK x \in T : \A y \in T : ~ (<<y, x>> \in Before)
    BY <1>2
  <1>4. ASSUME NEW y \in T PROVE x <= y
    <2>1. <<y, x>> \notin Before
      BY <1>3
    <2>2. x \in Nat /\ y \in Nat
      OBVIOUS
    <2>3. ~ (y < x)
      BY <2>1, <2>2 DEF Before
    <2> QED BY <2>2, <2>3
  <1> QED BY <1>4

\* f gives what is kept of each prefix of s, up to n.
IsKept(s, drop, n, f) ==
    f = [i \in 0 .. n |-> IF i = 0 THEN <<>>
                          ELSE IF s[i] \in drop THEN f[i - 1] ELSE Append(f[i - 1], s[i])]

LEMMA WithoutIs ==
    ASSUME NEW s, NEW drop
    PROVE  Without(s, drop) = (CHOOSE f : IsKept(s, drop, Len(s), f))[Len(s)]
  BY DEF Without, IsKept

\* There is such a function.
LEMMA KeptExists ==
    ASSUME NEW s, NEW drop, NEW n \in Nat
    PROVE  \E f : IsKept(s, drop, n, f)
  <1> DEFINE B == {k \in Nat : ~ \E f : IsKept(s, drop, k, f)}
  <1> SUFFICES ASSUME B # {} PROVE FALSE
    OBVIOUS
  <1>1. PICK k \in B : \A j \in B : k <= j
    <2>1. B \subseteq Nat
      OBVIOUS
    <2> HIDE DEF B
    <2> QED BY <2>1, LeastNumber
  <1>2. k \in Nat /\ ~ \E f : IsKept(s, drop, k, f)
    OBVIOUS
  <1>3. CASE k = 0
    <2> DEFINE f == [i \in 0 .. 0 |-> <<>>]
    <2>1. IsKept(s, drop, 0, f)
      BY DEF IsKept
    <2> HIDE DEF f
    <2> QED BY <1>2, <1>3, <2>1
  <1>4. CASE k # 0
    <2>1. k - 1 \in Nat /\ k - 1 \notin B
      BY <1>1, <1>2, <1>4
    <2>2. PICK f : IsKept(s, drop, k - 1, f)
      BY <2>1
    <2> DEFINE last == IF s[k] \in drop THEN f[k - 1] ELSE Append(f[k - 1], s[k])
               g == [i \in 0 .. k |-> IF i = k THEN last ELSE f[i]]
    <2>3. \A i \in 0 .. k - 1 : f[i] = IF i = 0 THEN <<>>
                                       ELSE IF s[i] \in drop THEN f[i - 1] ELSE Append(f[i - 1], s[i])
      <3>1. \A i \in 0 .. k - 1 :
              [j \in 0 .. k - 1 |-> IF j = 0 THEN <<>>
                     ELSE IF s[j] \in drop THEN f[j - 1] ELSE Append(f[j - 1], s[j])][i]
                = IF i = 0 THEN <<>> ELSE IF s[i] \in drop THEN f[i - 1] ELSE Append(f[i - 1], s[i])
        OBVIOUS
      <3> QED BY <2>2, <3>1 DEF IsKept
    <2>4. \A i \in 0 .. k : i = k \/ i \in 0 .. k - 1
      BY <1>2
    <2>5. ASSUME NEW i \in 0 .. k
          PROVE  g[i] = IF i = 0 THEN <<>> ELSE IF s[i] \in drop THEN g[i - 1] ELSE Append(g[i - 1], s[i])
      <3>1. CASE i = k
        <4>1. k - 1 \in 0 .. k /\ k - 1 # k /\ g[k] = last /\ g[k - 1] = f[k - 1]
          BY <1>2, <1>4
        <4> QED BY <1>4, <3>1, <4>1
      <3>2. CASE i # k /\ i # 0
        <4>1. i \in 0 .. k - 1 /\ i - 1 \in 0 .. k /\ i - 1 # k
          BY <1>2, <2>4, <3>2
        <4>2. g[i] = f[i] /\ g[i - 1] = f[i - 1]
          BY <3>2, <4>1
        <4> HIDE DEF g
        <4> QED BY <2>3, <3>2, <4>1, <4>2
      <3>3. CASE i = 0
        <4>1. g[0] = f[0] /\ 0 \in 0 .. k - 1
          BY <1>2, <1>4
        <4> HIDE DEF g
        <4> QED BY <2>3, <3>3, <4>1
      <3> QED BY <3>1, <3>2, <3>3
    <2>6. g = [i \in 0 .. k |-> g[i]]
      OBVIOUS
    <2> HIDE DEF g
    <2>7. IsKept(s, drop, k, g)
      BY <2>5, <2>6 DEF IsKept
    <2> QED BY <1>2, <2>7
  <1> QED BY <1>3, <1>4

\* Members of s precede one another as R says.
Ordered(s, R) == \A i, j \in 1 .. Len(s) : i < j => <<s[i], s[j]>> \in R

\* What is kept of s are the others of its members, in the order they had.
LEMMA Keeping ==
    ASSUME NEW X, NEW s \in Seq(X), NEW drop
    PROVE  /\ Without(s, drop) \in Seq(X)
           /\ Elems(Without(s, drop)) = Elems(s) \ drop
           /\ \A R : Ordered(s, R) => Ordered(Without(s, drop), R)
  <1>0. Len(s) \in Nat /\ DOMAIN s = 1 .. Len(s) /\ \A i \in 1 .. Len(s) : s[i] \in X
    OBVIOUS
  <1>1. PICK f : IsKept(s, drop, Len(s), f) /\ Without(s, drop) = f[Len(s)]
    BY <1>0, WithoutIs, KeptExists
  <1>2. \A i \in 0 .. Len(s) : f[i] = IF i = 0 THEN <<>>
                                      ELSE IF s[i] \in drop THEN f[i - 1] ELSE Append(f[i - 1], s[i])
    <2>1. \A i \in 0 .. Len(s) :
              [j \in 0 .. Len(s) |-> IF j = 0 THEN <<>>
                     ELSE IF s[j] \in drop THEN f[j - 1] ELSE Append(f[j - 1], s[j])][i]
                = IF i = 0 THEN <<>> ELSE IF s[i] \in drop THEN f[i - 1] ELSE Append(f[i - 1], s[i])
      OBVIOUS
    <2> QED BY <1>1, <2>1 DEF IsKept
  <1> DEFINE Good(i) == /\ f[i] \in Seq(X)
                        /\ Elems(f[i]) = {s[j] : j \in 1 .. i} \ drop
                        /\ \A R : Ordered(s, R) => Ordered(f[i], R)
             B == {i \in 0 .. Len(s) : ~ Good(i)}
  <1>3. ASSUME B # {} PROVE FALSE
    <2>1. PICK n \in B : \A m \in B : n <= m
      <3>1. B \subseteq Nat
        BY <1>0
      <3> HIDE DEF B
      <3> QED BY <1>3, <3>1, LeastNumber
    <2>2. n \in 0 .. Len(s) /\ ~ Good(n) /\ n \in Nat
      BY <1>0
    <2>3. n # 0
      <3>1. f[0] = <<>>
        BY <1>0, <1>2
      <3>2. Good(0)
        BY <3>1 DEF Elems, Ordered
      <3> HIDE DEF Good
      <3> QED BY <2>2, <3>2
    <2>4. n - 1 \in 0 .. Len(s) /\ n \in 1 .. Len(s) /\ Good(n - 1)
      <3>1. n - 1 \in 0 .. Len(s) /\ ~ (n <= n - 1) /\ n \in 1 .. Len(s)
        BY <1>0, <2>2, <2>3
      <3> HIDE DEF Good
      <3> QED BY <2>1, <3>1
    <2>5. f[n] = IF s[n] \in drop THEN f[n - 1] ELSE Append(f[n - 1], s[n])
      BY <1>2, <2>2, <2>3
    <2>6. {s[j] : j \in 1 .. n} = {s[j] : j \in 1 .. n - 1} \cup {s[n]}
      <3>1. \A j : j \in 1 .. n <=> (j \in 1 .. n - 1 \/ j = n)
        BY <2>2, <2>3
      <3> QED BY <3>1
    <2> DEFINE r == f[n - 1]
               old == {s[j] : j \in 1 .. n - 1}
    <2>7. /\ r \in Seq(X) /\ Elems(r) = old \ drop /\ \A R : Ordered(s, R) => Ordered(r, R)
          /\ ~ Good(n)
      BY <2>2, <2>4
    <2>8. CASE s[n] \in drop
      <3>1. f[n] = r /\ {s[j] : j \in 1 .. n} \ drop = old \ drop
        BY <2>5, <2>6, <2>8
      <3> HIDE DEF r, old
      <3> QED BY <2>7, <3>1
    <2>9. CASE s[n] \notin drop
      <3> DEFINE x == s[n]
                 t == Append(r, x)
      <3>1. f[n] = t /\ {s[j] : j \in 1 .. n} \ drop = (old \ drop) \cup {x}
        BY <2>5, <2>6, <2>9
      <3>2. x \in X
        BY <1>0, <2>4
      <3>3. \A y \in Elems(r) : \E j \in 1 .. n - 1 : y = s[j]
        BY <2>7
      <3> HIDE DEF r, old, x, Good
      <3>4. /\ t \in Seq(X) /\ Len(t) = Len(r) + 1 /\ t[Len(r) + 1] = x /\ Len(r) \in Nat
            /\ \A i \in 1 .. Len(r) : t[i] = r[i] /\ r[i] \in Elems(r)
        BY <2>7, <3>2 DEF Elems
      <3>5. Elems(t) = Elems(r) \cup {x}
        <4>1. DOMAIN t = 1 .. Len(r) + 1 /\ DOMAIN r = 1 .. Len(r)
          BY <2>7, <3>4
        <4> HIDE DEF t
        <4>2. \A i : i \in 1 .. Len(r) + 1 <=> (i \in 1 .. Len(r) \/ i = Len(r) + 1)
          BY <3>4
        <4> QED BY <3>4, <4>1, <4>2 DEF Elems
      <3> HIDE DEF t
      <3>6. ASSUME NEW R, Ordered(s, R) PROVE Ordered(t, R)
        <4>1. ASSUME NEW i \in 1 .. Len(t), NEW j \in 1 .. Len(t), i < j
              PROVE  <<t[i], t[j]>> \in R
          <5>1. i \in 1 .. Len(r) /\ (j \in 1 .. Len(r) \/ j = Len(r) + 1)
            BY <3>4, <4>1
          <5>2. CASE j \in 1 .. Len(r)
            <6>1. Ordered(r, R) /\ t[i] = r[i] /\ t[j] = r[j]
              BY <2>7, <3>4, <3>6, <5>1, <5>2
            <6> QED BY <4>1, <5>1, <5>2, <6>1 DEF Ordered
          <5>3. CASE j = Len(r) + 1
            <6>1. t[j] = s[n] /\ t[i] \in Elems(r)
              BY <3>4, <5>1, <5>3 DEF x
            <6>2. PICK k \in 1 .. n - 1 : t[i] = s[k]
              BY <3>3, <6>1
            <6>3. k \in 1 .. Len(s) /\ k < n
              BY <1>0, <2>2, <2>3
            <6> QED BY <2>4, <3>6, <6>1, <6>2, <6>3 DEF Ordered
          <5> QED BY <5>1, <5>2, <5>3
        <4> QED BY <4>1 DEF Ordered
      <3>7. Good(n)
        BY <2>7, <3>1, <3>4, <3>5, <3>6 DEF Good
      <3> QED BY <2>2, <3>7
    <2> QED BY <2>8, <2>9
  <1>4. Good(Len(s))
    <2>1. Len(s) \in 0 .. Len(s)
      BY <1>0
    <2> HIDE DEF Good
    <2> QED BY <1>3, <2>1
  <1>5. Elems(s) = {s[j] : j \in 1 .. Len(s)}
    BY <1>0 DEF Elems
  <1> HIDE DEF B
  <1> QED BY <1>1, <1>4, <1>5

\* No message twice; and in the order they came.
Distinct(s)   == \A i, j \in 1 .. Len(s) : i # j => s[i] # s[j]
Increasing(s) == \A i, j \in 1 .. Len(s) : i < j => s[i] < s[j]

Apart(S, T) == \A m \in S : m \notin T
Below(S, T) == \A a \in S, b \in T : a < b

LEMMA ElemsAre ==
    ASSUME NEW s \in Seq(Msgs)
    PROVE  /\ Len(s) \in Nat /\ DOMAIN s = 1 .. Len(s) /\ Elems(s) = {s[i] : i \in 1 .. Len(s)}
           /\ \A i \in 1 .. Len(s) : s[i] \in Msgs /\ s[i] \in Nat /\ s[i] \in Elems(s)
           /\ Elems(s) \subseteq Msgs /\ \A x \in Elems(s) : \E i \in 1 .. Len(s) : x = s[i]
           /\ Elems(s) = {} <=> s = <<>>
  <1>1. /\ Len(s) \in Nat /\ DOMAIN s = 1 .. Len(s) /\ \A i \in 1 .. Len(s) : s[i] \in Msgs
        /\ Msgs \subseteq Nat
    BY ConstantsAssumption DEF Msgs
  <1>2. Elems(s) = {s[i] : i \in 1 .. Len(s)}
    BY <1>1 DEF Elems
  <1>3. Len(s) = 0 <=> s = <<>>
    OBVIOUS
  <1>4. Elems(s) = {} <=> s = <<>>
    <2>1. CASE Len(s) = 0
      BY <1>2, <1>3, <2>1
    <2>2. CASE Len(s) # 0
      <3>1. 1 \in 1 .. Len(s)
        BY <1>1, <2>2
      <3> QED BY <1>2, <1>3, <2>2, <3>1
    <2> QED BY <2>1, <2>2
  <1> QED BY <1>1, <1>2, <1>4

\* The empty sequence, and one with a single message.
LEMMA Few ==
    /\ <<>> \in Seq(Msgs) /\ Elems(<<>>) = {} /\ Distinct(<<>>) /\ Increasing(<<>>)
    /\ \A m \in Msgs : /\ <<m>> \in Seq(Msgs) /\ Elems(<<m>>) = {m} /\ Distinct(<<m>>)
                       /\ Increasing(<<m>>) /\ <<m>> # <<>>
  <1>1. <<>> \in Seq(Msgs) /\ Elems(<<>>) = {} /\ Distinct(<<>>) /\ Increasing(<<>>)
    BY DEF Elems, Distinct, Increasing
  <1>2. ASSUME NEW m \in Msgs
        PROVE  /\ <<m>> \in Seq(Msgs) /\ Elems(<<m>>) = {m} /\ Distinct(<<m>>)
               /\ Increasing(<<m>>) /\ <<m>> # <<>>
    <2>1. <<m>> \in Seq(Msgs) /\ Len(<<m>>) = 1 /\ <<m>>[1] = m /\ <<m>> # <<>>
      OBVIOUS
    <2>2. 1 .. 1 = {1}
      OBVIOUS
    <2>3. DOMAIN <<m>> = {1}
      BY <2>1, <2>2
    <2>4. Elems(<<m>>) = {m}
      BY <2>1, <2>3 DEF Elems
    <2>5. Distinct(<<m>>) /\ Increasing(<<m>>)
      BY <2>1, <2>2 DEF Distinct, Increasing
    <2> QED BY <2>1, <2>4, <2>5
  <1> QED BY <1>1, <1>2

LEMMA Filtered ==
    ASSUME NEW s \in Seq(Msgs), NEW drop
    PROVE  LET r == Without(s, drop)
           IN  /\ r \in Seq(Msgs) /\ Elems(r) = Elems(s) \ drop
               /\ Distinct(s) => Distinct(r)
               /\ Increasing(s) => Increasing(r)
  <1> DEFINE r == Without(s, drop)
             D == {p \in Msgs \X Msgs : p[1] # p[2]}
             I == {p \in Msgs \X Msgs : p[1] < p[2]}
  <1>1. /\ r \in Seq(Msgs) /\ Elems(r) = Elems(s) \ drop
        /\ Ordered(s, D) => Ordered(r, D)
        /\ Ordered(s, I) => Ordered(r, I)
    BY Keeping
  <1>2. ASSUME NEW q \in Seq(Msgs)
        PROVE  (Distinct(q) <=> Ordered(q, D)) /\ (Increasing(q) <=> Ordered(q, I))
    <2>1. Len(q) \in Nat /\ \A i \in 1 .. Len(q) : q[i] \in Msgs
      BY ElemsAre
    <2>2. \A i, j \in 1 .. Len(q) : /\ (<<q[i], q[j]>> \in D <=> q[i] # q[j])
                                    /\ (<<q[i], q[j]>> \in I <=> q[i] < q[j])
      BY <2>1
    <2>3. \A i, j \in 1 .. Len(q) : i # j => i < j \/ j < i
      BY <2>1
    <2>4. \A i, j \in 1 .. Len(q) : i < j => i # j
      BY <2>1
    <2> HIDE DEF D, I
    <2> QED BY <2>2, <2>3, <2>4 DEF Distinct, Increasing, Ordered
  <1> HIDE DEF D, I, r
  <1> QED BY <1>1, <1>2 DEF r

LEMMA Joined ==
    ASSUME NEW s \in Seq(Msgs), NEW t \in Seq(Msgs)
    PROVE  /\ s \o t \in Seq(Msgs) /\ Elems(s \o t) = Elems(s) \cup Elems(t)
           /\ Distinct(s) /\ Distinct(t) /\ Apart(Elems(s), Elems(t)) => Distinct(s \o t)
           /\ Increasing(s) /\ Increasing(t) /\ Below(Elems(s), Elems(t)) => Increasing(s \o t)
  <1> DEFINE r == s \o t
             n == Len(s)
  <1>1. /\ r \in Seq(Msgs) /\ Len(r) = n + Len(t) /\ n \in Nat /\ Len(t) \in Nat
        /\ \A i \in 1 .. Len(r) : r[i] = IF i <= n THEN s[i] ELSE t[i - n]
    OBVIOUS
  <1> HIDE DEF r, n
  <1>2. \A i \in 1 .. Len(r) : \/ i \in 1 .. n /\ r[i] = s[i] /\ r[i] \in Elems(s)
                               \/ i - n \in 1 .. Len(t) /\ i > n /\ r[i] = t[i - n] /\ r[i] \in Elems(t)
    <2> SUFFICES ASSUME NEW i \in 1 .. Len(r)
                 PROVE  \/ i \in 1 .. n /\ r[i] = s[i] /\ r[i] \in Elems(s)
                        \/ i - n \in 1 .. Len(t) /\ i > n /\ r[i] = t[i - n] /\ r[i] \in Elems(t)
      OBVIOUS
    <2>1. CASE i <= n
      <3>1. i \in 1 .. n /\ r[i] = s[i]
        BY <1>1, <2>1
      <3> QED BY <3>1, ElemsAre DEF n
    <2>2. CASE i > n
      <3>1. i - n \in 1 .. Len(t) /\ r[i] = t[i - n]
        BY <1>1, <2>2
      <3> QED BY <2>2, <3>1, ElemsAre
    <2> QED BY <1>1, <2>1, <2>2
  <1>3. Elems(r) = Elems(s) \cup Elems(t)
    <2>1. ASSUME NEW x \in Elems(r) PROVE x \in Elems(s) \cup Elems(t)
      <3>1. PICK i \in 1 .. Len(r) : x = r[i]
        BY <1>1, ElemsAre
      <3> QED BY <1>2, <3>1
    <2>2. ASSUME NEW x \in Elems(s) PROVE x \in Elems(r)
      <3>1. PICK i \in 1 .. n : x = s[i]
        BY ElemsAre DEF n
      <3>2. i \in 1 .. Len(r) /\ r[i] = s[i]
        BY <1>1
      <3> QED BY <1>1, <3>1, <3>2, ElemsAre
    <2>3. ASSUME NEW x \in Elems(t) PROVE x \in Elems(r)
      <3>1. PICK i \in 1 .. Len(t) : x = t[i]
        BY ElemsAre
      <3>2. i + n \in 1 .. Len(r) /\ ~ (i + n <= n) /\ (i + n) - n = i
        BY <1>1
      <3>3. r[i + n] = t[i]
        BY <1>1, <3>2
      <3> QED BY <1>1, <3>1, <3>2, <3>3, ElemsAre
    <2> QED BY <2>1, <2>2, <2>3
  <1>4. ASSUME Distinct(s), Distinct(t), Apart(Elems(s), Elems(t)) PROVE Distinct(r)
    <2> SUFFICES ASSUME NEW i \in 1 .. Len(r), NEW j \in 1 .. Len(r), i # j PROVE r[i] # r[j]
      BY DEF Distinct
    <2>1. i - n # j - n
      BY <1>1
    <2>2. CASE i \in 1 .. n /\ r[i] = s[i] /\ r[i] \in Elems(s)
      BY <1>2, <1>4, <2>2 DEF Distinct, Apart, n
    <2>3. CASE i - n \in 1 .. Len(t) /\ r[i] = t[i - n] /\ r[i] \in Elems(t)
      BY <1>2, <1>4, <2>1, <2>3 DEF Distinct, Apart
    <2> QED BY <1>2, <2>2, <2>3
  <1>5. ASSUME Increasing(s), Increasing(t), Below(Elems(s), Elems(t)) PROVE Increasing(r)
    <2> SUFFICES ASSUME NEW i \in 1 .. Len(r), NEW j \in 1 .. Len(r), i < j PROVE r[i] < r[j]
      BY DEF Increasing
    <2>1. i - n < j - n /\ (i > n => ~ (j <= n))
      BY <1>1
    <2>2. CASE i \in 1 .. n /\ r[i] = s[i] /\ r[i] \in Elems(s)
      BY <1>2, <1>5, <2>2 DEF Increasing, Below, n
    <2>3. CASE i - n \in 1 .. Len(t) /\ i > n /\ r[i] = t[i - n] /\ r[i] \in Elems(t)
      <3>1. j - n \in 1 .. Len(t) /\ r[j] = t[j - n]
        <4>1. ~ (j \in 1 .. n)
          BY <1>1, <2>1, <2>3
        <4> QED BY <1>2, <4>1
      <3> QED BY <1>5, <2>1, <2>3, <3>1 DEF Increasing
    <2> QED BY <1>2, <2>2, <2>3
  <1> QED BY <1>1, <1>3, <1>4, <1>5 DEF r

LEMMA Extended ==
    ASSUME NEW s \in Seq(Msgs), NEW m \in Msgs
    PROVE  /\ Append(s, m) \in Seq(Msgs) /\ Elems(Append(s, m)) = Elems(s) \cup {m}
           /\ Distinct(s) /\ m \notin Elems(s) => Distinct(Append(s, m))
           /\ Increasing(s) /\ (\A x \in Elems(s) : x < m) => Increasing(Append(s, m))
  <1>1. Append(s, m) = s \o <<m>>
    OBVIOUS
  <1>2. /\ m \notin Elems(s) => Apart(Elems(s), Elems(<<m>>))
        /\ (\A x \in Elems(s) : x < m) => Below(Elems(s), Elems(<<m>>))
    BY Few DEF Apart, Below
  <1> DEFINE one == <<m>>
  <1>3. one \in Seq(Msgs) /\ Elems(one) = {m} /\ Distinct(one) /\ Increasing(one)
    BY Few
  <1> HIDE DEF one
  <1>4. /\ s \o one \in Seq(Msgs) /\ Elems(s \o one) = Elems(s) \cup Elems(one)
        /\ Distinct(s) /\ Distinct(one) /\ Apart(Elems(s), Elems(one)) => Distinct(s \o one)
        /\ Increasing(s) /\ Increasing(one) /\ Below(Elems(s), Elems(one)) => Increasing(s \o one)
    BY <1>3, Joined
  <1> QED BY <1>1, <1>2, <1>3, <1>4 DEF one

\* The first k of a sequence, and the rest.
LEMMA Divided ==
    ASSUME NEW s \in Seq(Msgs), NEW k \in 0 .. Len(s)
    PROVE  LET a == SubSeq(s, 1, k)
               b == SubSeq(s, k + 1, Len(s))
           IN  /\ a \in Seq(Msgs) /\ b \in Seq(Msgs) /\ Elems(s) = Elems(a) \cup Elems(b)
               /\ Distinct(s) => Distinct(a) /\ Distinct(b) /\ Apart(Elems(a), Elems(b))
               /\ Increasing(s) => Increasing(a) /\ Increasing(b) /\ Below(Elems(a), Elems(b))
               /\ k # 0 => a # <<>>
  <1> DEFINE a == SubSeq(s, 1, k)
             b == SubSeq(s, k + 1, Len(s))
             n == Len(s)
  <1>0. n \in Nat /\ k \in Nat /\ k <= n /\ \A i \in 1 .. n : s[i] \in Msgs
    OBVIOUS
  <1>1. a \in Seq(Msgs) /\ Len(a) = k /\ \A i \in 1 .. k : a[i] = s[i]
    BY <1>0
  <1>2. b \in Seq(Msgs) /\ Len(b) = n - k /\ \A i \in 1 .. n - k : b[i] = s[i + k]
    BY <1>0
  <1> HIDE DEF a, b
  <1>3. \A i \in 1 .. k : i \in 1 .. n
    BY <1>0
  <1>4. \A i \in 1 .. n - k : i + k \in 1 .. n /\ i + k > k
    BY <1>0
  <1>5. Elems(s) = Elems(a) \cup Elems(b)
    <2>1. ASSUME NEW x \in Elems(s) PROVE x \in Elems(a) \cup Elems(b)
      <3>1. PICK i \in 1 .. n : x = s[i]
        BY ElemsAre
      <3>2. CASE i <= k
        <4>1. i \in 1 .. k
          BY <1>0, <3>2
        <4> QED BY <1>1, <3>1, <4>1, ElemsAre
      <3>3. CASE ~ (i <= k)
        <4>1. i - k \in 1 .. n - k /\ (i - k) + k = i
          BY <1>0, <3>3
        <4>2. b[i - k] = s[i]
          BY <1>2, <4>1
        <4> QED BY <1>2, <3>1, <4>1, <4>2, ElemsAre
      <3> QED BY <3>2, <3>3
    <2>2. ASSUME NEW x \in Elems(a) PROVE x \in Elems(s)
      <3>1. PICK i \in 1 .. k : x = a[i]
        BY <1>1, ElemsAre
      <3> QED BY <1>1, <1>3, <3>1, ElemsAre
    <2>3. ASSUME NEW x \in Elems(b) PROVE x \in Elems(s)
      <3>1. PICK i \in 1 .. n - k : x = b[i]
        BY <1>2, ElemsAre
      <3> QED BY <1>2, <1>4, <3>1, ElemsAre
    <2> QED BY <2>1, <2>2, <2>3
  <1>6. ASSUME Distinct(s) PROVE Distinct(a) /\ Distinct(b) /\ Apart(Elems(a), Elems(b))
    <2>1. Distinct(a)
      BY <1>1, <1>3, <1>6 DEF Distinct, n
    <2>2. Distinct(b)
      <3> SUFFICES ASSUME NEW i \in 1 .. n - k, NEW j \in 1 .. n - k, i # j PROVE b[i] # b[j]
        BY <1>2 DEF Distinct
      <3>1. i + k # j + k
        BY <1>0
      <3> QED BY <1>2, <1>4, <1>6, <3>1 DEF Distinct, n
    <2>3. ASSUME NEW x \in Elems(a) PROVE x \notin Elems(b)
      <3>1. PICK i \in 1 .. k : x = a[i]
        BY <1>1, ElemsAre
      <3>2. ASSUME NEW j \in 1 .. n - k, x = b[j] PROVE FALSE
        <4>1. i # j + k
          BY <1>0, <1>4
        <4>2. s[i] = s[j + k] /\ i \in 1 .. n /\ j + k \in 1 .. n
          BY <1>1, <1>2, <1>3, <1>4, <3>1, <3>2
        <4> QED BY <1>6, <4>1, <4>2 DEF Distinct, n
      <3> QED BY <1>2, <3>2, ElemsAre
    <2> QED BY <2>1, <2>2, <2>3 DEF Apart
  <1>7. ASSUME Increasing(s) PROVE Increasing(a) /\ Increasing(b) /\ Below(Elems(a), Elems(b))
    <2>1. Increasing(a)
      BY <1>1, <1>3, <1>7 DEF Increasing, n
    <2>2. Increasing(b)
      <3> SUFFICES ASSUME NEW i \in 1 .. n - k, NEW j \in 1 .. n - k, i < j PROVE b[i] < b[j]
        BY <1>2 DEF Increasing
      <3>1. i + k < j + k
        BY <1>0
      <3> QED BY <1>2, <1>4, <1>7, <3>1 DEF Increasing, n
    <2>3. ASSUME NEW x \in Elems(a), NEW y \in Elems(b) PROVE x < y
      <3>1. PICK i \in 1 .. k : x = a[i]
        BY <1>1, ElemsAre
      <3>2. PICK j \in 1 .. n - k : y = b[j]
        BY <1>2, ElemsAre
      <3>3. i < j + k
        BY <1>0, <1>4
      <3> QED BY <1>1, <1>2, <1>3, <1>4, <1>7, <3>1, <3>2, <3>3 DEF Increasing, n
    <2> QED BY <2>1, <2>2, <2>3 DEF Below
  <1>8. k # 0 => a # <<>>
    BY <1>1
  <1> HIDE DEF n
  <1> QED BY <1>1, <1>2, <1>5, <1>6, <1>7, <1>8 DEF a, b, n

LEMMA MergedIs ==
    ASSUME NEW s \in Seq(Msgs), NEW t \in Seq(Msgs)
    PROVE  /\ Merged(s, t) \in Seq(Msgs) /\ Elems(Merged(s, t)) = Elems(s) \cup Elems(t)
           /\ Distinct(s) /\ Distinct(t) => Distinct(Merged(s, t))
           /\ Increasing(s) /\ Increasing(t) /\ Below(Elems(s), Elems(t) \ Elems(s))
                => Increasing(Merged(s, t))
  <1> DEFINE r == Without(t, Elems(s))
  <1>1. /\ r \in Seq(Msgs) /\ Elems(r) = Elems(t) \ Elems(s)
        /\ Distinct(t) => Distinct(r)
        /\ Increasing(t) => Increasing(r)
    BY Filtered
  <1>2. Apart(Elems(s), Elems(r))
    BY <1>1 DEF Apart
  <1>3. Merged(s, t) = s \o r
    BY DEF Merged
  <1> HIDE DEF r
  <1>4. /\ s \o r \in Seq(Msgs) /\ Elems(s \o r) = Elems(s) \cup Elems(r)
        /\ Distinct(s) /\ Distinct(r) /\ Apart(Elems(s), Elems(r)) => Distinct(s \o r)
        /\ Increasing(s) /\ Increasing(r) /\ Below(Elems(s), Elems(r)) => Increasing(s \o r)
    BY <1>1, Joined
  <1> HIDE DEF Merged
  <1>5. Elems(s) \cup Elems(r) = Elems(s) \cup Elems(t)
    BY <1>1
  <1> QED BY <1>1, <1>2, <1>3, <1>4, <1>5

-----------------------------------------------------------------------------
(* Where messages are                                                       *)

\* Outside group supplements; and the group sessions without them.
Single == lane = "private" \/ ~ supplements
Plain  == lane = "group" /\ ~ supplements

\* What an entry holds for turns to come; and with what its turn took.
Load(x)  == Elems(x.items) \cup Elems(x.pending) \cup Elems(x.related)
Stock(x) == Load(x) \cup Elems(x.active)
Has(t)   == Elems(turns[t].items)

\* A turn that was replaced before it acted: its messages may be taken again.
Gone(t) == /\ turns[t].entry # 0 /\ turns[t].stage = "none"
           /\ turns[t].gen <= entries[turns[t].entry].superseded
Sent(t) == turns[t].stage \in {"started", "complete"}

Lists(x) ==
    /\ x.items \in Seq(Msgs) /\ x.pending \in Seq(Msgs)
    /\ x.related \in Seq(Msgs) /\ x.active \in Seq(Msgs)
    /\ Distinct(x.items) /\ Distinct(x.pending) /\ Distinct(x.related) /\ Distinct(x.active)
    /\ Apart(Elems(x.items), Elems(x.pending)) /\ Apart(Elems(x.items), Elems(x.related))
    /\ Apart(Elems(x.pending), Elems(x.related)) /\ Apart(Elems(x.active), Elems(x.related))
    /\ lane = "private" => Apart(Elems(x.active), Elems(x.pending))

\* An entry has a message in one list, but that a group's preempted batch waits to be
\* taken again while its turn is wound up.
Neat(x) ==
    /\ Lists(x)
    /\ x.processing => x.items = <<>>
    /\ ~ x.processing => x.active = <<>>
    /\ x.drain.pc = "off"
    /\ x.token = x.current \/ x.superseded = x.current
    /\ x.superseded <= x.current
    /\ ~ supplements => x.token = x.current /\ x.window = "none" /\ x.related = <<>>

\* From x to y an entry takes the messages F up; its turn loses none to another but
\* when it has been superseded.
Flows(x, y, F) ==
    /\ Neat(y) /\ y.current = x.current /\ y.turn = x.turn
    /\ y.processing => x.processing
    /\ x.superseded <= y.superseded
    /\ Stock(y) \subseteq Stock(x) \cup F
    /\ y.processing => Elems(y.active) = Elems(x.active)
    /\ \A m \in Load(y) : \/ m \in Load(x) \cup F
                          \/ m \in Elems(x.active) /\ x.processing /\ y.superseded = x.current

LEMMA FlowsTwice ==
    ASSUME NEW x, NEW y, NEW z, EntryShape(x), EntryShape(y), EntryShape(z), NEW F,
           Flows(x, y, F), Flows(y, z, {})
    PROVE  Flows(x, z, F)
  <1>1. /\ Neat(z) /\ z.current = x.current /\ z.turn = x.turn
        /\ z.processing => x.processing
        /\ z.processing => Elems(z.active) = Elems(x.active)
        /\ Stock(z) \subseteq Stock(x) \cup F
    BY DEF Flows
  <1>2. x.superseded <= z.superseded /\ (y.superseded = x.current => z.superseded = x.current)
    BY DEF Flows, EntryShape, Neat
  <1>3. ASSUME NEW m \in Load(z)
        PROVE  \/ m \in Load(x) \cup F
               \/ m \in Elems(x.active) /\ x.processing /\ z.superseded = x.current
    BY <1>2 DEF Flows
  <1> QED BY <1>1, <1>2, <1>3 DEF Flows

\* Fields of an entry that its messages have nothing to do with.
LikeLists(x, y) ==
    /\ y.items = x.items /\ y.pending = x.pending /\ y.related = x.related /\ y.active = x.active
    /\ y.processing = x.processing
LikeTurn(x, y) ==
    /\ y.current = x.current /\ y.turn = x.turn /\ y.token = x.token
    /\ y.superseded = x.superseded /\ y.drain = x.drain
    /\ y.window = x.window \/ y.window = "none" \/ supplements

\* Such fields aside, nothing flows.
LEMMA FlowsNot ==
    ASSUME NEW x, EntryShape(x), Neat(x), NEW y, LikeLists(x, y), LikeTurn(x, y)
    PROVE  Flows(x, y, {}) /\ Stock(y) = Stock(x)
  <1>1. Lists(y) /\ Stock(y) = Stock(x) /\ Load(y) = Load(x)
    BY DEF LikeLists, Neat, Lists, Stock, Load
  <1>2. Neat(y)
    BY <1>1 DEF LikeLists, LikeTurn, Neat
  <1>3. x.superseded <= y.superseded
    BY DEF LikeTurn, EntryShape
  <1> QED BY <1>1, <1>2, <1>3 DEF Flows, LikeLists, LikeTurn

LEMMA ArmedFlows ==
    ASSUME NEW x, EntryShape(x), Neat(x)
    PROVE  Flows(x, Armed(x), {}) /\ EntryShape(Armed(x)) /\ Stock(Armed(x)) = Stock(x)
  <1>1. LikeLists(x, Armed(x)) /\ LikeTurn(x, Armed(x))
    BY DEF Armed, LikeLists, LikeTurn, EntryShape, NewEntry
  <1>2. EntryShape(Armed(x))
    BY Rewritten DEF Busy, Tame, Base
  <1> QED BY <1>1, <1>2, FlowsNot

\* The turn of an entry is over, and takes what it had with it.
Closed(x) == [x EXCEPT !.processing = FALSE, !.active = <<>>]

LEMMA ClosedFlows ==
    ASSUME NEW x, EntryShape(x), Neat(x)
    PROVE  /\ EntryShape(Closed(x)) /\ Flows(x, Closed(x), {}) /\ ~ Closed(x).processing
           /\ Closed(x).pending = x.pending /\ Closed(x).items = x.items
           /\ Closed(x).related = x.related /\ LikeTurn(x, Closed(x)) /\ Load(Closed(x)) = Load(x)
  <1> DEFINE y == Closed(x)
  <1>1. /\ y.items = x.items /\ y.pending = x.pending /\ y.related = x.related /\ y.active = <<>>
        /\ ~ y.processing /\ LikeTurn(x, y)
    BY DEF Closed, LikeTurn, EntryShape, NewEntry
  <1>2. EntryShape(y)
    BY Rewritten DEF Closed, Tame, Base
  <1> HIDE DEF y
  <1>3. Lists(y) /\ Load(y) = Load(x) /\ Stock(y) \subseteq Stock(x)
    BY <1>1, Few DEF Neat, Lists, Load, Stock, Apart
  <1>4. Neat(y)
    BY <1>1, <1>3 DEF LikeTurn, Neat
  <1>5. x.superseded <= y.superseded
    BY <1>1 DEF LikeTurn, EntryShape
  <1> QED BY <1>1, <1>2, <1>3, <1>4, <1>5 DEF y, Flows, LikeTurn

\* What waits becomes the next batch; what was left of the last one is let go.
LEMMA PromotedFlows ==
    ASSUME NEW x, EntryShape(x), Neat(x), ~ x.processing
    PROVE  /\ EntryShape(Promoted(x)) /\ Flows(x, Promoted(x), {})
           /\ Promoted(x).items = x.pending /\ Promoted(x).pending = <<>>
           /\ Promoted(x).related = x.related /\ ~ Promoted(x).processing /\ LikeTurn(x, Promoted(x))
  <1> DEFINE y == Promoted(x)
  <1>1. /\ y.items = x.pending /\ y.pending = <<>> /\ y.related = x.related /\ y.active = x.active
        /\ y.processing = x.processing /\ LikeTurn(x, y)
    BY DEF Promoted, LikeTurn, EntryShape, NewEntry
  <1>2. EntryShape(y)
    BY Rewritten DEF Busy, Tame, Base
  <1> HIDE DEF y
  <1>3. Lists(y) /\ Load(y) \subseteq Load(x) /\ Stock(y) \subseteq Stock(x)
    BY <1>1, Few DEF Neat, Lists, Load, Stock, Apart
  <1>4. Neat(y)
    BY <1>1, <1>3 DEF LikeTurn, Neat
  <1>5. x.superseded <= y.superseded
    BY <1>1 DEF LikeTurn, EntryShape
  <1> QED BY <1>1, <1>2, <1>3, <1>4, <1>5 DEF y, Flows, LikeTurn

\* The replaced batch and its supplements become the next batch of a private chat.
LEMMA ReplayFlows ==
    ASSUME NEW x, EntryShape(x), Neat(x), x.processing, x.superseded = x.current, supplements,
           lane = "private", NEW y, EntryShape(y), LikeTurn(x, y), ~ y.processing,
           y.active = <<>>, y.related = <<>>,
           \/ y.items = Merged(x.active, x.related) /\ y.pending = Without(x.pending, Elems(x.related))
           \/ y.items = x.active \o x.related /\ y.pending = x.pending
    PROVE  Flows(x, y, {})
  <1>1. /\ x.active \in Seq(Msgs) /\ x.related \in Seq(Msgs) /\ x.pending \in Seq(Msgs)
        /\ Distinct(x.active) /\ Distinct(x.related) /\ Distinct(x.pending)
        /\ Apart(Elems(x.active), Elems(x.related)) /\ Apart(Elems(x.active), Elems(x.pending))
        /\ Apart(Elems(x.pending), Elems(x.related))
    BY DEF Neat, Lists
  <1>2. /\ y.items \in Seq(Msgs) /\ Distinct(y.items)
        /\ Elems(y.items) = Elems(x.active) \cup Elems(x.related)
    <2>1. CASE y.items = Merged(x.active, x.related)
      BY <1>1, <2>1, MergedIs
    <2>2. CASE y.items = x.active \o x.related
      BY <1>1, <2>2, Joined
    <2> QED BY <2>1, <2>2
  <1>3. /\ y.pending \in Seq(Msgs) /\ Distinct(y.pending) /\ Elems(y.pending) \subseteq Elems(x.pending)
    <2>1. CASE y.pending = Without(x.pending, Elems(x.related))
      BY <1>1, <2>1, Filtered
    <2>2. CASE y.pending = x.pending
      BY <1>1, <2>2
    <2> QED BY <2>1, <2>2
  <1>4. Lists(y)
    BY <1>1, <1>2, <1>3, Few DEF Lists, Apart
  <1>5. Load(y) \subseteq Load(x) \cup Elems(x.active) /\ Stock(y) \subseteq Stock(x)
    BY <1>2, <1>3, Few DEF Load, Stock
  <1>6. Neat(y)
    BY <1>4 DEF LikeTurn, Neat
  <1>7. x.superseded <= y.superseded
    BY DEF LikeTurn, EntryShape
  <1> QED BY <1>5, <1>6, <1>7 DEF Flows, LikeTurn

\* finalize_generation hands over what the entry of turn g holds.
LEMMA TimerHandOffFlows ==
    ASSUME Single, NEW x, EntryShape(x), Neat(x), x.processing
    PROVE  Flows(x, TimerHandOff(x, x.current), {})
  <1> DEFINE g == x.current
             idle == [x EXCEPT !.processing = FALSE]
             next == Replayed(idle, x.active)
             again == [next EXCEPT !.original = x.active]
             closed == Closed(x)
             full == Promoted(closed)
  <1>0. x.superseded \in Nat /\ g \in Nat
    BY DEF EntryShape
  <1>1. TimerHandOff(x, g) =
          CASE x.token = g -> IF x.pending # <<>> THEN Armed(full) ELSE closed
            [] x.token # g /\ x.superseded < g -> x
            [] x.token # g /\ x.superseded >= g ->
                 IF x.related # <<>> THEN again
                 ELSE IF x.drain.pc # "off" THEN idle
                 ELSE IF x.pending # <<>> THEN full ELSE closed
    BY DEF TimerHandOff, Closed
  <1>2. EntryShape(closed) /\ Flows(x, closed, {}) /\ Neat(closed) /\ ~ closed.processing
    BY ClosedFlows DEF Flows
  <1> HIDE DEF closed
  <1>3. EntryShape(full) /\ Flows(closed, full, {}) /\ Neat(full)
    BY <1>2, PromotedFlows DEF Flows
  <1> HIDE DEF full
  <1>4. Flows(full, Armed(full), {}) /\ EntryShape(Armed(full))
    BY <1>3, ArmedFlows
  <1>5. Flows(x, full, {})
    BY <1>2, <1>3, FlowsTwice
  <1>6. Flows(x, Armed(full), {})
    BY <1>3, <1>4, <1>5, FlowsTwice
  <1>7. ASSUME x.related # <<>>, x.token # g PROVE Flows(x, again, {})
    <2>1. supplements /\ lane = "private" /\ x.superseded = x.current
      BY <1>7 DEF Neat, Single
    <2>2. /\ next.items = Merged(x.active, x.related)
          /\ next.pending = Without(x.pending, Elems(x.related))
          /\ next.related = <<>> /\ next.active = <<>> /\ ~ next.processing
          /\ LikeTurn(x, next)
      BY DEF Replayed, LikeTurn, EntryShape, NewEntry
    <2>3. EntryShape(idle) /\ EntryShape(next)
      <3>1. EntryShape(idle)
        BY Rewritten DEF Tame, Base
      <3> HIDE DEF idle
      <3>2. Busy(idle, next)
        BY <3>1, Rewritten
      <3> QED BY <3>1, <3>2 DEF Busy, Tame, Base
    <2> HIDE DEF next
    <2>4. /\ again.items = next.items /\ again.pending = next.pending /\ again.related = next.related
          /\ again.active = next.active /\ again.processing = next.processing
          /\ LikeTurn(next, again) /\ EntryShape(again)
      BY <2>3 DEF LikeTurn, EntryShape, NewEntry
    <2> HIDE DEF again
    <2>5. LikeTurn(x, again)
      BY <2>2, <2>4 DEF LikeTurn
    <2> QED BY <2>1, <2>2, <2>4, <2>5, ReplayFlows
  <1> HIDE DEF again, idle
  <1>8. x.drain.pc = "off" /\ (x.token # g => x.superseded = g)
    BY DEF Neat
  <1> QED BY <1>0, <1>1, <1>2, <1>5, <1>6, <1>7, <1>8

\* So does the end of the private path of handle_reply_event.
LEMMA DirectHandOffFlows ==
    ASSUME Single, NEW x, EntryShape(x), Neat(x), x.processing
    PROVE  Flows(x, DirectHandOff(x, x.current), {})
  <1> DEFINE g == x.current
             closed == Closed(x)
             batch == x.active \o x.related
             again == [closed EXCEPT !.items = batch, !.related = <<>>]
             full == Promoted(closed)
  <1>1. DirectHandOff(x, g) = IF x.token # g /\ x.related # <<>> THEN Armed(again)
                              ELSE IF x.pending # <<>> THEN Armed(full) ELSE x
    BY DEF DirectHandOff, Closed
  <1>2. /\ EntryShape(closed) /\ Flows(x, closed, {}) /\ Neat(closed) /\ ~ closed.processing
        /\ closed.pending = x.pending /\ LikeTurn(x, closed) /\ closed.active = <<>>
    BY ClosedFlows DEF Flows, Neat
  <1> HIDE DEF closed
  <1>3. EntryShape(full) /\ Flows(closed, full, {}) /\ Neat(full)
    BY <1>2, PromotedFlows DEF Flows
  <1> HIDE DEF full
  <1>4. Flows(full, Armed(full), {}) /\ EntryShape(Armed(full))
    BY <1>3, ArmedFlows
  <1>5. Flows(x, full, {})
    BY <1>2, <1>3, FlowsTwice
  <1>6. Flows(x, Armed(full), {})
    BY <1>3, <1>4, <1>5, FlowsTwice
  <1>7. ASSUME x.related # <<>>, x.token # g PROVE Flows(x, Armed(again), {})
    <2>1. supplements /\ lane = "private" /\ x.superseded = x.current
      BY <1>7 DEF Neat, Single
    <2> HIDE DEF batch
    <2>2. /\ again.items = batch /\ again.pending = x.pending
          /\ again.related = <<>> /\ again.active = <<>> /\ ~ again.processing
          /\ LikeTurn(closed, again) /\ EntryShape(again)
      BY <1>2 DEF LikeTurn, EntryShape, NewEntry
    <2> HIDE DEF again
    <2>3. LikeTurn(x, again)
      BY <1>2, <2>2 DEF LikeTurn
    <2>4. Flows(x, again, {})
      BY <2>1, <2>2, <2>3, ReplayFlows DEF batch
    <2>5. Flows(again, Armed(again), {}) /\ EntryShape(Armed(again))
      BY <2>2, <2>4, ArmedFlows DEF Flows
    <2> QED BY <2>2, <2>4, <2>5, FlowsTwice
  <1> HIDE DEF again
  <1>8. Flows(x, x, {})
    BY FlowsNot DEF LikeLists, LikeTurn
  <1> QED BY <1>1, <1>6, <1>7, <1>8

\* A message is put at the end of a list.
LEMMA PutFlows ==
    ASSUME NEW x, EntryShape(x), Neat(x), NEW m \in Msgs, m \notin Stock(x),
           NEW y, LikeTurn(x, y), y.processing = x.processing, y.active = x.active,
           \/ /\ y.items = Append(x.items, m) /\ y.pending = x.pending /\ y.related = x.related
              /\ ~ x.processing
           \/ y.items = x.items /\ y.pending = Append(x.pending, m) /\ y.related = x.related
           \/ /\ y.items = x.items /\ y.pending = x.pending /\ y.related = Append(x.related, m)
              /\ supplements
    PROVE  Flows(x, y, {m}) /\ Stock(y) = Stock(x) \cup {m}
  <1>1. /\ m \notin Elems(x.items) /\ m \notin Elems(x.pending) /\ m \notin Elems(x.related)
        /\ m \notin Elems(x.active)
    BY DEF Stock, Load
  <1>2. ASSUME NEW s \in Seq(Msgs)
        PROVE  /\ Append(s, m) \in Seq(Msgs) /\ Elems(Append(s, m)) = Elems(s) \cup {m}
               /\ Distinct(s) /\ m \notin Elems(s) => Distinct(Append(s, m))
    BY Extended
  <1>3. Lists(x) /\ x.items \in Seq(Msgs) /\ x.pending \in Seq(Msgs) /\ x.related \in Seq(Msgs)
    BY DEF Neat, Lists
  <1>4. /\ Lists(y) /\ Load(y) = Load(x) \cup {m} /\ Stock(y) = Stock(x) \cup {m}
        /\ x.processing => y.items = x.items
        /\ ~ supplements => y.related = x.related
    <2>1. CASE /\ y.items = Append(x.items, m) /\ y.pending = x.pending /\ y.related = x.related
               /\ ~ x.processing
      <3>1. /\ y.items \in Seq(Msgs) /\ Elems(y.items) = Elems(x.items) \cup {m} /\ Distinct(y.items)
        BY <1>1, <1>2, <1>3, <2>1 DEF Lists
      <3> QED BY <1>1, <1>3, <2>1, <3>1 DEF Lists, Apart, Load, Stock
    <2>2. CASE y.items = x.items /\ y.pending = Append(x.pending, m) /\ y.related = x.related
      <3>1. /\ y.pending \in Seq(Msgs) /\ Elems(y.pending) = Elems(x.pending) \cup {m} /\ Distinct(y.pending)
        BY <1>1, <1>2, <1>3, <2>2 DEF Lists
      <3> QED BY <1>1, <1>3, <2>2, <3>1 DEF Lists, Apart, Load, Stock
    <2>3. CASE /\ y.items = x.items /\ y.pending = x.pending /\ y.related = Append(x.related, m)
               /\ supplements
      <3>1. /\ y.related \in Seq(Msgs) /\ Elems(y.related) = Elems(x.related) \cup {m} /\ Distinct(y.related)
        BY <1>1, <1>2, <1>3, <2>3 DEF Lists
      <3> QED BY <1>1, <1>3, <2>3, <3>1 DEF Lists, Apart, Load, Stock
    <2> QED BY <2>1, <2>2, <2>3
  <1>5. Neat(y)
    BY <1>4 DEF Neat, LikeTurn
  <1>6. x.superseded <= y.superseded
    BY DEF LikeTurn, EntryShape
  <1> QED BY <1>4, <1>5, <1>6 DEF Flows, LikeTurn

\* A generation is superseded, where it is.
LEMMA RaisedFlows ==
    ASSUME NEW x, EntryShape(x), Neat(x), NEW y, LikeLists(x, y), y.current = x.current,
           y.turn = x.turn, y.drain = x.drain, y.window = x.window, y.superseded = x.current,
           y.token = x.token \/ supplements
    PROVE  Flows(x, y, {})
  <1>1. Lists(y) /\ Stock(y) = Stock(x) /\ Load(y) = Load(x)
    BY DEF LikeLists, Neat, Lists, Stock, Load
  <1>2. Neat(y) /\ x.superseded <= y.superseded
    BY <1>1 DEF LikeLists, EntryShape, Neat
  <1> QED BY <1>1, <1>2 DEF Flows, LikeLists

\* A supplement supersedes the generation it comes for.
LEMMA SupersedingFlows ==
    ASSUME supplements, NEW x, EntryShape(x), Neat(x), NEW m \in Msgs, m \notin Stock(x)
    PROVE  LET y == Superseding(x, x.current, <<m>>)
           IN  Flows(x, y, {m}) /\ y.superseded = x.current /\ Stock(y) = Stock(x) \cup {m}
  <1> DEFINE y == Superseding(x, x.current, <<m>>)
             line == Append(x.related, m)
             z == [x EXCEPT !.related = line]
             top == Greatest(x.superseded, x.current)
             next == x.current + 1
  <1>1. x.related \o <<m>> = line /\ top = x.current
    <2>1. x.related \in Seq(Msgs)
      BY DEF Neat, Lists
    <2>2. x.superseded \in Nat /\ x.current \in Nat /\ x.superseded <= x.current
      BY DEF EntryShape, Neat
    <2> QED BY <2>1, <2>2 DEF Greatest
  <1>2. y = [x EXCEPT !.related = line, !.repl = x.current, !.superseded = top, !.token = next]
    <2>1. y = [x EXCEPT !.related = x.related \o <<m>>, !.repl = x.current, !.superseded = top, !.token = next]
      BY DEF Superseding
    <2> QED BY <1>1, <2>1
  <1> HIDE DEF line, top, next
  <1>3. LikeTurn(x, z) /\ z.processing = x.processing /\ z.active = x.active /\ z.items = x.items
        /\ z.pending = x.pending /\ z.related = line /\ EntryShape(z) /\ z.window = x.window
    BY DEF LikeTurn, EntryShape, NewEntry
  <1>4. /\ LikeLists(z, y) /\ y.current = z.current /\ y.turn = z.turn /\ y.drain = z.drain
        /\ y.window = z.window /\ y.superseded = top
    BY <1>2 DEF LikeLists, EntryShape, NewEntry
  <1>5. EntryShape(y)
    <2>1. Base(x, Superseding(x, x.current, <<m>>))
      BY Supersedes
    <2> QED BY <2>1 DEF Base
  <1> HIDE DEF y, z
  <1>6. Flows(x, z, {m}) /\ Stock(z) = Stock(x) \cup {m}
    BY <1>3, PutFlows DEF line
  <1>7. Flows(z, y, {})
    <2>1. Neat(z) /\ z.current = x.current
      BY <1>6 DEF Flows
    <2> QED BY <1>1, <1>3, <1>4, <2>1, RaisedFlows
  <1>8. Flows(x, y, {m})
    BY <1>3, <1>5, <1>6, <1>7, FlowsTwice
  <1>9. Stock(y) = Stock(z)
    BY <1>4 DEF LikeLists, Stock, Load
  <1> QED BY <1>1, <1>4, <1>6, <1>8, <1>9 DEF y

\* A cue takes the batch of a random turn back.
LEMMA PreemptedFlows ==
    ASSUME Plain, NEW x, EntryShape(x), Neat(x), x.processing, NEW m \in Msgs, m \notin Stock(x)
    PROVE  LET y == Preempted(x, m)
           IN  /\ Flows(x, y, {m}) /\ y.superseded = x.current /\ y.processing
               /\ Elems(y.pending) = Elems(x.active) \cup Elems(x.pending) \cup {m}
               /\ y.items = x.items /\ y.active = x.active /\ y.related = x.related
               /\ y.token = x.token
  <1> DEFINE y == Preempted(x, m)
             more == Append(x.pending, m)
             line == Merged(x.active, more)
             top == Greatest(x.superseded, x.current)
  <1>1. y = [x EXCEPT !.pending = line, !.superseded = top]
    BY DEF Preempted
  <1>2. top = x.current
    <2>1. x.superseded \in Nat /\ x.current \in Nat /\ x.superseded <= x.current
      BY DEF EntryShape, Neat
    <2> QED BY <2>1 DEF Greatest
  <1>3. Lists(x) /\ x.pending \in Seq(Msgs) /\ x.active \in Seq(Msgs) /\ Distinct(x.pending) /\ Distinct(x.active)
    BY DEF Neat, Lists
  <1>4. /\ m \notin Elems(x.items) /\ m \notin Elems(x.pending) /\ m \notin Elems(x.related)
        /\ m \notin Elems(x.active) /\ x.related = <<>> /\ x.items = <<>>
    BY DEF Stock, Load, Neat, Plain
  <1>5. more \in Seq(Msgs) /\ Elems(more) = Elems(x.pending) \cup {m} /\ Distinct(more)
    BY <1>3, <1>4, Extended
  <1> HIDE DEF more
  <1>6. line \in Seq(Msgs) /\ Elems(line) = Elems(x.active) \cup Elems(more) /\ Distinct(line)
    BY <1>3, <1>5, MergedIs
  <1> HIDE DEF line, top
  <1>7. /\ y.items = x.items /\ y.related = x.related /\ y.active = x.active /\ y.pending = line
        /\ y.processing = x.processing /\ y.current = x.current /\ y.turn = x.turn
        /\ y.token = x.token /\ y.drain = x.drain /\ y.window = x.window /\ y.superseded = top
    BY <1>1 DEF EntryShape, NewEntry
  <1> HIDE DEF y
  <1>8. Lists(y)
    BY <1>3, <1>4, <1>6, <1>7, Few DEF Lists, Apart, Plain
  <1>9. Load(y) = Load(x) \cup Elems(x.active) \cup {m} /\ Stock(y) = Stock(x) \cup {m}
    BY <1>5, <1>6, <1>7 DEF Load, Stock
  <1>10. Neat(y) /\ x.superseded <= y.superseded
    BY <1>2, <1>7, <1>8 DEF Neat, EntryShape
  <1>11. Flows(x, y, {m})
    BY <1>2, <1>7, <1>9, <1>10 DEF Flows
  <1> QED BY <1>2, <1>5, <1>6, <1>7, <1>11 DEF y

\* What run_buffer_timer takes of a batch, and what it leaves for the next.
Cut(x)  == Least(MaxBatch, Len(x.items))
Kept(x, refused) == Without(SubSeq(x.items, 1, Cut(x)), refused)
Leftover(x) == SubSeq(x.items, Cut(x) + 1, Len(x.items)) \o x.pending
Split(x) == [x EXCEPT !.pending = Leftover(x), !.timer = "off"]

LEMMA CutsWell ==
    ASSUME NEW x, Neat(x), NEW refused
    PROVE  LET taken == SubSeq(x.items, 1, Cut(x))
               rest  == SubSeq(x.items, Cut(x) + 1, Len(x.items))
               kept  == Kept(x, refused)
               tail  == Leftover(x)
           IN  /\ taken \in Seq(Msgs) /\ rest \in Seq(Msgs) /\ Elems(x.items) = Elems(taken) \cup Elems(rest)
               /\ kept \in Seq(Msgs) /\ tail \in Seq(Msgs) /\ Distinct(kept) /\ Distinct(tail)
               /\ Elems(kept) = Elems(taken) \ refused /\ Elems(tail) = Elems(rest) \cup Elems(x.pending)
               /\ Apart(Elems(taken), Elems(rest)) /\ Apart(Elems(taken), Elems(x.pending))
               /\ Increasing(x.items) =>
                    /\ Increasing(kept) /\ Increasing(rest) /\ Below(Elems(taken), Elems(rest))
                    /\ Increasing(x.pending) /\ Below(Elems(rest), Elems(x.pending)) => Increasing(tail)
  <1> DEFINE taken == SubSeq(x.items, 1, Cut(x))
             rest  == SubSeq(x.items, Cut(x) + 1, Len(x.items))
  <1>1. /\ x.items \in Seq(Msgs) /\ x.pending \in Seq(Msgs) /\ Distinct(x.items) /\ Distinct(x.pending)
        /\ Apart(Elems(x.items), Elems(x.pending))
    BY DEF Neat, Lists
  <1>2. Cut(x) \in 0 .. Len(x.items)
    <2>1. Len(x.items) \in Nat /\ MaxBatch \in Nat
      BY <1>1, ConstantsAssumption
    <2> QED BY <2>1 DEF Cut, Least
  <1>3. /\ taken \in Seq(Msgs) /\ rest \in Seq(Msgs) /\ Elems(x.items) = Elems(taken) \cup Elems(rest)
        /\ Distinct(taken) /\ Distinct(rest) /\ Apart(Elems(taken), Elems(rest))
        /\ Increasing(x.items) => Increasing(taken) /\ Increasing(rest) /\ Below(Elems(taken), Elems(rest))
    BY <1>1, <1>2, Divided
  <1>4. Kept(x, refused) = Without(taken, refused) /\ Leftover(x) = rest \o x.pending
    BY DEF Kept, Leftover
  <1> HIDE DEF taken, rest
  <1>5. LET kept == Without(taken, refused)
        IN  /\ kept \in Seq(Msgs) /\ Elems(kept) = Elems(taken) \ refused
            /\ Distinct(taken) => Distinct(kept)
            /\ Increasing(taken) => Increasing(kept)
    BY <1>3, Filtered
  <1>6. Apart(Elems(rest), Elems(x.pending)) /\ Apart(Elems(taken), Elems(x.pending))
    BY <1>1, <1>3 DEF Apart
  <1>7. LET tail == rest \o x.pending
        IN  /\ tail \in Seq(Msgs) /\ Elems(tail) = Elems(rest) \cup Elems(x.pending)
            /\ Distinct(rest) /\ Distinct(x.pending) /\ Apart(Elems(rest), Elems(x.pending)) => Distinct(tail)
            /\ Increasing(rest) /\ Increasing(x.pending) /\ Below(Elems(rest), Elems(x.pending)) => Increasing(tail)
    BY <1>1, <1>3, Joined
  <1> DEFINE kept == Without(taken, refused)
             tail == rest \o x.pending
  <1>8. /\ kept \in Seq(Msgs) /\ Elems(kept) = Elems(taken) \ refused
        /\ Distinct(kept) /\ (Increasing(x.items) => Increasing(kept))
        /\ tail \in Seq(Msgs) /\ Elems(tail) = Elems(rest) \cup Elems(x.pending) /\ Distinct(tail)
        /\ Increasing(rest) /\ Increasing(x.pending) /\ Below(Elems(rest), Elems(x.pending)) => Increasing(tail)
    BY <1>1, <1>3, <1>5, <1>6, <1>7
  <1> HIDE DEF kept, tail
  <1>9. Kept(x, refused) = kept /\ Leftover(x) = tail
    BY <1>4 DEF kept, tail
  <1> QED BY <1>3, <1>6, <1>8, <1>9 DEF taken, rest

LEMMA SplitIs ==
    ASSUME NEW x, EntryShape(x)
    PROVE  /\ EntryShape(Split(x)) /\ LikeTurn(x, Split(x)) /\ Split(x).processing = x.processing
           /\ Split(x).items = x.items /\ Split(x).pending = Leftover(x) /\ Split(x).related = x.related
           /\ Split(x).active = x.active /\ Split(x).window = x.window /\ Split(x).timer = "off"
  <1> DEFINE tail == Leftover(x)
             y == [x EXCEPT !.pending = tail, !.timer = "off"]
  <1>1. Split(x) = y
    BY DEF Split
  <1> HIDE DEF tail
  <1>2. /\ EntryShape(y) /\ LikeTurn(x, y) /\ y.processing = x.processing
        /\ y.items = x.items /\ y.pending = tail /\ y.related = x.related
        /\ y.active = x.active /\ y.window = x.window /\ y.timer = "off"
    BY DEF EntryShape, LikeTurn, NewEntry
  <1> HIDE DEF y
  <1> QED BY <1>1, <1>2 DEF tail

\* None of the batch passes: it is let go, and what is left takes its place.
LEMMA RefusedFlows ==
    ASSUME NEW x, EntryShape(x), Neat(x), ~ x.processing
    PROVE  LET y == IF Leftover(x) # <<>> THEN Armed(Promoted(Split(x))) ELSE Split(x)
           IN  /\ Flows(x, y, {}) /\ y.pending = <<>> /\ ~ y.processing
               /\ Leftover(x) # <<>> => y.items = Leftover(x) /\ y.timer # "off"
  <1> DEFINE s == Split(x)
             p == Promoted(s)
             y == IF Leftover(x) # <<>> THEN Armed(p) ELSE s
             taken == SubSeq(x.items, 1, Cut(x))
             rest  == SubSeq(x.items, Cut(x) + 1, Len(x.items))
             tail == Leftover(x)
  <1>1. /\ EntryShape(s) /\ LikeTurn(x, s) /\ s.processing = x.processing
        /\ s.items = x.items /\ s.pending = Leftover(x) /\ s.related = x.related /\ s.active = x.active
    BY SplitIs
  <1>2. /\ tail \in Seq(Msgs) /\ Distinct(tail) /\ rest \in Seq(Msgs)
        /\ Elems(tail) = Elems(rest) \cup Elems(x.pending) /\ Elems(rest) \subseteq Elems(x.items)
    BY CutsWell
  <1>h. tail = Leftover(x)
    OBVIOUS
  <1> HIDE DEF tail, rest, taken
  <1> HIDE DEF s
  <1>3. /\ EntryShape(p) /\ LikeTurn(s, p) /\ p.processing = s.processing
        /\ p.items = s.pending /\ p.pending = <<>> /\ p.related = s.related /\ p.active = s.active
    <2>1. EntryShape(p)
      BY <1>1, Rewritten DEF Busy, Tame, Base
    <2> QED BY <1>1, <2>1 DEF Promoted, LikeTurn, EntryShape, NewEntry
  <1> HIDE DEF p
  <1>4. /\ LikeTurn(p, Armed(p)) /\ LikeLists(p, Armed(p)) /\ Armed(p).timer = "armed"
    BY <1>3 DEF Armed, LikeTurn, LikeLists, EntryShape, NewEntry
  <1>5. /\ LikeTurn(x, y) /\ ~ y.processing /\ y.pending = <<>> /\ y.related = x.related /\ y.active = x.active
        /\ y.items = x.items \/ y.items = tail
        /\ tail # <<>> => y.items = tail /\ y.timer # "off"
    <2>1. CASE tail # <<>>
      BY <1>h, <1>1, <1>3, <1>4, <2>1 DEF LikeTurn, LikeLists
    <2>2. CASE tail = <<>>
      BY <1>h, <1>1, <2>2
    <2> QED BY <2>1, <2>2
  <1>6. y = IF Leftover(x) # <<>> THEN Armed(p) ELSE s
    OBVIOUS
  <1> HIDE DEF y
  <1>7. Lists(y)
    BY <1>2, <1>5, Few DEF Neat, Lists, Apart
  <1>8. Load(y) \subseteq Load(x) /\ Stock(y) \subseteq Stock(x)
    BY <1>2, <1>5, Few DEF Load, Stock
  <1>9. Neat(y) /\ x.superseded <= y.superseded
    BY <1>5, <1>7 DEF Neat, LikeTurn, EntryShape
  <1>10. Flows(x, y, {})
    BY <1>5, <1>8, <1>9 DEF Flows, LikeTurn
  <1> QED BY <1>h, <1>5, <1>6, <1>10 DEF s, p

\* From x to y a turn begins with the kept part of the batch.
TakesUp(x, y, n, g, kept) ==
    /\ Neat(y) /\ y.processing /\ y.turn = n /\ y.active = kept /\ y.items = <<>>
    /\ y.pending = Leftover(x) /\ y.related = x.related
    /\ y.current = g /\ y.superseded = x.superseded
    /\ Elems(kept) \subseteq Elems(x.items) /\ Load(y) \subseteq Load(x)
    /\ Apart(Elems(kept), Load(y))

LEMMA OpensNeatly ==
    ASSUME NEW x, EntryShape(x), Neat(x), ~ x.processing, NEW refused, NEW n,
           NEW window, ~ supplements => window = "none", NEW g \in Nat, x.current < g,
           NEW kept, kept = Kept(x, refused), NEW y, y = Opening(Split(x), n, g, kept, <<>>, window)
    PROVE  TakesUp(x, y, n, g, kept)
  <1> DEFINE s == Split(x)
             tail == Leftover(x)
             none == <<>>
             taken == SubSeq(x.items, 1, Cut(x))
             rest  == SubSeq(x.items, Cut(x) + 1, Len(x.items))
  <1>1. /\ EntryShape(s) /\ LikeTurn(x, s) /\ s.items = x.items /\ s.pending = tail
        /\ s.related = x.related
    BY SplitIs
  <1>2. /\ taken \in Seq(Msgs) /\ rest \in Seq(Msgs) /\ Elems(x.items) = Elems(taken) \cup Elems(rest)
        /\ kept \in Seq(Msgs) /\ tail \in Seq(Msgs) /\ Distinct(kept) /\ Distinct(tail)
        /\ Elems(kept) = Elems(taken) \ refused /\ Elems(tail) = Elems(rest) \cup Elems(x.pending)
        /\ Apart(Elems(taken), Elems(rest)) /\ Apart(Elems(taken), Elems(x.pending))
    BY CutsWell
  <1>3. x.superseded \in Nat /\ x.current \in Nat /\ x.superseded <= x.current
    BY DEF EntryShape, Neat
  <1>4. none \in Seq(Msgs) /\ Distinct(none) /\ Elems(none) = {} /\ none = <<>>
    BY Few
  <1> DEFINE z == Opening(s, n, g, kept, none, window)
  <1>o. y = z
    OBVIOUS
  <1> HIDE DEF s, tail, taken, rest, none
  <1>p. /\ z.processing /\ z.turn = n /\ z.active = kept /\ z.items = none /\ z.pending = s.pending
        /\ z.related = s.related /\ z.current = g /\ z.token = g /\ z.superseded = s.superseded
        /\ z.drain = s.drain /\ z.window = window
    BY <1>1 DEF Opening, EntryShape, NewEntry
  <1> HIDE DEF z
  <1>5. /\ y.processing /\ y.turn = n /\ y.active = kept /\ y.items = none /\ y.pending = s.pending
        /\ y.related = s.related /\ y.current = g /\ y.token = g /\ y.superseded = s.superseded
        /\ y.drain = s.drain /\ y.window = window
    BY <1>o, <1>p
  <1>6. Lists(y)
    BY <1>1, <1>2, <1>4, <1>5 DEF Neat, Lists, Apart
  <1>7. Neat(y)
    BY <1>1, <1>3, <1>4, <1>5, <1>6 DEF Neat, LikeTurn
  <1>8. /\ Load(y) \subseteq Load(x) /\ Elems(kept) \subseteq Elems(x.items)
        /\ Apart(Elems(kept), Load(y))
    BY <1>1, <1>2, <1>4, <1>5 DEF Load, Apart, Neat, Lists
  <1>9. y.superseded = x.superseded /\ y.pending = tail /\ y.related = x.related
    BY <1>1, <1>5 DEF LikeTurn
  <1>10. Neat(y) /\ y.processing /\ y.turn = n /\ y.active = kept /\ y.items = <<>>
    BY <1>4, <1>5, <1>7
  <1>11. y.pending = Leftover(x) /\ y.related = x.related /\ y.current = g /\ y.superseded = x.superseded
    BY <1>5, <1>9 DEF tail
  <1> QED BY <1>8, <1>10, <1>11 DEF TakesUp

-----------------------------------------------------------------------------
(* No message is taken by two turns                                         *)

\* Entries and turns that count share no message, handlers that wait hold others yet,
\* and a message has been answered if a turn that has it has begun to send.
Placed ==
    /\ \A e \in EntryIds : Neat(entries[e]) /\ Stock(entries[e]) \subseteq 1 .. arrived
    /\ \A e \in EntryIds : entries[e].processing =>
            Elems(entries[e].active) = Has(entries[e].turn)
    /\ \A e, f \in EntryIds : e # f => Apart(Stock(entries[e]), Stock(entries[f]))
    /\ \A t \in TurnIds : turns[t].items \in Seq(Msgs) /\ Has(t) \subseteq 1 .. arrived
    /\ \A t \in TurnIds, e \in EntryIds : ~ Gone(t) =>
            /\ Apart(Has(t), Load(entries[e]))
            /\ t # entries[e].turn => Apart(Has(t), Elems(entries[e].active))
    /\ \A t, u \in TurnIds : t # u /\ ~ Gone(t) /\ ~ Gone(u) => Apart(Has(t), Has(u))

Nowhere(m) ==
    /\ \A e \in EntryIds : m \notin Stock(entries[e])
    /\ \A t \in TurnIds : m \notin Has(t)

Queueing ==
    /\ ~ supplements => joins = {}
    /\ \A j \in joins : j.msg \in 1 .. arrived /\ Nowhere(j.msg)
    /\ \A i, j \in joins : i.msg = j.msg => i = j

Counted ==
    \A m \in Msgs : answers[m] = IF \E t \in TurnIds : Sent(t) /\ m \in Has(t) THEN 1 ELSE 0

\* A plain group's entry has its messages in the order they came, and those that a turn
\* has come before all that later turns have or that still wait.
Tidy(x) ==
    /\ Increasing(x.items) /\ Increasing(x.pending) /\ Increasing(x.active)
    /\ ~ x.processing => x.pending = <<>>
    /\ x.processing /\ x.superseded < x.current => Below(Elems(x.active), Elems(x.pending))

InLine == Plain =>
    /\ \A e \in EntryIds : Tidy(entries[e])
    /\ slot # 0 => \A t \in TurnIds : turns[t].entry # 0 /\ ~ Gone(t) =>
          /\ Below(Has(t), Load(entries[slot]))
          /\ t # entries[slot].turn => Below(Has(t), Elems(entries[slot].active))
    /\ \A t, u \in TurnIds : t < u /\ turns[t].entry # 0 /\ turns[u].entry # 0 /\ ~ Gone(t)
            => Below(Has(t), Has(u))

MsgInv == /\ session \in Sessions /\ arrived \in 0 .. Events
          /\ Single => Placed /\ Queueing /\ Counted /\ InLine

\* A step in which entry e0 takes up messages F that were nowhere yet, and at most one
\* turn begins, with those or with what e0 lets go.
Flow(e0, F) ==
    /\ arrived <= arrived' /\ F \subseteq 1 .. arrived'
    /\ \A m \in F : Nowhere(m) /\ \A j \in joins' : j.msg # m
    /\ EntryIds \subseteq EntryIds' /\ TurnIds \subseteq TurnIds'
    /\ \A e \in EntryIds' : e # e0 => e \in EntryIds /\ entries'[e] = entries[e]
    /\ e0 \in EntryIds' =>
         LET y == entries'[e0]
         IN  /\ Neat(y)
             /\ y.processing => Elems(y.active) = Elems(turns'[y.turn].items)
             /\ \A m \in Stock(y) : m \in F \/ (e0 \in EntryIds /\ m \in Stock(entries[e0]))
             /\ \A m \in Load(y) : \/ m \in F
                                   \/ e0 \in EntryIds /\ m \in Load(entries[e0])
                                   \/ /\ e0 \in EntryIds /\ m \in Elems(entries[e0].active)
                                      /\ \E t \in TurnIds : t = entries[e0].turn /\ Gone(t)'
             /\ y.active # <<>> => \/ y.turn \in TurnIds' /\ y.turn \notin TurnIds
                                   \/ /\ e0 \in EntryIds /\ y.turn = entries[e0].turn
                                      /\ Elems(y.active) = Elems(entries[e0].active)
    /\ \A t \in TurnIds : turns'[t].items = turns[t].items /\ (Gone(t) => Gone(t)')
    /\ \A t, u \in TurnIds' : t = u \/ t \in TurnIds \/ u \in TurnIds
    /\ \A n \in TurnIds' : n \notin TurnIds =>
         /\ turns'[n].items \in Seq(Msgs)
         /\ \A m \in Elems(turns'[n].items) : m \in F \/ (e0 \in EntryIds /\ m \in Load(entries[e0]))
         /\ e0 \in EntryIds' =>
              /\ Apart(Elems(turns'[n].items), Load(entries'[e0]))
              /\ n # entries'[e0].turn => Apart(Elems(turns'[n].items), Elems(entries'[e0].active))

\* In a plain group those messages are later than all that came, and a turn of an entry
\* begins on the one under the key, with the first that wait.
InStep(e0, F) == Plain =>
    /\ slot' \in {0, slot} \/ (slot = 0 /\ slot' = e0 /\ e0 \notin EntryIds)
    /\ e0 \in EntryIds' => Tidy(entries'[e0])
    /\ \A m \in F : m \in Nat /\ arrived < m
    /\ \A t \in TurnIds : turns'[t].entry = turns[t].entry
    /\ \A n \in TurnIds' : n \notin TurnIds /\ turns'[n].entry # 0 =>
         /\ e0 = slot /\ slot' = slot /\ entries'[e0].turn = n
         /\ Below(Elems(turns'[n].items), Load(entries'[e0]))

LEMMA FlowPlaces ==
    ASSUME BufferInv, MsgInv, Single, UNCHANGED session, arrived' \in Nat, NEW e0, NEW F, Flow(e0, F)
    PROVE  Placed'
  <1>0. Placed /\ arrived \in Nat /\ arrived <= arrived' /\ 1 .. arrived \subseteq 1 .. arrived'
    BY ConstantsAssumption DEF MsgInv, Flow
  <1>f. F \subseteq 1 .. arrived' /\ \A m \in F : Nowhere(m)
    BY DEF Flow
  <1>i. EntryIds \subseteq EntryIds' /\ TurnIds \subseteq TurnIds'
    BY DEF Flow
  <1>e. \A e \in EntryIds' : e # e0 => e \in EntryIds /\ entries'[e] = entries[e]
    BY DEF Flow
  <1>y. ASSUME e0 \in EntryIds'
        PROVE  LET y == entries'[e0]
               IN  /\ Neat(y)
                   /\ y.processing => Elems(y.active) = Elems(turns'[y.turn].items)
                   /\ \A m \in Stock(y) : m \in F \/ (e0 \in EntryIds /\ m \in Stock(entries[e0]))
                   /\ \A m \in Load(y) : \/ m \in F
                                         \/ e0 \in EntryIds /\ m \in Load(entries[e0])
                                         \/ /\ e0 \in EntryIds /\ m \in Elems(entries[e0].active)
                                            /\ \E t \in TurnIds : t = entries[e0].turn /\ Gone(t)'
                   /\ y.active # <<>> => \/ y.turn \in TurnIds' /\ y.turn \notin TurnIds
                                         \/ /\ e0 \in EntryIds /\ y.turn = entries[e0].turn
                                            /\ Elems(y.active) = Elems(entries[e0].active)
    BY <1>y DEF Flow
  <1>t. \A t \in TurnIds : turns'[t].items = turns[t].items /\ Has(t)' = Has(t) /\ (Gone(t) => Gone(t)')
    BY DEF Flow, Has
  <1>u. ASSUME NEW n \in TurnIds', n \notin TurnIds
        PROVE  /\ turns'[n].items \in Seq(Msgs) /\ Has(n)' = Elems(turns'[n].items)
               /\ \A m \in Has(n)' : m \in F \/ (e0 \in EntryIds /\ m \in Load(entries[e0]))
               /\ e0 \in EntryIds' =>
                     /\ Apart(Has(n)', Load(entries'[e0]))
                     /\ n # entries'[e0].turn => Apart(Has(n)', Elems(entries'[e0].active))
    BY <1>u DEF Flow, Has
  <1>1. ASSUME NEW e \in EntryIds'
        PROVE  Neat(entries'[e]) /\ Stock(entries'[e]) \subseteq 1 .. arrived'
    <2>1. CASE e = e0
      BY <1>0, <1>f, <1>y, <2>1 DEF Placed
    <2>2. CASE e # e0
      BY <1>0, <1>e, <2>2 DEF Placed
    <2> QED BY <2>1, <2>2
  <1>2. ASSUME NEW e \in EntryIds', entries'[e].processing
        PROVE  Elems(entries'[e].active) = Elems(turns'[entries'[e].turn].items)
    <2>1. CASE e = e0
      BY <1>2, <1>y, <2>1
    <2>2. CASE e # e0
      <3>1. entries'[e] = entries[e] /\ e \in EntryIds
        BY <1>e, <2>2
      <3>2. entries[e].turn \in TurnIds
        BY <1>2, <3>1, KnownEntry DEF IsTurnOf
      <3>3. Elems(entries[e].active) = Elems(turns[entries[e].turn].items)
        BY <1>0, <1>2, <3>1 DEF Placed, Has
      <3> QED BY <1>t, <3>1, <3>2, <3>3
    <2> QED BY <2>1, <2>2
  <1>3. ASSUME NEW e \in EntryIds', NEW f \in EntryIds', e # f
        PROVE  Apart(Stock(entries'[e]), Stock(entries'[f]))
    <2>1. ASSUME NEW x \in EntryIds, x # e0, NEW m \in Stock(entries[x]), e0 \in EntryIds'
          PROVE  m \notin Stock(entries'[e0])
      <3>1. m \notin F
        BY <1>f, <2>1 DEF Nowhere
      <3>2. e0 \in EntryIds => m \notin Stock(entries[e0])
        BY <1>0, <2>1 DEF Placed, Apart
      <3> QED BY <1>y, <2>1, <3>1, <3>2
    <2>2. CASE e = e0
      BY <1>3, <1>e, <2>1, <2>2 DEF Apart
    <2>3. CASE f = e0
      BY <1>3, <1>e, <2>1, <2>3 DEF Apart
    <2>4. CASE e # e0 /\ f # e0
      BY <1>0, <1>3, <1>e, <2>4 DEF Placed
    <2> QED BY <2>2, <2>3, <2>4
  <1>4. ASSUME NEW t \in TurnIds'
        PROVE  turns'[t].items \in Seq(Msgs) /\ Elems(turns'[t].items) \subseteq 1 .. arrived'
    <2>1. CASE t \in TurnIds
      BY <1>0, <1>t, <2>1 DEF Placed, Has
    <2>2. CASE t \notin TurnIds
      <3>1. e0 \in EntryIds => Load(entries[e0]) \subseteq 1 .. arrived
        BY <1>0 DEF Placed, Stock
      <3> QED BY <1>0, <1>f, <1>u, <2>2, <3>1
    <2> QED BY <2>1, <2>2
  <1>5. ASSUME NEW t \in TurnIds', NEW e \in EntryIds', ~ Gone(t)'
        PROVE  /\ Apart(Has(t)', Load(entries'[e]))
               /\ t # entries'[e].turn => Apart(Has(t)', Elems(entries'[e].active))
    <2>1. CASE t \in TurnIds
      <3>1. ~ Gone(t) /\ Has(t)' = Has(t)
        BY <1>5, <1>t, <2>1
      <3>2. \A m \in Has(t) : m \notin F
        BY <1>f, <2>1 DEF Nowhere
      <3>3. CASE e # e0
        BY <1>0, <1>e, <2>1, <3>1, <3>3 DEF Placed
      <3>4. CASE e = e0
        <4>1. e0 \in EntryIds => /\ Apart(Has(t), Load(entries[e0]))
                                 /\ t # entries[e0].turn => Apart(Has(t), Elems(entries[e0].active))
          BY <1>0, <2>1, <3>1 DEF Placed
        <4>2. ASSUME NEW m \in Has(t) PROVE m \notin Load(entries'[e0])
          BY <1>5, <1>y, <3>2, <3>4, <4>1, <4>2 DEF Apart
        <4>3. ASSUME t # entries'[e0].turn, NEW m \in Has(t) PROVE m \notin Elems(entries'[e0].active)
          <5>1. CASE e0 \in EntryIds /\ entries'[e0].turn = entries[e0].turn
                       /\ Elems(entries'[e0].active) = Elems(entries[e0].active)
            BY <4>1, <4>3, <5>1 DEF Apart
          <5>2. CASE entries'[e0].active = <<>>
            BY <5>2, Few
          <5>3. CASE entries'[e0].turn \in TurnIds' /\ entries'[e0].turn \notin TurnIds
            <6>1. PICK n \in TurnIds' : n \notin TurnIds /\ n = entries'[e0].turn
              BY <5>3
            <6>2. entries'[e0].active # <<>> => Elems(entries'[e0].active) = Has(n)'
              BY <1>y, <3>4, <6>1 DEF Neat, Has
            <6>3. \A x \in Has(n)' : x \in F \/ (e0 \in EntryIds /\ x \in Load(entries[e0]))
              BY <1>u, <6>1
            <6>4. m \notin Has(n)'
              BY <3>2, <4>1, <4>3, <6>3 DEF Apart
            <6> QED BY <6>2, <6>4, Few
          <5> QED BY <1>y, <3>4, <5>1, <5>2, <5>3
        <4> QED BY <3>1, <3>4, <4>2, <4>3 DEF Apart
      <3> QED BY <3>3, <3>4
    <2>2. CASE t \notin TurnIds
      <3>1. CASE e = e0
        BY <1>u, <2>2, <3>1
      <3>2. CASE e # e0
        <4>1. ASSUME NEW m \in Has(t)' PROVE m \notin Stock(entries[e])
          <5>1. CASE m \in F
            BY <1>f, <1>e, <3>2, <5>1 DEF Nowhere
          <5>2. CASE e0 \in EntryIds /\ m \in Load(entries[e0])
            BY <1>0, <1>e, <3>2, <5>2 DEF Placed, Apart, Stock
          <5> QED BY <1>u, <2>2, <4>1, <5>1, <5>2
        <4> QED BY <1>e, <3>2, <4>1 DEF Apart, Stock
      <3> QED BY <3>1, <3>2
    <2> QED BY <2>1, <2>2
  <1>6. ASSUME NEW t \in TurnIds', NEW u \in TurnIds', t # u, ~ Gone(t)', ~ Gone(u)'
        PROVE  Apart(Has(t)', Has(u)')
    <2>1. ASSUME NEW v \in TurnIds, ~ Gone(v)', NEW n \in TurnIds', n \notin TurnIds, NEW m \in Has(n)'
          PROVE  m \notin Has(v)'
      <3>1. ~ Gone(v) /\ Has(v)' = Has(v)
        BY <1>t, <2>1
      <3>2. CASE m \in F
        BY <1>f, <2>1, <3>1, <3>2 DEF Nowhere
      <3>3. CASE e0 \in EntryIds /\ m \in Load(entries[e0])
        BY <1>0, <2>1, <3>1, <3>3 DEF Placed, Apart
      <3> QED BY <1>u, <2>1, <3>2, <3>3
    <2>2. CASE t \in TurnIds /\ u \in TurnIds
      <3>1. ~ Gone(t) /\ ~ Gone(u) /\ Has(t)' = Has(t) /\ Has(u)' = Has(u)
        BY <1>6, <1>t, <2>2
      <3> QED BY <1>0, <1>6, <2>2, <3>1 DEF Placed
    <2>3. CASE t \notin TurnIds
      <3>1. u \in TurnIds
        BY <1>6, <2>3 DEF Flow
      <3> QED BY <1>6, <2>1, <2>3, <3>1 DEF Apart
    <2>4. CASE u \notin TurnIds
      <3>1. t \in TurnIds
        BY <1>6, <2>4 DEF Flow
      <3> QED BY <1>6, <2>1, <2>4, <3>1 DEF Apart
    <2> QED BY <2>2, <2>3, <2>4
  <1>n. \A x : Neat(x)' <=> Neat(x)
    BY DEF Neat, Lists, lane, supplements
  <1>7. \A e \in EntryIds' : Neat(entries[e])' /\ (Stock(entries[e]) \subseteq 1 .. arrived)'
    BY <1>1 DEF Neat, Lists, lane, supplements, Stock, Load
  <1>8. /\ \A e, f \in EntryIds' : e # f => Apart(Stock(entries[e]), Stock(entries[f]))'
        /\ \A t \in TurnIds', e \in EntryIds' : ~ Gone(t)' =>
              /\ Apart(Has(t), Load(entries[e]))'
              /\ t # entries'[e].turn => Apart(Has(t), Elems(entries[e].active))'
        /\ \A t, u \in TurnIds' : t # u /\ ~ Gone(t)' /\ ~ Gone(u)' => Apart(Has(t), Has(u))'
    BY <1>3, <1>5, <1>6 DEF Apart, Stock, Load
  <1> QED BY <1>2, <1>4, <1>7, <1>8 DEF Placed, Has

LEMMA FlowLines ==
    ASSUME BufferInv, BufferInv', MsgInv, Single, UNCHANGED session, NEW e0, NEW F,
           Flow(e0, F), InStep(e0, F)
    PROVE  InLine'
  <1> SUFFICES ASSUME Plain PROVE InLine'
    BY DEF InLine, Plain, lane, supplements
  <1>0. Placed /\ InLine /\ arrived \in Nat /\ slot \in 0 .. Len(entries)
    BY ConstantsAssumption, EntriesAre DEF MsgInv
  <1>f. \A m \in F : m \in Nat /\ arrived < m
    BY DEF InStep
  <1>e. \A e \in EntryIds' : e # e0 => e \in EntryIds /\ entries'[e] = entries[e]
    BY DEF Flow
  <1>t. \A t \in TurnIds : /\ Has(t)' = Has(t) /\ (Gone(t) => Gone(t)') /\ turns'[t].entry = turns[t].entry
                           /\ Has(t) \subseteq 1 .. arrived
    BY <1>0 DEF Flow, InStep, Has, Placed
  <1>s. slot # 0 => slot \in EntryIds
    BY <1>0, EntriesAre DEF EntryIds
  <1>1. ASSUME NEW e \in EntryIds' PROVE Tidy(entries'[e])
    BY <1>0, <1>1, <1>e DEF InStep, InLine
  <1>2. ASSUME NEW t \in TurnIds, NEW m \in F, NEW k \in Has(t) PROVE k < m
    <2>1. k \in 1 .. arrived
      BY <1>t
    <2> QED BY <1>0, <1>f, <2>1
  <1>3. ASSUME slot' # 0, NEW t \in TurnIds, turns[t].entry # 0, ~ Gone(t)'
        PROVE  /\ Below(Has(t), Load(entries'[slot']))
               /\ t # entries'[slot'].turn => Below(Has(t), Elems(entries'[slot'].active))
    <2>1. CASE slot' = slot
      <3>1. /\ slot \in EntryIds /\ ~ Gone(t)
            /\ Below(Has(t), Load(entries[slot]))
            /\ t # entries[slot].turn => Below(Has(t), Elems(entries[slot].active))
        BY <1>0, <1>3, <1>s, <1>t, <2>1 DEF InLine
      <3>2. slot \in EntryIds'
        BY <3>1 DEF Flow
      <3>3. CASE slot # e0
        BY <1>e, <2>1, <3>1, <3>2, <3>3
      <3>4. CASE slot = e0
        <4> DEFINE x == entries[e0]
                   y == entries'[e0]
        <4>1. /\ \A m \in Load(y) : \/ m \in F \/ m \in Load(x)
                                    \/ m \in Elems(x.active) /\ \E u \in TurnIds : u = x.turn /\ Gone(u)'
              /\ y.active # <<>> => \/ y.turn \in TurnIds' /\ y.turn \notin TurnIds
                                    \/ y.turn = x.turn /\ Elems(y.active) = Elems(x.active)
          BY <3>2, <3>4 DEF Flow
        <4>2. ASSUME NEW k \in Has(t), NEW m \in Load(y) PROVE k < m
          BY <1>2, <1>3, <3>1, <3>4, <4>1, <4>2 DEF Below
        <4>3. ASSUME t # y.turn, NEW k \in Has(t), NEW m \in Elems(y.active) PROVE k < m
          <5>1. y.active # <<>>
            BY <4>3, Few
          <5>2. CASE y.turn \in TurnIds' /\ y.turn \notin TurnIds
            <6>1. /\ y.processing => Elems(y.active) = Elems(turns'[y.turn].items)
                  /\ Neat(y)
              BY <3>2, <3>4 DEF Flow
            <6>2. Elems(y.active) = Elems(turns'[y.turn].items)
              BY <5>1, <6>1 DEF Neat
            <6>3. m \in F \/ m \in Load(x)
              BY <3>4, <4>3, <5>2, <6>2 DEF Flow
            <6> QED BY <1>2, <3>1, <3>4, <4>3, <6>3 DEF Below
          <5>3. CASE y.turn = x.turn /\ Elems(y.active) = Elems(x.active)
            BY <3>1, <3>4, <4>3, <5>3 DEF Below
          <5> QED BY <4>1, <5>1, <5>2, <5>3
        <4> QED BY <2>1, <3>4, <4>2, <4>3 DEF Below
      <3> QED BY <3>3, <3>4
    <2>2. CASE slot = 0 /\ slot' = e0 /\ e0 \notin EntryIds
      <3>1. e0 \in EntryIds'
        <4>1. slot' \in EntryIds'
          BY <1>3 DEF BufferInv, Shapes, EntryIds
        <4> QED BY <2>2, <4>1
      <3>2. \A m \in Stock(entries'[e0]) : m \in F
        BY <2>2, <3>1 DEF Flow
      <3> QED BY <1>2, <2>2, <3>2 DEF Below, Stock
    <2> QED BY <1>3, <2>1, <2>2 DEF InStep
  <1>4. ASSUME slot' # 0, NEW n \in TurnIds', n \notin TurnIds, turns'[n].entry # 0
        PROVE  /\ Below(Has(n)', Load(entries'[slot'])) /\ n = entries'[slot'].turn
    BY <1>4 DEF InStep, Has
  <1>5. ASSUME NEW t \in TurnIds', NEW u \in TurnIds', t < u, turns'[t].entry # 0, turns'[u].entry # 0,
               ~ Gone(t)'
        PROVE  Below(Has(t)', Has(u)')
    <2>0. t \in TurnIds
      <3>1. Len(turns) \in Nat /\ Len(turns') \in Nat
        BY TurnsAre DEF BufferInv, Shapes
      <3> QED BY <1>5, <3>1 DEF Flow, TurnIds
    <2>1. CASE u \in TurnIds
      BY <1>0, <1>5, <1>t, <2>0, <2>1 DEF InLine
    <2>2. CASE u \notin TurnIds
      <3>1. e0 = slot /\ slot' = slot
        BY <1>5, <2>2 DEF InStep
      <3>2. \A m \in Has(u)' : m \in F \/ (e0 \in EntryIds /\ m \in Load(entries[e0]))
        BY <2>2 DEF Flow, Has
      <3>3. ASSUME NEW k \in Has(t), NEW m \in Has(u)' PROVE k < m
        <4>1. CASE m \in F
          BY <1>2, <2>0, <4>1
        <4>2. CASE e0 \in EntryIds /\ m \in Load(entries[e0])
          <5>1. slot # 0 /\ ~ Gone(t) /\ turns[t].entry # 0
            BY <1>5, <1>t, <2>0, <3>1, <4>2 DEF EntryIds
          <5>2. Below(Has(t), Load(entries[slot]))
            BY <1>0, <2>0, <5>1 DEF InLine
          <5> QED BY <3>1, <4>2, <5>2 DEF Below
        <4> QED BY <3>2, <4>1, <4>2
      <3> QED BY <1>t, <2>0, <3>3 DEF Below
    <2> QED BY <2>1, <2>2
  <1>6. \A e \in EntryIds' : Tidy(entries[e])'
    BY <1>1 DEF Tidy
  <1>7. slot' # 0 => \A t \in TurnIds' : turns'[t].entry # 0 /\ ~ Gone(t)' =>
          /\ Below(Has(t)', Load(entries'[slot']))
          /\ t # entries'[slot'].turn => Below(Has(t)', Elems(entries'[slot'].active))
    BY <1>3, <1>4, <1>t
  <1>8. slot' # 0 => \A t \in TurnIds' : turns'[t].entry # 0 /\ ~ Gone(t)' =>
          /\ Below(Has(t), Load(entries[slot]))'
          /\ t # entries'[slot'].turn => Below(Has(t), Elems(entries[slot].active))'
    BY <1>7 DEF Load, Below
  <1> QED BY <1>5, <1>6, <1>8 DEF InLine, Below

\* At most one handler begins to wait, with a message that was nowhere.
NewWait ==
    /\ supplements \/ joins' \subseteq joins
    /\ \A j \in joins' : j \in joins \/ (j.msg \in 1 .. arrived' /\ Nowhere(j.msg))
    /\ \A i, j \in joins' : \/ i \in joins /\ j \in joins
                            \/ i = j \/ i.msg # j.msg

LEMMA FlowQueues ==
    ASSUME MsgInv, Single, UNCHANGED session, arrived' \in Nat, NEW e0, NEW F, Flow(e0, F), NewWait
    PROVE  Queueing'
  <1>0. Queueing /\ arrived \in Nat /\ arrived <= arrived' /\ 1 .. arrived \subseteq 1 .. arrived'
    BY ConstantsAssumption DEF MsgInv, Flow
  <1>1. ASSUME NEW j \in joins' PROVE j.msg \in 1 .. arrived' /\ Nowhere(j.msg) /\ j.msg \notin F
    BY <1>0 DEF NewWait, Queueing, Flow
  <1>2. ASSUME NEW j \in joins', NEW e \in EntryIds' PROVE j.msg \notin Stock(entries'[e])
    <2>1. CASE e = e0
      BY <1>1, <2>1 DEF Flow, Nowhere
    <2>2. CASE e # e0
      BY <1>1, <2>2 DEF Flow, Nowhere
    <2> QED BY <2>1, <2>2
  <1>3. ASSUME NEW j \in joins', NEW t \in TurnIds' PROVE j.msg \notin Elems(turns'[t].items)
    <2>1. CASE t \in TurnIds
      BY <1>1, <2>1 DEF Flow, Nowhere, Has
    <2>2. CASE t \notin TurnIds
      BY <1>1, <2>2 DEF Flow, Nowhere, Stock
    <2> QED BY <2>1, <2>2
  <1>4. ASSUME NEW i \in joins', NEW j \in joins', i.msg = j.msg PROVE i = j
    BY <1>0, <1>4 DEF NewWait, Queueing
  <1>5. ~ supplements => joins' = {}
    BY <1>0 DEF NewWait, Queueing
  <1>6. ASSUME NEW j \in joins' PROVE Nowhere(j.msg)'
    BY <1>2, <1>3 DEF Nowhere, Has, Stock, Load, Elems
  <1> QED BY <1>1, <1>4, <1>5, <1>6 DEF Queueing, supplements

\* No turn begins to send.
NoneSends ==
    /\ answers' = answers
    /\ \A t \in TurnIds : Sent(t)' <=> Sent(t)
    /\ \A t \in TurnIds' : t \notin TurnIds => ~ Sent(t)'

LEMMA FlowCounts ==
    ASSUME MsgInv, Single, NEW e0, NEW F, Flow(e0, F), NoneSends
    PROVE  Counted'
  <1>1. \A t \in TurnIds : t \in TurnIds' /\ Has(t)' = Has(t)
    BY DEF Flow, Has
  <1>2. ASSUME NEW m \in Msgs
        PROVE  (\E t \in TurnIds' : Sent(t)' /\ m \in Has(t)') <=> (\E t \in TurnIds : Sent(t) /\ m \in Has(t))
    BY <1>1 DEF NoneSends
  <1>3. \A m \in Msgs : answers[m] = IF \E t \in TurnIds : Sent(t) /\ m \in Has(t) THEN 1 ELSE 0
    BY DEF MsgInv, Counted
  <1>4. \A m \in Msgs : answers'[m] = IF \E t \in TurnIds' : Sent(t)' /\ m \in Has(t)' THEN 1 ELSE 0
    BY <1>2, <1>3 DEF NoneSends
  <1> QED BY <1>4 DEF Counted, Msgs

\* Such a step keeps messages in their places.
LEMMA FlowKeeps ==
    ASSUME BufferInv, BufferInv', MsgInv, Single, UNCHANGED session, arrived' \in 0 .. Events,
           NEW e0, NEW F, Flow(e0, F), InStep(e0, F), NewWait, NoneSends
    PROVE  MsgInv'
  <1>1. arrived' \in Nat
    BY ConstantsAssumption
  <1> QED BY <1>1, FlowPlaces, FlowQueues, FlowCounts, FlowLines DEF MsgInv

\* Turns keep what they have, and how far they got.
KeptTurns ==
    /\ TurnIds' = TurnIds
    /\ \A t \in TurnIds : /\ turns'[t].items = turns[t].items /\ turns'[t].entry = turns[t].entry
                          /\ turns'[t].gen = turns[t].gen /\ turns'[t].stage = turns[t].stage

\* Nothing moves.
LEMMA StillFlows ==
    ASSUME BufferInv, MsgInv, Single, UNCHANGED entries, TurnIds' = TurnIds,
           arrived' = arrived \/ arrived' = arrived + 1, slot' \in {0, slot},
           \A t \in TurnIds : turns'[t].items = turns[t].items /\ (Gone(t) => Gone(t)'),
           \A t \in TurnIds : turns'[t].entry = turns[t].entry
    PROVE  Flow(0, {}) /\ InStep(0, {})
  <1>1. EntryIds' = EntryIds /\ 0 \notin EntryIds /\ 0 \notin EntryIds'
    BY DEF EntryIds
  <1>2. arrived <= arrived'
    BY ConstantsAssumption DEF MsgInv
  <1>3. Flow(0, {})
    BY <1>1, <1>2 DEF Flow
  <1>4. InStep(0, {})
    BY <1>1 DEF InStep
  <1> QED BY <1>3, <1>4

\* One entry moves, and turns keep what they have.
LEMMA EntryFlows ==
    ASSUME BufferInv, BufferInv', MsgInv, Single, UNCHANGED session, KeptTurns, arrived <= arrived',
           NEW e \in EntryIds, NEW y, entries' = Changed(entries, e, y),
           NEW F, Flows(entries[e], y, F), F \subseteq 1 .. arrived',
           \A m \in F : Nowhere(m) /\ \A j \in joins' : j.msg # m,
           slot' \in {0, slot}, Plain => Tidy(y) /\ \A m \in F : m \in Nat /\ arrived < m
    PROVE  Flow(e, F) /\ InStep(e, F)
  <1> DEFINE x == entries[e]
  <1>1. /\ EntryIds' = EntryIds /\ entries'[e] = y
        /\ \A f \in EntryIds : f # e => entries'[f] = entries[f]
    <2>1. IsSequence(entries) /\ EntryIds = 1 .. Len(entries)
      BY EntriesAre DEF EntryIds
    <2>2. /\ Len(Changed(entries, e, y)) = Len(entries) /\ Changed(entries, e, y)[e] = y
          /\ \A f \in 1 .. Len(entries) : f # e => Changed(entries, e, y)[f] = entries[f]
      BY <2>1, Replacing
    <2> QED BY <2>1, <2>2 DEF EntryIds
  <1>2. /\ Neat(x) /\ EntryShape(x) /\ Neat(y)
        /\ x.processing => IsTurnOf(x.turn, e, x.current) /\ Elems(x.active) = Has(x.turn)
    BY KnownEntry DEF MsgInv, Placed, Flows
  <1>3. ASSUME y.processing
        PROVE  Elems(y.active) = Elems(turns'[y.turn].items)
    <2>1. x.processing /\ y.turn = x.turn /\ Elems(y.active) = Elems(x.active)
      BY <1>3 DEF Flows
    <2> QED BY <1>2, <2>1 DEF IsTurnOf, KeptTurns, Has
  <1>4. ASSUME NEW m \in Load(y), ~ (m \in Load(x) \cup F)
        PROVE  m \in Elems(x.active) /\ \E t \in TurnIds : t = x.turn /\ Gone(t)'
    <2>1. m \in Elems(x.active) /\ x.processing /\ y.superseded = x.current
      BY <1>4 DEF Flows
    <2>2. /\ x.turn \in TurnIds /\ turns'[x.turn].entry = e /\ turns'[x.turn].gen = x.current
          /\ e # 0 /\ x.current \in Nat
      BY <1>2, <2>1, KnownEntry DEF IsTurnOf, KeptTurns, EntryShape
    <2>3. turns'[x.turn].stage = "none"
      BY <1>1, <2>1, <2>2 DEF BufferInv, ReplacedIsSilent, KeptTurns
    <2>4. PICK t \in TurnIds : t = x.turn
      BY <2>2
    <2>5. Gone(t)'
      BY <1>1, <2>1, <2>2, <2>3, <2>4 DEF Gone
    <2> QED BY <2>1, <2>4, <2>5
  <1>5. y.active # <<>> => /\ y.turn = x.turn /\ Elems(y.active) = Elems(x.active)
    BY <1>2 DEF Neat, Flows
  <1>6. ASSUME NEW t \in TurnIds, Gone(t) PROVE Gone(t)'
    <2>1. turns[t].entry # 0 /\ turns[t].stage = "none" /\ turns[t].gen <= entries[turns[t].entry].superseded
      BY <1>6 DEF Gone
    <2>2. turns[t].entry \in EntryIds /\ turns[t].gen \in Nat
      <3>1. TurnShape(turns[t]) /\ turns[t].entry <= Len(entries) /\ Len(entries) \in Nat
        BY TurnsAre, EntriesAre
      <3> QED BY <2>1, <3>1 DEF TurnShape, EntryIds
    <2>3. entries[turns[t].entry].superseded <= entries'[turns[t].entry].superseded
      <3>1. entries[turns[t].entry].superseded \in Nat
        BY <2>2, KnownEntry DEF EntryShape
      <3>2. CASE turns[t].entry = e
        BY <1>1, <3>2 DEF Flows
      <3>3. CASE turns[t].entry # e
        BY <1>1, <2>2, <3>1, <3>3
      <3> QED BY <3>2, <3>3
    <2>4. entries[turns[t].entry].superseded \in Nat /\ entries'[turns[t].entry].superseded \in Nat
      BY <1>1, <2>2, KnownEntry, EntriesAre DEF EntryShape, BufferInv, Shapes
    <2> QED BY <2>1, <2>2, <2>3, <2>4 DEF Gone, KeptTurns
  <1>7. \A m \in Stock(y) : m \in F \/ m \in Stock(x)
    BY DEF Flows
  <1>8. \A t \in TurnIds : turns'[t].items = turns[t].items
    BY DEF KeptTurns
  <1>9. /\ Neat(y)
        /\ y.processing => Elems(y.active) = Elems(turns'[y.turn].items)
        /\ \A m \in Stock(y) : m \in F \/ (e \in EntryIds /\ m \in Stock(x))
        /\ \A m \in Load(y) : \/ m \in F
                              \/ e \in EntryIds /\ m \in Load(x)
                              \/ /\ e \in EntryIds /\ m \in Elems(x.active)
                                 /\ \E t \in TurnIds : t = x.turn /\ Gone(t)'
        /\ y.active # <<>> => \/ y.turn \in TurnIds' /\ y.turn \notin TurnIds
                              \/ /\ e \in EntryIds /\ y.turn = x.turn
                                 /\ Elems(y.active) = Elems(x.active)
    <2>1. ASSUME NEW m \in Load(y)
          PROVE  \/ m \in F
                 \/ e \in EntryIds /\ m \in Load(x)
                 \/ /\ e \in EntryIds /\ m \in Elems(x.active)
                    /\ \E t \in TurnIds : t = x.turn /\ Gone(t)'
      BY <1>4
    <2>2. y.active # <<>> => \/ y.turn \in TurnIds' /\ y.turn \notin TurnIds
                             \/ /\ e \in EntryIds /\ y.turn = x.turn
                                /\ Elems(y.active) = Elems(x.active)
      BY <1>5
    <2>4. Neat(y) /\ (y.processing => Elems(y.active) = Elems(turns'[y.turn].items))
      BY <1>2, <1>3
    <2> HIDE DEF x
    <2>3. ASSUME NEW m \in Stock(y)
          PROVE  m \in F \/ (e \in EntryIds /\ m \in Stock(x))
      BY <1>7
    <2> QED BY <2>1, <2>2, <2>3, <2>4, Zenon
  <1>10. /\ arrived <= arrived' /\ F \subseteq 1 .. arrived'
         /\ \A m \in F : Nowhere(m) /\ \A j \in joins' : j.msg # m
         /\ EntryIds \subseteq EntryIds' /\ TurnIds \subseteq TurnIds'
         /\ \A f \in EntryIds' : f # e => f \in EntryIds /\ entries'[f] = entries[f]
         /\ \A t \in TurnIds : turns'[t].items = turns[t].items /\ (Gone(t) => Gone(t)')
         /\ \A t \in TurnIds' : t \in TurnIds
    BY <1>1, <1>6, <1>8 DEF KeptTurns
  <1> HIDE DEF x
  <1>11. entries'[e] = y /\ x = entries[e]
    BY <1>1 DEF x
  <1>12. Flow(e, F)
    BY <1>9, <1>10, <1>11 DEF Flow
  <1>13. \A t \in TurnIds : turns'[t].entry = turns[t].entry
    BY DEF KeptTurns
  <1>14. InStep(e, F)
    BY <1>10, <1>11, <1>13 DEF InStep
  <1> QED BY <1>12, <1>14

-----------------------------------------------------------------------------
(* Each action keeps messages in their places                               *)

\* What each of the next lemmas starts from, and what most actions leave alone.
Placing == BufferInv /\ BufferInv' /\ MsgInv /\ Single /\ session' = session

Quiet == arrived' = arrived /\ answers' = answers /\ joins' \subseteq joins

LEMMA QuietWaits == ASSUME Placing, Quiet PROVE NewWait /\ arrived' \in 0 .. Events
  BY DEF Placing, Quiet, MsgInv, Queueing, NewWait

LEMMA KeptSendsNone == ASSUME KeptTurns, answers' = answers PROVE NoneSends
  BY DEF KeptTurns, NoneSends, Sent

\* A turn that was replaced has been told.
LEMMA GoneIsStale == ASSUME BufferInv, NEW t \in TurnIds, Gone(t) PROVE ~ Fresh(t)
  <1>1. turns[t].entry # 0 /\ turns[t].gen <= entries[turns[t].entry].superseded
    BY DEF Gone
  <1>2. TurnShape(turns[t]) /\ turns[t].entry <= Len(entries) /\ Len(entries) \in Nat
    BY TurnsAre, EntriesAre
  <1>3. turns[t].entry \in EntryIds /\ turns[t].gen \in Nat
    BY <1>1, <1>2 DEF TurnShape, EntryIds
  <1>4. entries[turns[t].entry].superseded \in Nat
    BY <1>3, KnownEntry DEF EntryShape
  <1> QED BY <1>1, <1>3, <1>4 DEF Fresh, Current, EntryOf

\* A turn moves on, alone.
LEMMA TurnGoes ==
    ASSUME Placing, NEW t \in TurnIds, NEW new, turns' = Changed(turns, t, new),
           new.items = turns[t].items, new.entry = turns[t].entry, new.gen = turns[t].gen,
           new.stage = turns[t].stage \/ turns[t].stage # "none" \/ Fresh(t),
           UNCHANGED <<entries, slot, arrived, joins>>
    PROVE  /\ Flow(0, {}) /\ InStep(0, {}) /\ TurnIds' = TurnIds /\ turns'[t] = new
           /\ \A u \in TurnIds : u # t => turns'[u] = turns[u]
           /\ answers' = answers /\ (new.stage \in {"started", "complete"} <=> Sent(t)) => MsgInv'
  <1>1. /\ TurnIds' = TurnIds /\ turns'[t] = new
        /\ \A u \in TurnIds : u # t => turns'[u] = turns[u]
    <2>1. IsSequence(turns) /\ TurnIds = 1 .. Len(turns)
      BY TurnsAre DEF TurnIds, Placing
    <2>2. /\ Len(Changed(turns, t, new)) = Len(turns) /\ Changed(turns, t, new)[t] = new
          /\ \A u \in 1 .. Len(turns) : u # t => Changed(turns, t, new)[u] = turns[u]
      BY <2>1, Replacing
    <2> QED BY <2>1, <2>2 DEF TurnIds
  <1>2. ASSUME NEW u \in TurnIds PROVE turns'[u].items = turns[u].items /\ (Gone(u) => Gone(u)')
    <2>1. CASE u # t
      BY <1>1, <2>1 DEF Gone
    <2>2. CASE u = t
      <3>1. ASSUME Gone(t) PROVE new.stage = "none"
        <4>1. ~ Fresh(t) /\ turns[t].stage = "none"
          BY <3>1, GoneIsStale DEF Gone, Placing
        <4> QED BY <4>1
      <3> QED BY <1>1, <2>2, <3>1 DEF Gone
    <2> QED BY <2>1, <2>2
  <1>e. \A u \in TurnIds : turns'[u].entry = turns[u].entry
    BY <1>1
  <1>3. Flow(0, {}) /\ InStep(0, {})
    BY <1>1, <1>2, <1>e, StillFlows DEF Placing
  <1>4. ASSUME answers' = answers, new.stage \in {"started", "complete"} <=> Sent(t) PROVE MsgInv'
    <2>1. NoneSends
      BY <1>1, <1>4 DEF NoneSends, Sent
    <2>2. NewWait /\ arrived' \in 0 .. Events
      BY <1>4, QuietWaits DEF Quiet
    <2> QED BY <1>3, <2>1, <2>2, FlowKeeps DEF Placing
  <1> QED BY <1>1, <1>3, <1>4

\* A turn begins to send: none that has its messages had.
LEMMA SendingCounts == ASSUME Placing, NEW t \in TurnIds, StartDelivery(t) PROVE MsgInv'
  <1> DEFINE new == [turns[t] EXCEPT !.stage = "started"]
  <1>0. /\ IsSequence(turns) /\ t \in 1 .. Len(turns) /\ DOMAIN turns = 1 .. Len(turns)
        /\ TurnShape(turns[t])
    BY TurnsAre DEF TurnIds, IsSequence, Placing
  <1>1. /\ turns' = Changed(turns, t, new) /\ Fresh(t) /\ UNCHANGED <<entries, slot, arrived, joins>>
        /\ turns[t].stage \in {"none", "action"}
        /\ answers' = [m \in Msgs |-> IF m \in Has(t) THEN answers[m] + 1 ELSE answers[m]]
    BY <1>0 DEF StartDelivery, Changed, Has
  <1>2. /\ new.items = turns[t].items /\ new.entry = turns[t].entry /\ new.gen = turns[t].gen
        /\ new.stage = "started"
    BY <1>0 DEF TurnShape, NewTurn
  <1> HIDE DEF new
  <1>3. /\ Flow(0, {}) /\ InStep(0, {}) /\ TurnIds' = TurnIds /\ turns'[t] = new
        /\ \A u \in TurnIds : u # t => turns'[u] = turns[u]
    BY <1>1, <1>2, TurnGoes
  <1>4. ~ Sent(t) /\ ~ Gone(t)
    <2>1. ~ Sent(t)
      BY <1>1 DEF Sent
    <2>2. ~ Gone(t)
      BY <1>1, GoneIsStale DEF Placing
    <2> QED BY <2>1, <2>2
  <1>5. ASSUME NEW u \in TurnIds, Sent(u) PROVE Apart(Has(t), Has(u))
    <2>1. u # t /\ ~ Gone(u)
      BY <1>4, <1>5 DEF Sent, Gone
    <2> QED BY <1>4, <2>1 DEF Placing, MsgInv, Placed
  <1>6. \A m \in Msgs : answers[m] = IF \E u \in TurnIds : Sent(u) /\ m \in Has(u) THEN 1 ELSE 0
    BY DEF Placing, MsgInv, Counted
  <1>7. \A u \in TurnIds : (Sent(u)' <=> u = t \/ Sent(u)) /\ Has(u)' = Has(u)
    BY <1>2, <1>3 DEF Sent, Has
  <1>8. ASSUME NEW m \in Msgs
        PROVE  answers'[m] = IF \E u \in TurnIds' : Sent(u)' /\ m \in Has(u)' THEN 1 ELSE 0
    <2>1. CASE m \in Has(t)
      <3>1. answers[m] = 0
        BY <1>5, <1>6, <2>1 DEF Apart
      <3>2. \E u \in TurnIds' : Sent(u)' /\ m \in Has(u)'
        BY <1>3, <1>7, <2>1
      <3> QED BY <1>1, <2>1, <3>1, <3>2
    <2>2. CASE m \notin Has(t)
      <3>1. (\E u \in TurnIds' : Sent(u)' /\ m \in Has(u)') <=> (\E u \in TurnIds : Sent(u) /\ m \in Has(u))
        BY <1>3, <1>7, <2>2
      <3> QED BY <1>1, <1>6, <2>2, <3>1
    <2> QED BY <2>1, <2>2
  <1>9. Counted'
    BY <1>8 DEF Counted, Msgs
  <1>10. NewWait /\ arrived' \in 0 .. Events /\ arrived' \in Nat
    BY <1>1, ConstantsAssumption DEF Placing, MsgInv, NewWait
  <1> QED BY <1>3, <1>9, <1>10, FlowPlaces, FlowQueues, FlowLines DEF Placing, MsgInv

\* What else a turn's generation does, and its admission.
LEMMA GenerationPlaces ==
    ASSUME Placing, NEW t \in TurnIds,
           \/ Admit(t) \/ Act(t) \/ WantCommit(t) \/ GetCommit(t) \/ StartDelivery(t)
           \/ CompleteDelivery(t) \/ \E how \in {"done", "failed"} : Ends(t, how)
    PROVE  MsgInv'
  <1>0. /\ IsSequence(turns) /\ t \in 1 .. Len(turns) /\ DOMAIN turns = 1 .. Len(turns)
        /\ TurnShape(turns[t])
    BY TurnsAre DEF TurnIds, IsSequence, Placing
  <1>g. ASSUME NEW new, turns' = Changed(turns, t, new), new.items = turns[t].items,
               new.entry = turns[t].entry, new.gen = turns[t].gen,
               new.stage = turns[t].stage \/ turns[t].stage # "none" \/ Fresh(t),
               new.stage \in {"started", "complete"} <=> turns[t].stage \in {"started", "complete"},
               UNCHANGED <<entries, slot, arrived, joins, answers>>
        PROVE  MsgInv'
    BY <1>g, TurnGoes DEF Sent
  <1>1. CASE Admit(t)
    <2> DEFINE new == [turns[t] EXCEPT !.owner = "run", !.child = "work"]
    <2>1. turns' = Changed(turns, t, new) /\ UNCHANGED <<entries, slot, arrived, joins, answers>>
      BY <1>0, <1>1 DEF Admit, Changed, ghosts
    <2>2. /\ new.items = turns[t].items /\ new.entry = turns[t].entry /\ new.gen = turns[t].gen
          /\ new.stage = turns[t].stage
      BY <1>0 DEF TurnShape, NewTurn
    <2> HIDE DEF new
    <2> QED BY <2>1, <2>2, <1>g
  <1>2. CASE Act(t)
    <2> DEFINE new == [turns[t] EXCEPT !.stage = "action"]
    <2>1. /\ turns' = Changed(turns, t, new) /\ UNCHANGED <<entries, slot, arrived, joins, answers>>
          /\ Fresh(t) /\ turns[t].stage = "none"
      BY <1>0, <1>2 DEF Act, Changed, ghosts
    <2>2. /\ new.items = turns[t].items /\ new.entry = turns[t].entry /\ new.gen = turns[t].gen
          /\ new.stage = "action"
      BY <1>0 DEF TurnShape, NewTurn
    <2> HIDE DEF new
    <2> QED BY <2>1, <2>2, <1>g
  <1>3. CASE WantCommit(t) \/ GetCommit(t) \/ \E how \in {"done", "failed"} : Ends(t, how)
    <2>1. PICK at : /\ turns' = [turns EXCEPT ![t].child = at]
                    /\ UNCHANGED <<entries, slot, arrived, joins, answers>>
      BY <1>3 DEF WantCommit, GetCommit, Ends, ghosts
    <2> DEFINE new == [turns[t] EXCEPT !.child = at]
    <2>2. turns' = Changed(turns, t, new)
      BY <1>0, <2>1 DEF Changed
    <2>3. /\ new.items = turns[t].items /\ new.entry = turns[t].entry /\ new.gen = turns[t].gen
          /\ new.stage = turns[t].stage
      BY <1>0 DEF TurnShape, NewTurn
    <2> HIDE DEF new
    <2> QED BY <2>1, <2>2, <2>3, <1>g
  <1>4. CASE CompleteDelivery(t)
    <2> DEFINE new == [turns[t] EXCEPT !.stage = "complete"]
    <2>1. /\ turns' = Changed(turns, t, new) /\ UNCHANGED <<entries, slot, arrived, joins, answers>>
          /\ turns[t].stage = "started"
      BY <1>0, <1>4 DEF CompleteDelivery, Changed, ghosts
    <2>2. /\ new.items = turns[t].items /\ new.entry = turns[t].entry /\ new.gen = turns[t].gen
          /\ new.stage = "complete"
      BY <1>0 DEF TurnShape, NewTurn
    <2> HIDE DEF new
    <2> QED BY <2>1, <2>2, <1>g
  <1> QED BY <1>1, <1>2, <1>3, <1>4, SendingCounts

-----------------------------------------------------------------------------
(* The order in an entry's lists                                            *)

LEMMA TidyEntry == ASSUME MsgInv, Single, NEW e \in EntryIds, Plain PROVE Tidy(entries[e])
  BY DEF MsgInv, InLine

LEMMA TidyStays ==
    ASSUME NEW x, Tidy(x), NEW y, LikeLists(x, y), LikeTurn(x, y)
    PROVE  Tidy(y)
  BY DEF Tidy, LikeLists, LikeTurn

LEMMA ArmedIs ==
    ASSUME NEW x, EntryShape(x)
    PROVE  LikeLists(x, Armed(x)) /\ LikeTurn(x, Armed(x))
  BY DEF Armed, LikeLists, LikeTurn, EntryShape, NewEntry

\* An entry that lets its turn go takes what waits, or has nothing.
LEMMA TidyHandOff ==
    ASSUME Plain, NEW x, EntryShape(x), Neat(x), Tidy(x), x.processing
    PROVE  Tidy(TimerHandOff(x, x.current)) /\ Tidy(DirectHandOff(x, x.current))
  <1> DEFINE closed == Closed(x)
             full == Promoted(closed)
             g == x.current
  <1>1. x.token = g /\ x.related = <<>>
    BY DEF Neat, Plain
  <1>2. /\ TimerHandOff(x, g) = IF x.pending # <<>> THEN Armed(full) ELSE closed
        /\ DirectHandOff(x, g) = IF x.pending # <<>> THEN Armed(full) ELSE x
    BY <1>1 DEF TimerHandOff, DirectHandOff, Closed
  <1> HIDE DEF g, full, closed
  <1>3. /\ EntryShape(closed) /\ Neat(closed) /\ ~ closed.processing /\ closed.pending = x.pending
        /\ closed.items = x.items /\ x.items = <<>> /\ closed.active = <<>>
    BY ClosedFlows DEF Flows, Neat, closed
  <1>4. CASE x.pending = <<>>
    <2>1. Tidy(closed)
      BY <1>3, <1>4, Few DEF Tidy
    <2> QED BY <1>2, <1>4, <2>1 DEF g
  <1>5. CASE x.pending # <<>>
    <2>1. EntryShape(full) /\ full.items = x.pending /\ full.pending = <<>>
          /\ ~ full.processing /\ full.active = <<>>
      BY <1>3, PromotedFlows DEF full, Flows, Neat
    <2>2. Tidy(full)
      BY <2>1, Few DEF Tidy
    <2>3. Tidy(Armed(full))
      BY <2>1, <2>2, ArmedIs, TidyStays
    <2> QED BY <1>2, <1>5, <2>3 DEF g
  <1> QED BY <1>4, <1>5

\* A message that comes is later than all the entry has.
LEMMA TidyPut ==
    ASSUME NEW x, Neat(x), Tidy(x), NEW m \in Msgs, \A k \in Stock(x) : k < m,
           NEW y, LikeTurn(x, y), y.processing = x.processing, y.active = x.active,
           \/ /\ y.items = Append(x.items, m) /\ y.pending = x.pending
              /\ ~ x.processing
           \/ y.items = x.items /\ y.pending = Append(x.pending, m) /\ x.processing
    PROVE  Tidy(y)
  <1>1. /\ x.items \in Seq(Msgs) /\ x.pending \in Seq(Msgs)
        /\ Increasing(x.items) /\ Increasing(x.pending) /\ Increasing(x.active)
    BY DEF Neat, Lists, Tidy
  <1>2. /\ \A k \in Elems(x.items) : k < m
        /\ \A k \in Elems(x.pending) : k < m
        /\ \A k \in Elems(x.active) : k < m
    BY DEF Stock, Load
  <1>3. CASE /\ y.items = Append(x.items, m) /\ y.pending = x.pending
             /\ ~ x.processing
    <2>1. Increasing(y.items)
      BY <1>1, <1>2, <1>3, Extended
    <2> QED BY <1>1, <1>3, <2>1 DEF Tidy
  <1>4. CASE y.items = x.items /\ y.pending = Append(x.pending, m) /\ x.processing
    <2>1. Increasing(y.pending) /\ Elems(y.pending) = Elems(x.pending) \cup {m}
      BY <1>1, <1>2, <1>4, Extended
    <2>2. x.superseded < x.current => Below(Elems(x.active), Elems(y.pending))
      BY <1>2, <1>4, <2>1 DEF Tidy, Below
    <2> QED BY <1>1, <1>4, <2>1, <2>2 DEF Tidy, LikeTurn
  <1> QED BY <1>3, <1>4

\* A batch that is taken back goes before what waits.
LEMMA TidyPreempted ==
    ASSUME Plain, NEW x, EntryShape(x), Neat(x), Tidy(x), x.processing, x.superseded < x.current,
           NEW m \in Msgs, m \notin Stock(x), \A k \in Stock(x) : k < m
    PROVE  Tidy(Preempted(x, m))
  <1> DEFINE y == Preempted(x, m)
             more == Append(x.pending, m)
             line == Merged(x.active, more)
             top == Greatest(x.superseded, x.current)
  <1>1. y = [x EXCEPT !.pending = line, !.superseded = top]
    BY DEF Preempted
  <1>2. y.superseded = x.current
    BY PreemptedFlows
  <1>3. /\ x.pending \in Seq(Msgs) /\ x.active \in Seq(Msgs) /\ Increasing(x.pending)
        /\ Increasing(x.active) /\ Below(Elems(x.active), Elems(x.pending)) /\ Increasing(x.items)
        /\ \A k \in Elems(x.pending) : k < m
        /\ \A k \in Elems(x.active) : k < m
    BY DEF Neat, Lists, Tidy, Stock, Load
  <1>4. more \in Seq(Msgs) /\ Elems(more) = Elems(x.pending) \cup {m} /\ Increasing(more)
    BY <1>3, Extended
  <1> HIDE DEF more
  <1>5. Below(Elems(x.active), Elems(more) \ Elems(x.active))
    BY <1>3, <1>4 DEF Below
  <1>6. Increasing(line)
    BY <1>3, <1>4, <1>5, MergedIs
  <1> HIDE DEF line, top
  <1>7. /\ y.items = x.items /\ y.active = x.active /\ y.pending = line /\ y.current = x.current
        /\ y.processing = x.processing
    BY <1>1 DEF EntryShape, NewEntry
  <1> HIDE DEF y
  <1>8. ~ (y.superseded < y.current)
    BY <1>2, <1>7 DEF EntryShape
  <1>9. Tidy(y)
    BY <1>3, <1>6, <1>7, <1>8 DEF Tidy
  <1> QED BY <1>9 DEF y

\* What the policy gate leaves of an idle entry.
LEMMA TidyRefused ==
    ASSUME NEW x, EntryShape(x), Neat(x), Tidy(x), ~ x.processing
    PROVE  Tidy(IF Leftover(x) # <<>> THEN Armed(Promoted(Split(x))) ELSE Split(x))
  <1> DEFINE s == Split(x)
             tail == Leftover(x)
  <1>1. /\ EntryShape(s) /\ LikeTurn(x, s) /\ ~ s.processing /\ s.items = x.items /\ s.pending = tail
        /\ s.related = x.related /\ s.active = x.active
    BY SplitIs
  <1>2. /\ x.pending = <<>> /\ Increasing(x.items) /\ Increasing(x.active) /\ x.active = <<>>
    BY DEF Tidy, Neat
  <1>3. Increasing(tail)
    <2>1. Below(Elems(SubSeq(x.items, Cut(x) + 1, Len(x.items))), Elems(x.pending)) /\ Increasing(x.pending)
      BY <1>2, Few DEF Below
    <2> QED BY <1>2, <2>1, CutsWell
  <1> HIDE DEF s, tail
  <1>4. CASE tail = <<>>
    <2>1. Tidy(s)
      BY <1>1, <1>2, <1>4, Few DEF Tidy
    <2> QED BY <1>4, <2>1 DEF s, tail
  <1>5. CASE tail # <<>>
    <2> DEFINE p == Promoted(s)
    <2>1. EntryShape(p)
      BY <1>1, Rewritten DEF Busy, Tame, Base
    <2>2. p.items = tail /\ p.pending = <<>> /\ ~ p.processing /\ p.active = <<>>
      BY <1>1, <1>2 DEF Promoted, EntryShape, NewEntry
    <2> HIDE DEF p
    <2>3. Tidy(p)
      BY <1>3, <2>2, Few DEF Tidy
    <2>4. Tidy(Armed(p))
      BY <2>1, <2>3, ArmedIs, TidyStays
    <2> QED BY <1>5, <2>4 DEF p, s, tail
  <1> QED BY <1>4, <1>5

\* A batch that begins comes before what is left.
LEMMA TidyOpens ==
    ASSUME NEW x, Neat(x), Tidy(x), ~ x.processing, NEW refused,
           NEW y, y.items = <<>>, y.pending = Leftover(x), y.active = Kept(x, refused), y.processing
    PROVE  Tidy(y) /\ Below(Elems(y.active), Elems(y.pending))
  <1> DEFINE taken == SubSeq(x.items, 1, Cut(x))
             rest  == SubSeq(x.items, Cut(x) + 1, Len(x.items))
             kept  == Kept(x, refused)
             tail  == Leftover(x)
  <1>1. x.pending = <<>> /\ Elems(x.pending) = {} /\ Increasing(x.items) /\ Increasing(x.pending)
    BY Few DEF Tidy
  <1>2. /\ Elems(kept) = Elems(taken) \ refused /\ Elems(tail) = Elems(rest) \cup Elems(x.pending)
        /\ Increasing(x.items) =>
             /\ Increasing(kept) /\ Increasing(rest) /\ Below(Elems(taken), Elems(rest))
             /\ Increasing(x.pending) /\ Below(Elems(rest), Elems(x.pending)) => Increasing(tail)
    BY CutsWell
  <1> HIDE DEF taken, rest, kept, tail
  <1>3. Below(Elems(rest), Elems(x.pending))
    BY <1>1 DEF Below
  <1>4. Increasing(kept) /\ Increasing(tail) /\ Below(Elems(kept), Elems(tail))
    BY <1>1, <1>2, <1>3 DEF Below
  <1>5. Increasing(y.items) /\ y.pending = tail /\ y.active = kept
    BY Few DEF kept, tail
  <1> QED BY <1>4, <1>5 DEF Tidy

\* Turns and entries move where they are.
LEMMA MovesKeep ==
    ASSUME Placing, Quiet, KeptTurns, slot' \in {0, slot},
           \/ entries' = entries
           \/ \E e \in EntryIds : \E y :
                 /\ entries' = Changed(entries, e, y) /\ Flows(entries[e], y, {})
                 /\ Plain => Tidy(y)
    PROVE  MsgInv'
  <1>0. BufferInv /\ BufferInv' /\ MsgInv /\ Single /\ session' = session
    BY DEF Placing
  <1>1. NewWait /\ arrived' \in 0 .. Events /\ NoneSends /\ arrived <= arrived'
    <2>1. arrived \in Nat
      BY <1>0, ConstantsAssumption DEF MsgInv
    <2> QED BY <2>1, QuietWaits, KeptSendsNone DEF Quiet
  <1>2. CASE entries' = entries
    <2>1. \A t \in TurnIds : turns'[t].items = turns[t].items /\ (Gone(t) => Gone(t)')
      BY <1>2 DEF KeptTurns, Gone
    <2>2. Flow(0, {}) /\ InStep(0, {})
      BY <1>0, <1>2, <2>1, StillFlows DEF Quiet, KeptTurns
    <2> QED BY <1>0, <1>1, <2>2, FlowKeeps
  <1>3. ASSUME NEW e \in EntryIds, NEW y, entries' = Changed(entries, e, y), Flows(entries[e], y, {}),
               Plain => Tidy(y)
        PROVE  MsgInv'
    <2>1. Flow(e, {}) /\ InStep(e, {})
      BY <1>0, <1>1, <1>3, EntryFlows
    <2> QED BY <1>0, <1>1, <2>1, FlowKeeps
  <1> QED BY <1>2, <1>3

LEMMA QuietedKeep == ASSUME BufferInv, Quieted(turns') PROVE KeptTurns
  BY DEF Quieted, TurnMove, KeptTurns, TurnIds

\* The owner of a turn ends, and hands its entry on.
LEMMA FinishPlaces ==
    ASSUME Placing, Quiet, NEW t \in TurnIds, NEW T, Touches(T, t), turns[t].owner # "done", Finish(t, T)
    PROVE  MsgInv'
  <1> DEFINE last == Over(T[t])
             e == turns[t].entry
             after == IF T[t].by = "timer" THEN TimerHandOff(entries[e], T[t].gen)
                      ELSE DirectHandOff(entries[e], T[t].gen)
  <1>0. /\ BufferInv /\ Single /\ MsgInv
        /\ IsSequence(T) /\ TurnIds = 1 .. Len(T) /\ t \in 1 .. Len(T) /\ DOMAIN T = 1 .. Len(T)
        /\ TurnShape(turns[t]) /\ turns[t].entry <= Len(entries)
    BY TurnsAre DEF Touches, TurnIds, IsSequence, Placing
  <1>1. /\ last.stage = turns[t].stage /\ last.items = turns[t].items
        /\ last.entry = turns[t].entry /\ last.gen = turns[t].gen
    BY <1>0 DEF Touches, Over, TurnShape, NewTurn
  <1>2. turns' = Changed(T, t, last) /\ slot' \in {0, slot}
    BY <1>0 DEF Finish, Changed, Over
  <1> HIDE DEF last
  <1>3. /\ Len(Changed(T, t, last)) = Len(T) /\ Changed(T, t, last)[t] = last
        /\ \A u \in 1 .. Len(T) : u # t => Changed(T, t, last)[u] = T[u]
    BY <1>0, Replacing
  <1>4. KeptTurns
    <2>1. TurnIds' = TurnIds /\ turns'[t] = last /\ \A u \in TurnIds : u # t => turns'[u] = turns[u]
      BY <1>0, <1>2, <1>3 DEF Touches, TurnIds
    <2> QED BY <1>1, <2>1 DEF KeptTurns
  <1>5. CASE e = 0
    <2>1. entries' = entries
      BY <1>5 DEF Finish, Touches
    <2> QED BY <1>2, <1>4, <2>1, MovesKeep
  <1>6. CASE e # 0
    <2>1. e \in EntryIds /\ T[t].gen = turns[t].gen
      BY <1>0, <1>6, EntriesAre DEF EntryIds, TurnShape, Touches
    <2>2. /\ EntryShape(entries[e]) /\ Neat(entries[e]) /\ entries[e].processing
          /\ T[t].gen = entries[e].current /\ (Plain => Tidy(entries[e]))
      <3>1. entries[e].processing /\ entries[e].turn = t
        BY <1>0, <1>6 DEF BufferInv, Owned
      <3>2. entries[e].turn # 0 => IsTurnOf(entries[e].turn, e, entries[e].current)
        BY <1>0, <2>1, KnownEntry
      <3>3. t # 0
        BY DEF TurnIds
      <3> QED BY <1>0, <2>1, <3>1, <3>2, <3>3, KnownEntry, TidyEntry DEF IsTurnOf, MsgInv, Placed
    <2>3. Flows(entries[e], after, {}) /\ (Plain => Tidy(after))
      <3>1. /\ Flows(entries[e], TimerHandOff(entries[e], T[t].gen), {})
            /\ Flows(entries[e], DirectHandOff(entries[e], T[t].gen), {})
        BY <1>0, <2>2, TimerHandOffFlows, DirectHandOffFlows
      <3>2. Plain => /\ Tidy(TimerHandOff(entries[e], T[t].gen))
                     /\ Tidy(DirectHandOff(entries[e], T[t].gen))
        BY <2>2, TidyHandOff
      <3> QED BY <3>1, <3>2
    <2>4. entries' = Changed(entries, e, after)
      <3>1. DOMAIN entries = 1 .. Len(entries)
        BY <1>0, <2>1, KnownEntry
      <3> QED BY <1>6, <2>1, <3>1 DEF Finish, Touches, Changed, EntryIds
    <2> HIDE DEF after, e
    <2> QED BY <1>2, <1>4, <2>1, <2>3, <2>4, MovesKeep
  <1> QED BY <1>5, <1>6

\* From x to y a turn keeps what it is, what it has and how far it got.
Alike(x, y) ==
    /\ DOMAIN y = DOMAIN x /\ y.fenced \in BOOLEAN /\ y.by = x.by
    /\ y.entry = x.entry /\ y.gen = x.gen /\ y.stage = x.stage /\ y.items = x.items

\* An owner that ends hands its entry on, or goes on; one that ends in its exception
\* handler does neither.
LEMMA OwnerKinds ==
    ASSUME BufferInv, NEW t \in TurnIds,
           \/ AdmissionTimeout(t) \/ Returns(t) \/ Fails(t) \/ Timeout(t)
           \/ RecordWritten(t) \/ OwnerCancelled(t)
    PROVE  /\ turns[t].owner # "done"
           /\ \/ \E T : Touches(T, t) /\ Finish(t, T)
              \/ \E new : /\ turns' = Changed(turns, t, new) /\ Alike(turns[t], new)
                          /\ UNCHANGED <<entries, slot>>
                          /\ \/ new.owner # "done" /\ new.cancelled = turns[t].cancelled
                             \/ turns[t].cancelled /\ turns[t].by = "direct"
  <1>0. /\ IsSequence(turns) /\ TurnIds = 1 .. Len(turns) /\ t \in 1 .. Len(turns)
        /\ DOMAIN turns = 1 .. Len(turns) /\ TurnShape(turns[t])
    BY TurnsAre DEF TurnIds, IsSequence
  <1>d. turns[t].owner # "done"
    BY DEF AdmissionTimeout, Returns, Fails, Timeout, RecordWritten, OwnerCancelled, Waiting
  <1>t. ASSUME NEW new, Alike(turns[t], new) PROVE Touches(Changed(turns, t, new), t)
    <2>1. /\ IsSequence(Changed(turns, t, new)) /\ Len(Changed(turns, t, new)) = Len(turns)
          /\ Changed(turns, t, new)[t] = new
          /\ \A u \in 1 .. Len(turns) : u # t => Changed(turns, t, new)[u] = turns[u]
      BY <1>0, Replacing
    <2> QED BY <1>0, <1>t, <2>1 DEF Touches, Alike
  <1>1. CASE AdmissionTimeout(t)
    <2> DEFINE new == [turns[t] EXCEPT !.filed = "recoverable"]
    <2>1. Alike(turns[t], new)
      BY <1>0 DEF Alike, TurnShape, NewTurn
    <2>2. Finish(t, Changed(turns, t, new))
      <3>1. [turns EXCEPT ![t].filed = "recoverable"] = Changed(turns, t, new)
        BY <1>0 DEF Changed
      <3> QED BY <3>1, <1>1 DEF AdmissionTimeout
    <2> HIDE DEF new
    <2> QED BY <1>d, <1>t, <2>1, <2>2
  <1>2. CASE Returns(t) \/ RecordWritten(t)
    <2>1. Finish(t, turns)
      BY <1>2 DEF Returns, RecordWritten
    <2> QED BY <1>d, <2>1, StaysTouched
  <1>3. CASE Fails(t)
    <2>1. CASE Finish(t, turns)
      BY <1>d, <2>1, StaysTouched
    <2>2. CASE Files(t, turns)
      <3> DEFINE new == [turns[t] EXCEPT !.owner = "record", !.filed = FailureClass(turns[t])]
      <3>1. /\ Alike(turns[t], new) /\ new.owner # "done" /\ new.cancelled = turns[t].cancelled
        BY <1>0 DEF Alike, TurnShape, NewTurn
      <3>2. turns' = Changed(turns, t, new) /\ UNCHANGED <<entries, slot>>
        BY <1>0, <2>2 DEF Files, Changed
      <3> HIDE DEF new
      <3> QED BY <1>d, <3>1, <3>2
    <2> QED BY <1>3, <2>1, <2>2 DEF Fails
  <1>4. CASE Timeout(t)
    <2> DEFINE new == [turns[t] EXCEPT !.fenced = TRUE]
               last == [turns[t] EXCEPT !.fenced = TRUE, !.owner = "record",
                                        !.filed = FailureClass(turns[t])]
    <2>1. CASE Finish(t, [turns EXCEPT ![t].fenced = TRUE])
      <3>1. Alike(turns[t], new)
        BY <1>0 DEF Alike, TurnShape, NewTurn
      <3>2. [turns EXCEPT ![t].fenced = TRUE] = Changed(turns, t, new)
        BY <1>0 DEF Changed
      <3> HIDE DEF new
      <3> QED BY <1>d, <1>t, <2>1, <3>1, <3>2
    <2>2. CASE Files(t, [turns EXCEPT ![t].fenced = TRUE])
      <3>1. Alike(turns[t], last) /\ last.owner # "done" /\ last.cancelled = turns[t].cancelled
        BY <1>0 DEF Alike, TurnShape, NewTurn
      <3>2. turns' = Changed(turns, t, last) /\ UNCHANGED <<entries, slot>>
        BY <1>0, <2>2 DEF Files, Changed
      <3> HIDE DEF last
      <3> QED BY <1>d, <3>1, <3>2
    <2> QED BY <1>4, <2>1, <2>2 DEF Timeout
  <1>5. CASE OwnerCancelled(t)
    <2> DEFINE new == [turns[t] EXCEPT !.cancelled = FALSE,
                                       !.fenced = @ \/ turns[t].owner = "run"]
               last == [turns[t] EXCEPT !.cancelled = FALSE,
                                        !.fenced = @ \/ turns[t].owner = "run", !.owner = "done"]
               T == [turns EXCEPT ![t].cancelled = FALSE,
                                  ![t].fenced = @ \/ turns[t].owner = "run"]
    <2>1. CASE Finish(t, T)
      <3>1. Alike(turns[t], new)
        BY <1>0 DEF Alike, TurnShape, NewTurn
      <3>2. T = Changed(turns, t, new)
        BY <1>0 DEF Changed
      <3> HIDE DEF new, T
      <3> QED BY <1>d, <1>t, <2>1, <3>1, <3>2
    <2>2. CASE /\ turns[t].by = "direct" /\ turns' = [T EXCEPT ![t].owner = "done"]
               /\ UNCHANGED <<entries, slot>>
      <3>1. Alike(turns[t], last)
        BY <1>0 DEF Alike, TurnShape, NewTurn
      <3>2. turns' = Changed(turns, t, last) /\ turns[t].cancelled
        BY <1>0, <1>5, <2>2 DEF Changed, OwnerCancelled
      <3> HIDE DEF last
      <3> QED BY <1>d, <2>2, <3>1, <3>2
    <2> QED BY <1>5, <2>1, <2>2 DEF OwnerCancelled
  <1> QED BY <1>1, <1>2, <1>3, <1>4, <1>5

\* One turn changes, and keeps what it has.
LEMMA AlikeKeeps ==
    ASSUME BufferInv, NEW t \in TurnIds, NEW new, turns' = Changed(turns, t, new), Alike(turns[t], new)
    PROVE  /\ KeptTurns /\ turns'[t] = new
           /\ \A u \in TurnIds : u # t => turns'[u] = turns[u]
  <1>1. IsSequence(turns) /\ TurnIds = 1 .. Len(turns)
    BY TurnsAre DEF TurnIds
  <1>2. /\ Len(Changed(turns, t, new)) = Len(turns) /\ Changed(turns, t, new)[t] = new
        /\ \A u \in 1 .. Len(turns) : u # t => Changed(turns, t, new)[u] = turns[u]
    BY <1>1, Replacing
  <1> QED BY <1>1, <1>2 DEF KeptTurns, TurnIds, Alike

LEMMA OwnerPlaces ==
    ASSUME Placing, NEW t \in TurnIds,
           \/ AdmissionTimeout(t) \/ Returns(t) \/ Fails(t) \/ Timeout(t)
           \/ RecordWritten(t) \/ OwnerCancelled(t)
    PROVE  MsgInv'
  <1>0. BufferInv /\ Quiet
    BY DEF Placing, Quiet, AdmissionTimeout, Returns, Fails, Timeout, RecordWritten, OwnerCancelled
  <1>1. /\ turns[t].owner # "done"
        /\ \/ \E T : Touches(T, t) /\ Finish(t, T)
           \/ \E new : /\ turns' = Changed(turns, t, new) /\ Alike(turns[t], new)
                       /\ UNCHANGED <<entries, slot>>
    BY <1>0, OwnerKinds
  <1>2. ASSUME NEW T, Touches(T, t), Finish(t, T) PROVE MsgInv'
    BY <1>0, <1>1, <1>2, FinishPlaces
  <1>3. ASSUME NEW new, turns' = Changed(turns, t, new), Alike(turns[t], new), UNCHANGED <<entries, slot>>
        PROVE  MsgInv'
    BY <1>0, <1>3, AlikeKeeps, MovesKeep
  <1> QED BY <1>1, <1>2, <1>3

\* What a step that takes a message up starts from; and the message.
Coming   == Placing /\ arrived' \in 0 .. Events /\ arrived <= arrived' /\ answers' = answers
Comes(m) == /\ m \in 1 .. arrived' /\ Nowhere(m) /\ \A j \in joins' : j.msg # m
            /\ Plain => arrived < m

LEMMA ComesOf ==
    ASSUME Coming, NEW m, Comes(m)
    PROVE  m \in Msgs /\ {m} \subseteq 1 .. arrived' /\ \A e \in EntryIds : m \notin Stock(entries[e])
  <1>1. m \in Msgs
    BY ConstantsAssumption DEF Coming, Comes, Msgs
  <1> QED BY <1>1 DEF Comes, Nowhere

\* An entry takes it up.
LEMMA EntryKeeps ==
    ASSUME Coming, KeptTurns, joins' \subseteq joins, NEW m, Comes(m), NEW e \in EntryIds, NEW y,
           entries' = Changed(entries, e, y), Flows(entries[e], y, {m}),
           slot' \in {0, slot}, Plain => Tidy(y)
    PROVE  MsgInv'
  <1>1. BufferInv /\ BufferInv' /\ MsgInv /\ Single /\ session' = session
    BY DEF Coming, Placing
  <1>2. NewWait /\ NoneSends
    BY <1>1, KeptSendsNone DEF NewWait, Coming, MsgInv, Queueing
  <1>3. {m} \subseteq 1 .. arrived' /\ \A k \in {m} : Nowhere(k) /\ \A j \in joins' : j.msg # k
    BY DEF Comes
  <1>n. Plain => \A k \in {m} : k \in Nat /\ arrived < k
    BY ConstantsAssumption DEF Comes, Coming
  <1>4. Flow(e, {m}) /\ InStep(e, {m})
    BY <1>1, <1>3, <1>n, EntryFlows DEF Coming
  <1> QED BY <1>1, <1>2, <1>4, FlowKeeps DEF Coming

LEMMA JoinPlaces ==
    ASSUME Coming, supplements, NEW e \in EntryIds, NEW m, Comes(m), NEW T, Quieted(T),
           Join(e, m, T), joins' \subseteq joins
    PROVE  MsgInv'
  <1> DEFINE x == entries[e]
             y == Superseding(x, x.current, <<m>>)
  <1>0. BufferInv /\ MsgInv /\ Single /\ EntryShape(x) /\ Neat(x) /\ DOMAIN entries = EntryIds
    BY KnownEntry DEF Coming, Placing, MsgInv, Placed
  <1>1. Flows(x, y, {m})
    BY <1>0, ComesOf, SupersedingFlows
  <1>2. entries' = Changed(entries, e, y) /\ turns' = CancelActive(T, x) /\ slot' = slot /\ ~ Plain
    BY <1>0 DEF Join, Changed, Plain
  <1> HIDE DEF y
  <1>3. KeptTurns
    BY <1>0, <1>2, CancelIsQuiet, QuietedKeep
  <1> QED BY <1>1, <1>2, <1>3, EntryKeeps

LEMMA WaitPlaces ==
    ASSUME Coming, ~ Plain, NEW e \in EntryIds, NEW m, Comes(m), Wait(e, m), joins' \subseteq joins
    PROVE  MsgInv'
  <1> DEFINE x == entries[e]
             line == Append(x.pending, m)
             y == [x EXCEPT !.pending = line]
  <1>0. BufferInv /\ MsgInv /\ Single /\ EntryShape(x) /\ Neat(x) /\ DOMAIN entries = EntryIds
    BY KnownEntry DEF Coming, Placing, MsgInv, Placed
  <1>1. entries' = Changed(entries, e, y) /\ turns' = turns /\ slot' = slot
    BY <1>0 DEF Wait, Changed
  <1>2. /\ LikeTurn(x, y) /\ y.processing = x.processing /\ y.active = x.active
        /\ y.items = x.items /\ y.pending = line /\ y.related = x.related
    BY <1>0 DEF LikeTurn, EntryShape, NewEntry
  <1> HIDE DEF y
  <1>3. Flows(x, y, {m})
    BY <1>0, <1>2, ComesOf, PutFlows
  <1>4. KeptTurns
    BY <1>1 DEF KeptTurns, TurnIds
  <1> QED BY <1>1, <1>3, <1>4, EntryKeeps

\* A handler gets the commit lock it waited for.
LEMMA JoinResumesPlaces == ASSUME Placing, JoinResumes PROVE MsgInv'
  <1>1. PICK j \in joins :
            /\ joins' = joins \ {j}
            /\ IF Safe(turns[j.turn], entries[j.entry])
               THEN Join(j.entry, j.msg, [turns EXCEPT ![j.turn].fenced = TRUE])
               ELSE Wait(j.entry, j.msg)
    BY DEF JoinResumes
  <1>2. j.turn \in TurnIds /\ j.entry \in EntryIds /\ BufferInv
    BY DEF BufferInv, Lineage, Placing
  <1>3. Coming
    <2>1. arrived' \in 0 .. Events /\ arrived \in Nat /\ arrived' = arrived /\ answers' = answers
      BY ConstantsAssumption DEF Placing, MsgInv, JoinResumes
    <2> QED BY <2>1 DEF Coming
  <1>4. Comes(j.msg) /\ supplements /\ ~ Plain
    BY <1>1 DEF Comes, Placing, MsgInv, Queueing, JoinResumes, Plain
  <1>5. CASE Safe(turns[j.turn], entries[j.entry])
    <2>1. Quieted(Fenced(j.turn))
      BY <1>2, FencedIsQuiet
    <2>2. Join(j.entry, j.msg, Fenced(j.turn))
      BY <1>1, <1>5 DEF Fenced
    <2> QED BY <1>1, <1>2, <1>3, <1>4, <2>1, <2>2, JoinPlaces
  <1>6. CASE ~ Safe(turns[j.turn], entries[j.entry])
    BY <1>1, <1>2, <1>3, <1>4, <1>6, WaitPlaces
  <1> QED BY <1>5, <1>6

\* A private event comes while a turn of its entry is processing.
LEMMA InTurnPlaces ==
    ASSUME Coming, arrived' = arrived + 1, NEW e \in EntryIds, NEW m, m \in 1 .. arrived', Nowhere(m),
           \A j \in joins : j.msg # m, ~ Plain, ArriveInTurn(e, m), entries[e].processing
    PROVE  MsgInv'
  <1> DEFINE t == entries[e].turn
             can == CanReplace(entries[e], entries[e].current, Safe(turns[t], entries[e]))
  <1>0. BufferInv /\ MsgInv /\ Single /\ Neat(entries[e]) /\ session' = session
    BY DEF Coming, Placing, MsgInv, Placed
  <1>1. t \in TurnIds
    BY <1>0, KnownEntry DEF IsTurnOf
  <1>2. joins' \subseteq joins => Comes(m)
    BY DEF Comes
  <1>3. CASE ReplacementPending(entries[e], entries[e].current) /\ Join(e, m, turns) /\ UNCHANGED joins
    <2>1. supplements
      BY <1>0, <1>3 DEF ReplacementPending, Neat
    <2>2. Quieted(turns)
      BY <1>0, TurnsStay
    <2> QED BY <1>2, <1>3, <2>1, <2>2, JoinPlaces
  <1>4. CASE can /\ Join(e, m, [turns EXCEPT ![t].fenced = TRUE]) /\ UNCHANGED joins
    <2>1. Quieted(Fenced(t)) /\ Join(e, m, Fenced(t))
      BY <1>0, <1>1, <1>4, FencedIsQuiet DEF Fenced
    <2>2. supplements
      BY <1>4 DEF CanReplace
    <2> QED BY <1>2, <1>4, <2>1, <2>2, JoinPlaces
  <1>5. CASE /\ can /\ joins' = joins \cup {[msg |-> m, entry |-> e, turn |-> t]}
             /\ UNCHANGED <<entries, slot, turns>>
    <2>1. NewWait
      BY <1>5 DEF NewWait, CanReplace
    <2>2. \A u \in TurnIds : turns'[u].items = turns[u].items /\ (Gone(u) => Gone(u)')
      BY <1>5 DEF Gone
    <2>3. Flow(0, {}) /\ InStep(0, {})
      BY <1>0, <1>5, <2>2, StillFlows DEF TurnIds
    <2>4. NoneSends
      BY <1>5 DEF NoneSends, Coming, Sent, TurnIds
    <2> QED BY <1>0, <2>1, <2>3, <2>4, FlowKeeps DEF Coming, Placing
  <1>6. CASE Wait(e, m) /\ UNCHANGED joins
    BY <1>2, <1>6, WaitPlaces
  <1> QED BY <1>3, <1>4, <1>5, <1>6 DEF ArriveInTurn

\* The delay of a timer, or the window, is over.
LEMMA ClockPlaces ==
    ASSUME Placing, NEW e \in EntryIds, TimerFires(e) \/ WindowCloses(e)
    PROVE  MsgInv'
  <1> DEFINE x == entries[e]
  <1>0. BufferInv /\ EntryShape(x) /\ Neat(x) /\ DOMAIN entries = EntryIds
    BY KnownEntry DEF Placing, MsgInv, Placed
  <1>1. Quiet /\ turns' = turns /\ slot' = slot /\ (Plain => Tidy(x))
    BY TidyEntry DEF Quiet, TimerFires, WindowCloses, ghosts, Placing
  <1>2. KeptTurns
    BY <1>1 DEF KeptTurns, TurnIds
  <1>3. ASSUME NEW y, entries' = Changed(entries, e, y), LikeLists(x, y), LikeTurn(x, y) PROVE MsgInv'
    <2>1. Flows(x, y, {}) /\ (Plain => Tidy(y))
      BY <1>0, <1>1, <1>3, FlowsNot, TidyStays
    <2> QED BY <1>1, <1>2, <1>3, <2>1, MovesKeep
  <1>4. CASE TimerFires(e)
    <2> DEFINE at == IF slot # e \/ entries[e].processing THEN "off" ELSE "gate"
               y == [x EXCEPT !.timer = at]
    <2>1. entries' = Changed(entries, e, y)
      BY <1>0, <1>4 DEF TimerFires, Changed
    <2> HIDE DEF at
    <2>2. LikeLists(x, y) /\ LikeTurn(x, y)
      BY <1>0 DEF LikeLists, LikeTurn, EntryShape, NewEntry
    <2> HIDE DEF y
    <2> QED BY <2>1, <2>2, <1>3
  <1>5. CASE WindowCloses(e)
    <2> DEFINE y == [x EXCEPT !.window = "shut"]
    <2>1. entries' = Changed(entries, e, y) /\ supplements
      BY <1>0, <1>5 DEF WindowCloses, Changed, Neat
    <2>2. LikeLists(x, y) /\ LikeTurn(x, y)
      BY <1>0, <2>1 DEF LikeLists, LikeTurn, EntryShape, NewEntry
    <2> HIDE DEF y
    <2> QED BY <2>1, <2>2, <1>3
  <1> QED BY <1>4, <1>5

\* A turn begins, with messages F that come or that entry e0 had waiting.
Beginning(turn, e0, F) ==
    /\ joins' = joins /\ turns' = Append(turns, turn)
    /\ turn.stage = "none" /\ turn.items \in Seq(Msgs) /\ \A m \in F : Comes(m)
    /\ EntryIds \subseteq EntryIds'
    /\ \A e \in EntryIds' : e # e0 => e \in EntryIds /\ entries'[e] = entries[e]
    /\ e0 \in EntryIds => entries[e0].superseded <= entries'[e0].superseded
    /\ \A m \in Elems(turn.items) : m \in F \/ (e0 \in EntryIds /\ m \in Load(entries[e0]))
    /\ e0 \in EntryIds' =>
          LET y == entries'[e0]
          IN  /\ Neat(y) /\ y.processing /\ y.active = turn.items /\ y.turn = Len(turns) + 1
              /\ Apart(Elems(turn.items), Load(y))
              /\ \A m \in Load(y) : e0 \in EntryIds /\ m \in Load(entries[e0])
              /\ Plain => Tidy(y)
    /\ Plain => slot' = slot
    /\ Plain /\ turn.entry # 0 =>
          e0 = slot /\ e0 \in EntryIds' /\ Below(Elems(turn.items), Load(entries'[e0]))

LEMMA BeginsPlaces ==
    ASSUME Coming, NEW turn, NEW e0, NEW F, Beginning(turn, e0, F)
    PROVE  MsgInv'
  <1> DEFINE n == Len(turns) + 1
             y == entries'[e0]
  <1>0. BufferInv /\ BufferInv' /\ MsgInv /\ Single /\ session' = session
    BY DEF Coming, Placing
  <1>b. /\ joins' = joins /\ turns' = Append(turns, turn)
        /\ turn.stage = "none" /\ turn.items \in Seq(Msgs) /\ \A m \in F : Comes(m)
        /\ EntryIds \subseteq EntryIds'
        /\ \A e \in EntryIds' : e # e0 => e \in EntryIds /\ entries'[e] = entries[e]
        /\ e0 \in EntryIds => entries[e0].superseded <= entries'[e0].superseded
        /\ \A m \in Elems(turn.items) : m \in F \/ (e0 \in EntryIds /\ m \in Load(entries[e0]))
    BY DEF Beginning
  <1>1. /\ Len(turns) \in Nat /\ Len(turns') = n /\ turns'[n] = turn
        /\ \A t \in TurnIds : turns'[t] = turns[t]
    BY <1>0, <1>b, TurnsAre, Appended DEF TurnIds
  <1>2. /\ TurnIds \subseteq TurnIds' /\ n \in TurnIds' /\ n \notin TurnIds
        /\ \A t \in TurnIds' : t \in TurnIds \/ t = n
    BY <1>1 DEF TurnIds
  <1> HIDE DEF n
  <1>3. NewWait /\ NoneSends
    <2>1. NewWait
      BY <1>0, <1>b DEF NewWait, MsgInv, Queueing
    <2>2. NoneSends
      BY <1>1, <1>2, <1>b DEF NoneSends, Sent, Coming
    <2> QED BY <2>1, <2>2
  <1>4. ASSUME NEW t \in TurnIds, Gone(t) PROVE Gone(t)'
    <2>1. turns[t].entry # 0 /\ turns[t].stage = "none" /\ turns[t].gen <= entries[turns[t].entry].superseded
      BY <1>4 DEF Gone
    <2>2. turns[t].entry \in EntryIds /\ turns[t].gen \in Nat
      <3>1. TurnShape(turns[t]) /\ turns[t].entry <= Len(entries) /\ Len(entries) \in Nat
        BY <1>0, TurnsAre, EntriesAre
      <3> QED BY <2>1, <3>1 DEF TurnShape, EntryIds
    <2>3. entries[turns[t].entry].superseded \in Nat /\ entries'[turns[t].entry].superseded \in Nat
      BY <1>0, <1>b, <2>2 DEF EntryShape, BufferInv, Shapes
    <2>4. entries[turns[t].entry].superseded <= entries'[turns[t].entry].superseded
      <3>1. CASE turns[t].entry = e0
        BY <1>b, <2>2, <3>1
      <3>2. CASE turns[t].entry # e0
        BY <1>b, <2>2, <2>3, <3>2
      <3> QED BY <3>1, <3>2
    <2>5. turns'[t] = turns[t]
      BY <1>1
    <2>6. turns[t].gen <= entries'[turns[t].entry].superseded
      BY <2>1, <2>2, <2>3, <2>4
    <2> QED BY <2>1, <2>5, <2>6 DEF Gone
  <1>5. F \subseteq 1 .. arrived' /\ \A m \in F : Nowhere(m) /\ \A j \in joins' : j.msg # m
    BY <1>b DEF Comes
  <1>6. ASSUME e0 \in EntryIds'
        PROVE  /\ Neat(y) /\ y.processing /\ y.active = turn.items /\ y.turn = n
               /\ Apart(Elems(turn.items), Load(y))
               /\ \A m \in Load(y) : e0 \in EntryIds /\ m \in Load(entries[e0])
    BY <1>6 DEF Beginning, n
  <1>7. ASSUME e0 \in EntryIds'
        PROVE  /\ Neat(y)
               /\ y.processing => Elems(y.active) = Elems(turns'[y.turn].items)
               /\ \A m \in Stock(y) : m \in F \/ (e0 \in EntryIds /\ m \in Stock(entries[e0]))
               /\ \A m \in Load(y) : \/ m \in F
                                     \/ e0 \in EntryIds /\ m \in Load(entries[e0])
                                     \/ /\ e0 \in EntryIds /\ m \in Elems(entries[e0].active)
                                        /\ \E t \in TurnIds : t = entries[e0].turn /\ Gone(t)'
               /\ y.active # <<>> => \/ y.turn \in TurnIds' /\ y.turn \notin TurnIds
                                     \/ /\ e0 \in EntryIds /\ y.turn = entries[e0].turn
                                        /\ Elems(y.active) = Elems(entries[e0].active)
    <2>1. Elems(y.active) = Elems(turns'[y.turn].items)
      BY <1>1, <1>6, <1>7
    <2>2. y.turn \in TurnIds' /\ y.turn \notin TurnIds
      BY <1>2, <1>6, <1>7
    <2>3. \A m \in Load(y) : e0 \in EntryIds /\ m \in Load(entries[e0])
      BY <1>6, <1>7
    <2>4. ASSUME NEW m \in Stock(y) PROVE m \in F \/ (e0 \in EntryIds /\ m \in Stock(entries[e0]))
      <3>1. m \in Load(y) \/ m \in Elems(turn.items)
        BY <1>6, <1>7, <2>4 DEF Stock
      <3> QED BY <1>b, <2>3, <3>1 DEF Stock
    <2>5. Neat(y)
      BY <1>6, <1>7
    <2> HIDE DEF y
    <2> QED BY <2>1, <2>2, <2>3, <2>4, <2>5
  <1>8. \A t \in TurnIds : turns'[t].items = turns[t].items /\ (Gone(t) => Gone(t)')
    BY <1>1, <1>4
  <1>9. ASSUME NEW i \in TurnIds', i \notin TurnIds
        PROVE  /\ turns'[i].items \in Seq(Msgs)
               /\ \A m \in Elems(turns'[i].items) : m \in F \/ (e0 \in EntryIds /\ m \in Load(entries[e0]))
               /\ e0 \in EntryIds' => /\ Apart(Elems(turns'[i].items), Load(y))
                                      /\ i # y.turn => Apart(Elems(turns'[i].items), Elems(y.active))
    <2>1. i = n /\ turns'[i] = turn
      BY <1>1, <1>2, <1>9
    <2> HIDE DEF y
    <2> QED BY <1>6, <1>b, <2>1
  <1>10. /\ arrived <= arrived'
         /\ \A t, u \in TurnIds' : t = u \/ t \in TurnIds \/ u \in TurnIds
    BY <1>2 DEF Coming
  <1>s. ASSUME Plain
        PROVE  /\ slot' = slot /\ (e0 \in EntryIds' => Tidy(y))
               /\ turn.entry # 0 =>
                     e0 = slot /\ e0 \in EntryIds' /\ Below(Elems(turn.items), Load(y))
    BY <1>s DEF Beginning
  <1>13. InStep(e0, F)
    <2>1. ASSUME Plain, NEW i \in TurnIds', i \notin TurnIds, turns'[i].entry # 0
          PROVE  /\ e0 = slot /\ slot' = slot /\ y.turn = i
                 /\ Below(Elems(turns'[i].items), Load(y))
      <3>1. i = n /\ turns'[i] = turn
        BY <1>1, <1>2, <2>1
      <3>2. e0 = slot /\ e0 \in EntryIds' /\ Below(Elems(turn.items), Load(y)) /\ slot' = slot
        BY <1>s, <2>1, <3>1
      <3>3. y.turn = n
        BY <1>6, <3>2
      <3> QED BY <3>1, <3>2, <3>3
    <2>2. ASSUME Plain
          PROVE  /\ \A m \in F : m \in Nat /\ arrived < m
                 /\ \A t \in TurnIds : turns'[t].entry = turns[t].entry
      <3>1. ASSUME NEW m \in F PROVE m \in Nat /\ arrived < m
        <4>1. Comes(m)
          BY <1>b
        <4>2. m \in 1 .. arrived' /\ arrived < m
          BY <2>2, <4>1 DEF Comes
        <4> QED BY <4>2
      <3>2. \A t \in TurnIds : turns'[t].entry = turns[t].entry
        BY <1>1
      <3> QED BY <3>1, <3>2
    <2> QED BY <1>s, <2>1, <2>2 DEF InStep
  <1> HIDE DEF y
  <1>11. y = entries'[e0]
    BY DEF y
  <1>12. Flow(e0, F)
    BY <1>2, <1>b, <1>5, <1>7, <1>8, <1>9, <1>10, <1>11 DEF Flow
  <1> QED BY <1>0, <1>3, <1>12, <1>13, FlowKeeps DEF Coming

\* A group's entry is made.
LEMMA MakesPlaces ==
    ASSUME Coming, joins' = joins, turns' = turns, NEW m, Comes(m), NEW y, Neat(y), ~ y.processing,
           Stock(y) \subseteq {m}, entries' = Append(entries, y), slot = 0,
           slot' = Len(entries) + 1, Tidy(y)
    PROVE  MsgInv'
  <1> DEFINE e0 == Len(entries) + 1
  <1>0. BufferInv /\ BufferInv' /\ MsgInv /\ Single /\ session' = session
    BY DEF Coming, Placing
  <1>1. /\ Len(entries) \in Nat /\ Len(entries') = e0 /\ entries'[e0] = y
        /\ \A e \in EntryIds : entries'[e] = entries[e]
    BY <1>0, EntriesAre, Appended DEF EntryIds
  <1>2. /\ EntryIds \subseteq EntryIds' /\ e0 \in EntryIds' /\ e0 \notin EntryIds
        /\ \A e \in EntryIds' : e # e0 => e \in EntryIds /\ entries'[e] = entries[e]
    BY <1>1 DEF EntryIds
  <1>s. slot' = e0
    OBVIOUS
  <1> HIDE DEF e0
  <1>3. NewWait /\ NoneSends
    BY <1>0 DEF NewWait, MsgInv, Queueing, NoneSends, Sent, Coming, TurnIds
  <1>4. ASSUME NEW t \in TurnIds PROVE turns'[t].items = turns[t].items /\ (Gone(t) => Gone(t)')
    <2>1. turns[t].entry # 0 => turns[t].entry \in EntryIds
      <3>1. TurnShape(turns[t]) /\ turns[t].entry <= Len(entries) /\ Len(entries) \in Nat
        BY <1>0, TurnsAre, EntriesAre
      <3> QED BY <3>1 DEF TurnShape, EntryIds
    <2> QED BY <1>1, <2>1 DEF Gone
  <1>5. /\ {m} \subseteq 1 .. arrived' /\ \A k \in {m} : Nowhere(k) /\ \A j \in joins' : j.msg # k
        /\ arrived <= arrived' /\ TurnIds' = TurnIds
    BY DEF Comes, Coming, TurnIds
  <1>6. /\ \A k \in Stock(y) : k \in {m}
        /\ \A k \in Load(y) : k \in {m}
        /\ y.active = <<>>
    BY DEF Neat, Stock
  <1>7. entries'[e0] = y /\ \A t \in TurnIds' : t \in TurnIds
    BY <1>1, <1>5
  <1>8. /\ Neat(y)
        /\ y.processing => Elems(y.active) = Elems(turns'[y.turn].items)
        /\ \A k \in Stock(y) : k \in {m} \/ (e0 \in EntryIds /\ k \in Stock(entries[e0]))
        /\ \A k \in Load(y) : \/ k \in {m}
                              \/ e0 \in EntryIds /\ k \in Load(entries[e0])
                              \/ /\ e0 \in EntryIds /\ k \in Elems(entries[e0].active)
                                 /\ \E t \in TurnIds : t = entries[e0].turn /\ Gone(t)'
        /\ y.active # <<>> => \/ y.turn \in TurnIds' /\ y.turn \notin TurnIds
                              \/ /\ e0 \in EntryIds /\ y.turn = entries[e0].turn
                                 /\ Elems(y.active) = Elems(entries[e0].active)
    BY <1>6
  <1>9. Flow(e0, {m})
    BY <1>2, <1>4, <1>5, <1>7, <1>8 DEF Flow
  <1>10. InStep(e0, {m})
    <2>1. Plain => \A k \in {m} : k \in Nat /\ arrived < k
      BY ConstantsAssumption DEF Comes, Coming
    <2> QED BY <1>2, <1>7, <1>s, <2>1 DEF InStep
  <1> QED BY <1>0, <1>3, <1>9, <1>10, FlowKeeps DEF Coming

\* A message is put into an entry, and its timer set.
LEMMA PutPlaces ==
    ASSUME Coming, KeptTurns, joins' = joins, NEW m, Comes(m), NEW e \in EntryIds, NEW y, EntryShape(y),
           LikeTurn(entries[e], y), y.processing = entries[e].processing, y.active = entries[e].active,
           y.related = entries[e].related,
           \/ /\ y.items = Append(entries[e].items, m) /\ y.pending = entries[e].pending
              /\ ~ entries[e].processing
           \/ /\ y.items = entries[e].items /\ y.pending = Append(entries[e].pending, m)
              /\ entries[e].processing,
           entries' = Changed(entries, e, Armed(y)), slot' = slot
    PROVE  MsgInv'
  <1>1. EntryShape(entries[e]) /\ Neat(entries[e])
    BY KnownEntry DEF Coming, Placing, MsgInv, Placed
  <1>2. Flows(entries[e], y, {m})
    BY <1>1, ComesOf, PutFlows
  <1>3. Flows(y, Armed(y), {}) /\ EntryShape(Armed(y))
    BY <1>2, ArmedFlows DEF Flows
  <1>4. Flows(entries[e], Armed(y), {m})
    BY <1>1, <1>2, <1>3, FlowsTwice
  <1>5. ASSUME Plain PROVE Tidy(Armed(y))
    <2>1. Tidy(entries[e]) /\ Stock(entries[e]) \subseteq 1 .. arrived /\ arrived \in Nat /\ m \in Msgs
      BY <1>5, TidyEntry, ComesOf, ConstantsAssumption DEF Coming, Placing, MsgInv, Placed
    <2>2. \A k \in Stock(entries[e]) : k < m
      <3>1. arrived < m /\ m \in Nat
        BY <1>5, <2>1, ConstantsAssumption DEF Comes, Msgs
      <3> QED BY <2>1, <3>1
    <2>3. Tidy(y)
      BY <1>1, <2>1, <2>2, TidyPut
    <2> QED BY <2>3, ArmedIs, TidyStays
  <1> QED BY <1>4, <1>5, EntryKeeps

\* The policy gate lets a batch pass, or what is left of it.
LEMMA TimerStartsPlaces ==
    ASSUME Placing, NEW e \in EntryIds, NEW refused, TimerStarts(e, refused) PROVE MsgInv'
  <1> DEFINE x == entries[e]
             kept == Kept(x, refused)
             g == x.current + 1
             n == Len(turns) + 1
             window == IF supplements /\ Split(x).window = "none" THEN "open" ELSE Split(x).window
             y == [Split(x) EXCEPT !.processing = TRUE, !.active = kept, !.items = <<>>,
                                   !.original = <<>>, !.current = g, !.token = g,
                                   !.turn = n, !.repl = 0, !.window = window]
             random == lane = "group" /\ Elems(kept) \cap cues = {}
             turn == NewTurn("timer", e, g, kept, random)
             none == {}
             new == IF Leftover(x) # <<>> THEN Armed(Promoted(Split(x))) ELSE Split(x)
  <1>0. /\ x.timer = "gate" /\ UNCHANGED <<arrived, joins, answers>>
        /\ slot = e /\ slot' \in {0, slot}
        /\ \/ entries' = [entries EXCEPT ![e] = new] /\ UNCHANGED turns
           \/ /\ entries' = [entries EXCEPT ![e] = y] /\ turns' = Append(turns, turn)
              /\ slot' = slot
    BY DEF TimerStarts, Cut, Kept, Leftover, Split
  <1>1. /\ EntryShape(x) /\ Neat(x) /\ ~ x.processing /\ BufferInv /\ DOMAIN entries = EntryIds
        /\ EntryIds = 1 .. Len(entries) /\ IsSequence(entries) /\ MsgInv /\ e # 0
        /\ Plain => Tidy(x)
    BY <1>0, KnownEntry, TidyEntry DEF BufferInv, Owned, Placing, MsgInv, Placed
  <1> HIDE DEF turn, n, y, none, random, window, kept, new, g, x
  <1>2. CASE entries' = [entries EXCEPT ![e] = new] /\ UNCHANGED turns
    <2>1. entries' = Changed(entries, e, new)
      BY <1>2 DEF Changed
    <2>2. Flows(x, new, {}) /\ (Plain => Tidy(new))
      BY <1>1, RefusedFlows, TidyRefused DEF new
    <2>3. KeptTurns /\ Quiet
      BY <1>0, <1>2 DEF KeptTurns, TurnIds, Quiet
    <2>4. Flows(entries[e], new, {}) /\ (Plain => Tidy(new))
      BY <2>2 DEF x
    <2> QED BY <1>0, <2>1, <2>3, <2>4, MovesKeep
  <1>3. CASE /\ entries' = [entries EXCEPT ![e] = y] /\ turns' = Append(turns, turn)
             /\ slot' = slot
    <2>1. /\ Len(Changed(entries, e, y)) = Len(entries) /\ Changed(entries, e, y)[e] = y
          /\ \A f \in 1 .. Len(entries) : f # e => Changed(entries, e, y)[f] = entries[f]
      BY <1>1, Replacing
    <2>2. /\ EntryIds' = EntryIds /\ entries'[e] = y
          /\ \A f \in EntryIds : f # e => entries'[f] = entries[f]
      BY <1>1, <1>3, <2>1 DEF Changed, EntryIds
    <2>3. turn.stage = "none" /\ turn.items = kept
      BY DEF turn, NewTurn
    <2>4. /\ Neat(y) /\ y.processing /\ y.turn = n /\ y.active = kept /\ y.superseded = x.superseded
          /\ Elems(kept) \subseteq Elems(x.items) /\ Load(y) \subseteq Load(x) /\ Apart(Elems(kept), Load(y))
          /\ y.items = <<>> /\ y.pending = Leftover(x) /\ y.related = x.related
      <3>1. ~ supplements => window = "none"
        <4>1. Split(x).window = x.window
          BY <1>1, SplitIs
        <4> QED BY <1>1, <4>1 DEF window, Neat
      <3>2. y = Opening(Split(x), n, g, kept, <<>>, window)
        BY DEF y, Opening
      <3>3. g \in Nat /\ x.current < g /\ kept = Kept(x, refused)
        BY <1>1 DEF g, kept, EntryShape
      <3>4. TakesUp(x, y, n, g, kept)
        BY <1>1, <3>1, <3>2, <3>3, OpensNeatly, Z3
      <3> QED BY <3>4 DEF TakesUp
    <2>p. ASSUME Plain PROVE Tidy(y) /\ Below(Elems(kept), Load(y))
      <3>1. Tidy(y) /\ Below(Elems(y.active), Elems(y.pending))
        BY <1>1, <2>4, <2>p, TidyOpens DEF kept
      <3>2. Load(y) = Elems(y.pending)
        BY <1>1, <2>4, <2>p, Few DEF Load, Neat, Plain
      <3> QED BY <2>4, <3>1, <3>2
    <2>5. kept \in Seq(Msgs) /\ x.superseded \in Nat
      BY <1>1, CutsWell DEF kept, EntryShape
    <2>6. Coming
      <3>1. arrived \in Nat /\ arrived \in 0 .. Events
        BY <1>1, ConstantsAssumption DEF MsgInv
      <3> QED BY <1>0, <3>1 DEF Coming
    <2>7. \A m \in Elems(turn.items) : m \in none \/ (e \in EntryIds /\ m \in Load(entries[e]))
      BY <2>3, <2>4 DEF Load, x
    <2>8. \A m \in none : Comes(m)
      BY DEF none
    <2>9. e \in EntryIds => entries[e].superseded <= entries'[e].superseded
      BY <2>2, <2>4, <2>5 DEF x
    <2>10. e \in EntryIds' =>
              /\ Neat(entries'[e]) /\ entries'[e].processing /\ entries'[e].active = turn.items
              /\ entries'[e].turn = Len(turns) + 1 /\ Apart(Elems(turn.items), Load(entries'[e]))
              /\ \A m \in Load(entries'[e]) : e \in EntryIds /\ m \in Load(entries[e])
              /\ Plain => Tidy(entries'[e])
      BY <2>2, <2>3, <2>4, <2>p DEF n, x
    <2>11. joins' = joins /\ turns' = Append(turns, turn) /\ turn.items \in Seq(Msgs)
      BY <1>0, <1>3, <2>3, <2>5
    <2>12. EntryIds \subseteq EntryIds'
      BY <2>2
    <2>13. \A f \in EntryIds' : f # e => f \in EntryIds /\ entries'[f] = entries[f]
      BY <2>2
    <2>14. turn.stage = "none"
      BY <2>3
    <2>16. Plain => slot' = slot
      BY <1>3
    <2>17. Plain /\ turn.entry # 0 =>
              e = slot /\ e \in EntryIds' /\ Below(Elems(turn.items), Load(entries'[e]))
      BY <1>0, <2>2, <2>3, <2>p
    <2>15. Beginning(turn, e, none)
      BY <2>16, <2>17, <2>7, <2>8, <2>9, <2>10, <2>11, <2>12, <2>13, <2>14 DEF Beginning
    <2> QED BY <2>6, <2>15, BeginsPlaces
  <1> QED BY <1>0, <1>2, <1>3

\* A turn begins with the message that comes, and has no entry.
LEMMA AlonePlaces ==
    ASSUME Coming, NEW m, Comes(m), joins' = joins, entries' = entries, NEW turn,
           turns' = Append(turns, turn), turn.stage = "none", turn.items = <<m>>,
           Plain => slot' = slot /\ turn.entry = 0
    PROVE  MsgInv'
  <1>1. turn.items \in Seq(Msgs) /\ Elems(turn.items) = {m}
    BY ComesOf, Few
  <1>2. EntryIds' = EntryIds /\ 0 \notin EntryIds
    BY DEF EntryIds
  <1>3. \A k \in {m} : Comes(k)
    OBVIOUS
  <1>4. Beginning(turn, 0, {m})
    BY <1>1, <1>2, <1>3 DEF Beginning
  <1> QED BY <1>4, BeginsPlaces

\* An event comes, with a number no message has had.
LEMMA ArriveComes ==
    ASSUME Placing, Arrive
    PROVE  LET m == arrived + 1
           IN  /\ Coming /\ arrived' = m /\ m \in 1 .. arrived' /\ arrived < m /\ Nowhere(m)
               /\ \A j \in joins : j.msg # m
  <1>1. /\ arrived \in 0 .. Events /\ session.events \in 0 .. Events /\ Events \in Nat
        /\ arrived < session.events /\ arrived' = arrived + 1 /\ answers' = answers
    BY ConstantsAssumption DEF Placing, MsgInv, Arrive
  <1> DEFINE m == arrived + 1
  <1>2. /\ arrived' \in 0 .. Events /\ arrived <= arrived' /\ m \in 1 .. arrived'
        /\ m \notin 1 .. arrived /\ arrived < m
    BY <1>1
  <1> HIDE DEF m
  <1>3. Nowhere(m) /\ \A j \in joins : j.msg # m
    BY <1>2 DEF Placing, MsgInv, Placed, Queueing, Nowhere
  <1> QED BY <1>1, <1>2, <1>3 DEF Coming, m

\* The policy refuses it, or it has a turn of its own.
LEMMA OtherPlaces ==
    ASSUME Coming, arrived' = arrived + 1, NEW m, m \in 1 .. arrived', arrived < m, Nowhere(m),
           \A j \in joins : j.msg # m, Refused(m) \/ Poke(m)
    PROVE  MsgInv'
  <1>1. BufferInv /\ MsgInv /\ Single /\ session' = session
    BY DEF Coming, Placing
  <1>2. CASE Refused(m)
    <2>1. entries' = entries /\ turns' = turns /\ joins' = joins /\ slot' = slot
      BY <1>2 DEF Refused
    <2>2. Flow(0, {}) /\ InStep(0, {})
      BY <1>1, <2>1, StillFlows DEF Gone, TurnIds
    <2>3. NewWait /\ NoneSends
      BY <1>1, <2>1 DEF NewWait, NoneSends, Coming, Sent, TurnIds, MsgInv, Queueing
    <2> QED BY <1>1, <2>2, <2>3, FlowKeeps DEF Coming, Placing
  <1>3. CASE Poke(m)
    <2> DEFINE turn == NewTurn("poke", 0, 1, <<m>>, FALSE)
    <2>1. entries' = entries /\ turns' = Append(turns, turn) /\ joins' = joins /\ slot' = slot
      BY <1>3 DEF Poke
    <2>2. turn.stage = "none" /\ turn.items = <<m>> /\ turn.entry = 0
      BY DEF NewTurn
    <2> HIDE DEF turn
    <2> QED BY <2>1, <2>2, AlonePlaces DEF Comes
  <1> QED BY <1>2, <1>3

\* It is a private one.
LEMMA PrivatePlaces ==
    ASSUME Coming, arrived' = arrived + 1, NEW m, m \in 1 .. arrived', arrived < m, Nowhere(m),
           \A j \in joins : j.msg # m, ArrivePrivate(m)
    PROVE  MsgInv'
  <1>0. BufferInv /\ MsgInv /\ Single /\ ~ Plain
    BY DEF Coming, Placing, ArrivePrivate, Plain
  <1>s. slot # 0 => slot \in EntryIds
    BY <1>0, EntriesAre DEF EntryIds
  <1>m. m \in Msgs /\ (joins' = joins => Comes(m))
    BY ConstantsAssumption DEF Coming, Comes, Msgs
  <1>1. CASE slot # 0 /\ entries[slot].processing /\ ArriveInTurn(slot, m)
    BY <1>0, <1>s, <1>1, InTurnPlaces
  <1>2. CASE /\ slot # 0 /\ ~ entries[slot].processing
             /\ entries' = [entries EXCEPT ![slot] =
                               Armed([entries[slot] EXCEPT !.items = Append(@, m)])]
             /\ UNCHANGED <<slot, turns, joins>>
    <2> DEFINE x == entries[slot]
               line == Append(x.items, m)
               y == [x EXCEPT !.items = line]
    <2>0. slot \in EntryIds /\ EntryShape(x)
      BY <1>0, <1>s, <1>2, KnownEntry
    <2>1. entries' = Changed(entries, slot, Armed(y))
      BY <1>2 DEF Changed
    <2>2. EntryShape(y) /\ LikeTurn(x, y)
      <3> HIDE DEF line
      <3> QED BY <2>0 DEF EntryShape, LikeTurn, NewEntry
    <2>3. /\ y.processing = x.processing /\ y.active = x.active /\ y.related = x.related
          /\ y.items = line /\ y.pending = x.pending
      BY <2>0 DEF EntryShape, NewEntry
    <2> HIDE DEF y
    <2>4. KeptTurns
      BY <1>2 DEF KeptTurns, TurnIds
    <2> QED BY <1>2, <1>m, <2>0, <2>1, <2>2, <2>3, <2>4, PutPlaces
  <1>3. CASE /\ turns' = Append(turns, Direct(0, m))
             /\ UNCHANGED <<entries, slot, joins>>
    <2> DEFINE turn == Direct(0, m)
    <2>1. turn.stage = "none" /\ turn.items = <<m>>
      BY DEF Direct, NewTurn
    <2> HIDE DEF turn
    <2>2. turns' = Append(turns, turn)
      BY <1>3 DEF turn
    <2> QED BY <1>0, <1>3, <1>m, <2>1, <2>2, AlonePlaces
  <1>4. CASE LET e == Len(entries) + 1
             IN  /\ entries' = Append(entries,
                       [NewEntry EXCEPT !.processing = TRUE, !.active = <<m>>,
                                        !.current = 1, !.token = 1,
                                        !.turn = Len(turns) + 1, !.window = "open"])
                 /\ turns' = Append(turns, Direct(e, m))
                 /\ UNCHANGED joins /\ supplements
    <2> DEFINE e == Len(entries) + 1
               n == Len(turns) + 1
               one == <<m>>
               turn == Direct(e, m)
               y == [NewEntry EXCEPT !.processing = TRUE, !.active = one, !.current = 1,
                                     !.token = 1, !.turn = n, !.window = "open"]
    <2>1. /\ entries' = Append(entries, y) /\ turns' = Append(turns, turn) /\ joins' = joins
          /\ supplements
      BY <1>4
    <2>2. turn.stage = "none" /\ turn.items = one
      BY DEF Direct, NewTurn
    <2>o. one \in Seq(Msgs) /\ Elems(one) = {m} /\ Distinct(one) /\ \A k \in {m} : Comes(k)
      BY <1>m, <2>1, Few
    <2> HIDE DEF turn, n, one
    <2>3. /\ y.items = <<>> /\ y.pending = <<>> /\ y.related = <<>> /\ y.active = one
          /\ y.processing /\ y.token = 1 /\ y.current = 1 /\ y.superseded = 0
          /\ y.drain.pc = "off" /\ y.turn = n
      BY DEF NewEntry, NoDrain
    <2> HIDE DEF y
    <2>4. /\ Len(entries) \in Nat /\ Len(entries') = e /\ entries'[e] = y
          /\ \A f \in EntryIds : entries'[f] = entries[f]
      BY <1>0, <2>1, EntriesAre, Appended DEF EntryIds
    <2> HIDE DEF e
    <2>5. /\ EntryIds \subseteq EntryIds' /\ e \notin EntryIds
          /\ \A f \in EntryIds' : f # e => f \in EntryIds /\ entries'[f] = entries[f]
      BY <2>4 DEF EntryIds, e
    <2>6. Load(y) = {} /\ Lists(y)
      BY <2>o, <2>3, Few DEF Load, Lists, Apart
    <2>7. Neat(y) /\ Apart(Elems(turn.items), Load(y))
      BY <2>1, <2>3, <2>6 DEF Neat, Apart
    <2>8. /\ turn.items \in Seq(Msgs)
          /\ \A k \in Elems(turn.items) : k \in {m} \/ (e \in EntryIds /\ k \in Load(entries[e]))
      BY <2>o, <2>2
    <2>9. /\ Neat(entries'[e]) /\ entries'[e].processing /\ entries'[e].active = turn.items
          /\ entries'[e].turn = Len(turns) + 1 /\ Apart(Elems(turn.items), Load(entries'[e]))
          /\ \A k \in Load(entries'[e]) : e \in EntryIds /\ k \in Load(entries[e])
      BY <2>2, <2>3, <2>4, <2>6, <2>7 DEF n
    <2>10. Beginning(turn, e, {m})
      BY <1>0, <2>1, <2>2, <2>o, <2>5, <2>8, <2>9 DEF Beginning
    <2> QED BY <2>10, BeginsPlaces
  <1> QED BY <1>1, <1>2, <1>3, <1>4 DEF ArrivePrivate

\* It is a group's.
LEMMA GroupPlaces ==
    ASSUME Coming, arrived' = arrived + 1, NEW m, m \in 1 .. arrived', arrived < m, Nowhere(m),
           \A j \in joins : j.msg # m, joins' = joins, NEW cue, ArriveGroup(m, cue)
    PROVE  MsgInv'
  <1>0. BufferInv /\ MsgInv /\ Single /\ Plain
    BY DEF Coming, Placing, Single, Plain, ArriveGroup
  <1>m. m \in Msgs /\ Comes(m)
    BY ConstantsAssumption DEF Coming, Comes, Msgs
  <1>1. CASE slot = 0
    <2> DEFINE line == Append(NewEntry.items, m)
               put == [NewEntry EXCEPT !.items = line]
               y == Armed(put)
    <2>1. entries' = Append(entries, y) /\ turns' = turns /\ slot' = Len(entries) + 1
      <3>1. ~ NewEntry.processing
        BY DEF NewEntry
      <3> QED BY <1>1, <3>1 DEF ArriveGroup
    <2>2. line \in Seq(Msgs) /\ Elems(line) = {m} /\ Distinct(line) /\ Increasing(line)
      <3>1. NewEntry.items = <<>>
        BY DEF NewEntry
      <3> QED BY <1>m, <3>1, Few, Extended
    <2> HIDE DEF line
    <2>3. /\ y.items = line /\ y.pending = <<>> /\ y.related = <<>> /\ y.active = <<>>
          /\ ~ y.processing /\ y.token = 0 /\ y.current = 0 /\ y.superseded = 0
          /\ y.drain.pc = "off" /\ y.window = "none"
      BY DEF Armed, NewEntry, NoDrain
    <2> HIDE DEF y
    <2>4. Stock(y) \subseteq {m} /\ Lists(y)
      BY <2>2, <2>3, Few DEF Load, Stock, Lists, Apart
    <2>5. Neat(y)
      BY <2>3, <2>4 DEF Neat
    <2>6. Tidy(y)
      BY <2>2, <2>3, Few DEF Tidy
    <2> QED BY <1>1, <1>m, <2>1, <2>3, <2>4, <2>5, <2>6, MakesPlaces
  <1>2. CASE slot # 0
    <2> DEFINE x == entries[slot]
    <2>0. slot \in EntryIds /\ EntryShape(x) /\ Neat(x)
      <3>1. slot \in EntryIds
        BY <1>0, <1>2, EntriesAre DEF EntryIds
      <3> QED BY <1>0, <3>1, KnownEntry DEF MsgInv, Placed
    <2>k. slot' = slot /\ (turns' = turns => KeptTurns)
      BY <1>2 DEF KeptTurns, TurnIds, ArriveGroup
    <2>l. Tidy(x) /\ \A k \in Stock(x) : k < m
      <3>1. Stock(x) \subseteq 1 .. arrived /\ arrived \in Nat /\ m \in Nat
        BY <1>0, <1>m, <2>0, ConstantsAssumption DEF MsgInv, Placed, Msgs
      <3> QED BY <1>0, <2>0, <3>1, TidyEntry
    <2>1. CASE /\ UNCHANGED turns /\ ~ x.processing
               /\ entries' = [entries EXCEPT ![slot] = Armed([x EXCEPT !.items = Append(x.items, m)])]
      <3> DEFINE line == Append(x.items, m)
                 y == [x EXCEPT !.items = line]
      <3>1. entries' = Changed(entries, slot, Armed(y))
        BY <2>1 DEF Changed
      <3>2. EntryShape(y) /\ LikeTurn(x, y)
        <4> HIDE DEF line
        <4> QED BY <2>0 DEF EntryShape, LikeTurn, NewEntry
      <3>3. /\ y.processing = x.processing /\ y.active = x.active /\ y.related = x.related
            /\ y.items = line /\ y.pending = x.pending
        BY <2>0 DEF EntryShape, NewEntry
      <3> HIDE DEF y
      <3> QED BY <1>m, <2>0, <2>1, <2>k, <3>1, <3>2, <3>3, PutPlaces
    <2>2. CASE /\ x.processing /\ Preemptable(x)
               /\ entries' = [entries EXCEPT ![slot] = Preempted(x, m)]
               /\ turns' = CancelActive(turns, x)
      <3> DEFINE y == Preempted(x, m)
      <3>s. x.superseded < x.current /\ m \notin Stock(x)
        <4>1. IsTurnOf(x.turn, slot, x.current) /\ slot # 0
          BY <1>0, <1>2, <2>0, <2>2, KnownEntry
        <4> QED BY <1>m, <2>0, <2>2, <4>1, ComesOf DEF Preemptable, Safe, Current, IsTurnOf
      <3>1. Flows(x, y, {m}) /\ Tidy(y)
        BY <1>0, <1>m, <2>0, <2>2, <2>l, <3>s, PreemptedFlows, TidyPreempted
      <3>2. entries' = Changed(entries, slot, y)
        BY <2>2 DEF Changed
      <3> HIDE DEF y
      <3>3. KeptTurns
        <4>1. Quieted(turns')
          BY <1>0, <2>0, <2>2, TurnsStay, CancelIsQuiet
        <4> QED BY <1>0, <4>1, QuietedKeep
      <3> QED BY <1>m, <2>0, <2>k, <3>1, <3>2, <3>3, EntryKeeps
    <2>3. CASE /\ UNCHANGED turns /\ x.processing
               /\ entries' = [entries EXCEPT ![slot] =
                     IF Eligible(x, turns)
                     THEN [[x EXCEPT !.pending = Append(x.pending, m)] EXCEPT
                            !.candidates = Append(@, m),
                            !.drain = IF @.pc = "off" THEN NewDrain(x.current) ELSE @]
                     ELSE Armed([x EXCEPT !.pending = Append(x.pending, m)])]
      <3> DEFINE line == Append(x.pending, m)
                 y == [x EXCEPT !.pending = line]
      <3>e. ~ Eligible(x, turns)
        BY <1>0, <2>0 DEF Plain, Neat, Eligible, CanReplace, ReplacementPending
      <3>1. entries' = Changed(entries, slot, Armed(y))
        BY <2>3, <3>e DEF Changed
      <3>2. EntryShape(y) /\ LikeTurn(x, y)
        <4> HIDE DEF line
        <4> QED BY <2>0 DEF EntryShape, LikeTurn, NewEntry
      <3>3. /\ y.processing = x.processing /\ y.active = x.active /\ y.related = x.related
            /\ y.items = x.items /\ y.pending = line
        BY <2>0 DEF EntryShape, NewEntry
      <3> HIDE DEF y
      <3> QED BY <1>m, <2>0, <2>3, <2>k, <3>1, <3>2, <3>3, PutPlaces
    <2> QED BY <1>2, <2>1, <2>2, <2>3 DEF ArriveGroup
  <1> QED BY <1>1, <1>2

\* Outside group supplements no drain runs.
LEMMA NoDrains ==
    ASSUME Placing, NEW e \in EntryIds,
           DrainSubmits(e) \/ DrainLocks(e) \/ \E related \in SUBSET Msgs : DrainJudged(e, related)
    PROVE  FALSE
  <1>1. entries[e].drain.pc = "off"
    BY DEF Placing, MsgInv, Placed, Neat
  <1> QED BY <1>1 DEF DrainSubmits, DrainLocks, DrainJudged

LEMMA InitMsg == Init => MsgInv
  <1> SUFFICES ASSUME Init PROVE MsgInv
    OBVIOUS
  <1>1. EntryIds = {} /\ TurnIds = {}
    BY DEF Init, EntryIds, TurnIds
  <1>2. session \in Sessions /\ arrived \in 0 .. Events /\ joins = {} /\ answers = [m \in Msgs |-> 0]
    BY ConstantsAssumption DEF Init
  <1> QED BY <1>1, <1>2 DEF MsgInv, Placed, Queueing, Counted, InLine, Init

\* The session is the one it began as, and events come one at a time.
LEMMA SessionKept ==
    ASSUME [Next]_vars
    PROVE  /\ session' = session
           /\ arrived' = arrived \/ (arrived < session.events /\ arrived' = arrived + 1)
  <1>1. CASE Arrive
    BY <1>1 DEF Arrive
  <1>2. ASSUME NEW t \in TurnIds, TurnStep(t) PROVE session' = session /\ arrived' = arrived
    BY <1>2 DEF TurnStep, Admit, AdmissionTimeout, Returns, Fails, Timeout, RecordWritten,
                OwnerCancelled, Act, WantCommit, GetCommit, StartDelivery, CompleteDelivery, Ends
  <1>3. ASSUME NEW e \in EntryIds, EntryStep(e) PROVE session' = session /\ arrived' = arrived
    BY <1>3 DEF EntryStep, TimerFires, WindowCloses, DrainSubmits, DrainLocks, TimerStarts,
                DrainJudged
  <1>4. CASE JoinResumes \/ UNCHANGED vars
    BY <1>4 DEF JoinResumes, vars
  <1> QED BY <1>1, <1>2, <1>3, <1>4 DEF Next

LEMMA NextMsg == BufferInv /\ BufferInv' /\ MsgInv /\ [Next]_vars => MsgInv'
  <1> SUFFICES ASSUME BufferInv, BufferInv', MsgInv, [Next]_vars PROVE MsgInv'
    OBVIOUS
  <1>0. session' = session
    BY SessionKept
  <1>a. session' \in Sessions /\ arrived' \in 0 .. Events
    <2>1. session.events \in 0 .. Events /\ arrived \in 0 .. Events /\ Events \in Nat
      BY ConstantsAssumption DEF MsgInv
    <2> QED BY SessionKept, <2>1 DEF MsgInv
  <1>1. CASE ~ Single
    BY <1>0, <1>1, <1>a DEF MsgInv, Single, lane, supplements
  <1>2. CASE Single
    <2>p. Placing
      BY <1>0, <1>2 DEF Placing
    <2>1. CASE Arrive
      <3> DEFINE m == arrived + 1
      <3>1. /\ Coming /\ arrived' = arrived + 1 /\ m \in 1 .. arrived' /\ arrived < m /\ Nowhere(m)
            /\ \A j \in joins : j.msg # m
        BY <2>p, <2>1, ArriveComes
      <3>2. \/ Refused(m) \/ Poke(m) \/ ArrivePrivate(m)
            \/ \E cue \in BOOLEAN : ArriveGroup(m, cue)
        BY <2>1 DEF Arrive
      <3> HIDE DEF m
      <3>3. CASE Refused(m) \/ Poke(m)
        BY <3>1, <3>3, OtherPlaces
      <3>4. CASE ArrivePrivate(m)
        BY <3>1, <3>4, PrivatePlaces
      <3>5. ASSUME NEW cue \in BOOLEAN, ArriveGroup(m, cue) PROVE MsgInv'
        <4>1. joins' = joins
          BY <3>5 DEF ArriveGroup
        <4> QED BY <3>1, <3>5, <4>1, GroupPlaces
      <3> QED BY <3>2, <3>3, <3>4, <3>5
    <2>2. CASE JoinResumes
      BY <2>p, <2>2, JoinResumesPlaces
    <2>3. ASSUME NEW t \in TurnIds, TurnStep(t) PROVE MsgInv'
      BY <2>p, <2>3, OwnerPlaces, GenerationPlaces DEF TurnStep
    <2>4. ASSUME NEW e \in EntryIds, EntryStep(e) PROVE MsgInv'
      BY <2>p, <2>4, ClockPlaces, TimerStartsPlaces, NoDrains DEF EntryStep
    <2>5. CASE UNCHANGED vars
      <3>1. Quiet /\ KeptTurns /\ entries' = entries /\ slot' = slot
        BY <2>5 DEF vars, ghosts, Quiet, KeptTurns, TurnIds
      <3> QED BY <2>p, <3>1, MovesKeep
    <2> QED BY <2>1, <2>2, <2>3, <2>4, <2>5 DEF Next
  <1> QED BY <1>1, <1>2

\* Outside group supplements no message is part of two turns that send: whatever is
\* preempted, replaced or handed on is taken from a turn that had not begun to answer
\* (finalize_generation, _promote_pending_batch, handle_reply_event).
THEOREM AnsweredAtMostOnceAlways == Spec => []AnsweredAtMostOnce
  <1>1. MsgInv => AnsweredAtMostOnce
    BY DEF MsgInv, Single, Counted, AnsweredAtMostOnce
  <1>2. Spec => []MsgInv
    BY BufferAlways, InitMsg, NextMsg, PTL DEF Spec
  <1> QED BY <1>1, <1>2, PTL

\* Without supplements a group is answered in order: a turn takes the first messages of
\* what waits, a message that comes goes last, and a batch that is taken back goes
\* before what came after it (run_buffer_timer, _should_preempt_current_batch).
THEOREM InOrderAlways == Spec => []InOrder
  <1>1. ASSUME MsgInv PROVE InOrder
    <2> SUFFICES ASSUME Plain PROVE InOrder
      BY DEF InOrder, Plain
    <2>1. InLine
      BY <1>1 DEF MsgInv, Single, Plain
    <2>2. ASSUME NEW t \in TurnIds, NEW u \in TurnIds, t < u, turns[t].entry # 0, turns[u].entry # 0,
                 turns[t].stage \in {"started", "complete"}
          PROVE  \A a \in Elems(turns[t].items), b \in Elems(turns[u].items) : a < b
      <3>1. ~ Gone(t)
        BY <2>2 DEF Gone
      <3>2. Below(Has(t), Has(u))
        BY <2>1, <2>2, <3>1 DEF InLine
      <3> QED BY <3>2 DEF Below, Has
    <2> QED BY <2>2 DEF InOrder
  <1>2. Spec => []MsgInv
    BY BufferAlways, InitMsg, NextMsg, PTL DEF Spec
  <1> QED BY <1>1, <1>2, PTL

-----------------------------------------------------------------------------
(* Without supplements nothing is lost                                      *)

\* Private events have turns of their own; a group's turns that are not over are of the
\* entry under the key, and only they are cancelled.
Homed ==
    /\ lane = "private" => slot = 0 /\ entries = <<>>
    /\ \A t \in TurnIds :
        /\ turns[t].entry # 0 => turns[t].by = "timer"
        /\ turns[t].owner # "done" /\ turns[t].cancelled => turns[t].entry # 0
        /\ turns[t].owner # "done" /\ turns[t].entry # 0 => turns[t].entry = slot

\* Entry e, which is x while the turns are T and the key has s: one that is processed
\* has a live owner, a batch that was taken back waits, and what waits in an idle entry
\* waits for a timer.
Minded(e, x, T, s) ==
    /\ x.processing => T[x.turn].owner # "done"
    /\ x.processing /\ x.current <= x.superseded => Elems(x.active) \subseteq Elems(x.pending)
    /\ e = s /\ ~ x.processing /\ Load(x) # {} => x.timer # "off"

Covered(m) ==
    \/ m \in settled
    \/ recorded[m] # {}
    \/ \E t \in TurnIds : turns[t].owner # "done" /\ m \in Has(t)
    \/ slot # 0 /\ m \in Load(entries[slot])

Held == /\ Homed /\ DOMAIN recorded = Msgs
        /\ \A e \in EntryIds : Minded(e, entries[e], turns, slot)
        /\ \A m \in 1 .. arrived : Covered(m)
HeldInv == ~ supplements => Held

\* What each of the next lemmas starts from.
Holding == Placing /\ ~ supplements /\ Held

\* The turns and entries of a step that may change entry e0.
Minds(e0) ==
    /\ slot' \in {0, slot, e0}
    /\ \A e \in EntryIds' : e # e0 => e \in EntryIds /\ entries'[e] = entries[e]
    /\ lane = "private" => slot' = 0 /\ entries' = <<>>
    /\ e0 \in EntryIds' => Minded(e0, entries'[e0], turns', slot')
    /\ \A t \in TurnIds' : t \notin TurnIds =>
            /\ ~ turns'[t].cancelled
            /\ turns'[t].entry # 0 => turns'[t].by = "timer" /\ turns'[t].entry = slot'
    /\ \A t \in TurnIds :
            /\ turns'[t].by = turns[t].by /\ turns'[t].entry = turns[t].entry
            /\ turns[t].owner = "done" => turns'[t].owner = "done"
            /\ turns'[t].owner # "done" /\ turns'[t].cancelled
                    => turns[t].cancelled \/ turns[t].entry # 0
            /\ turns[t].owner # "done" => turns'[t].owner # "done" \/ turns[t].entry \in {0, e0}
    /\ slot' = slot \/ \A t \in TurnIds : turns'[t].owner # "done" => turns[t].entry = 0

\* And its messages: what was carried is carried on.
Grows ==
    /\ settled \subseteq settled'
    /\ DOMAIN recorded = Msgs => DOMAIN recorded' = Msgs
    /\ \A m \in Msgs : recorded[m] # {} => recorded'[m] # {}
Delivers ==
    /\ Grows
    /\ \A m \in 1 .. arrived' : m \in 1 .. arrived \/ Covered(m)'
    /\ \A t \in TurnIds : turns[t].owner # "done" => \A m \in Has(t) : Covered(m)'
    /\ slot # 0 => \A m \in Load(entries[slot]) : Covered(m)'

LEMMA HeldStays ==
    ASSUME Holding, NEW e0, Minds(e0), Delivers
    PROVE  Held'
  <1>0. /\ BufferInv /\ session' = session /\ Homed /\ arrived \in 0 .. Events /\ Events \in Nat
        /\ \A e \in EntryIds : Minded(e, entries[e], turns, slot)
        /\ \A m \in 1 .. arrived : Covered(m)
    BY ConstantsAssumption DEF Holding, Placing, Held, MsgInv
  <1>1. Homed'
    <2>1. ASSUME NEW t \in TurnIds'
          PROVE  /\ turns'[t].entry # 0 => turns'[t].by = "timer"
                 /\ turns'[t].owner # "done" /\ turns'[t].cancelled => turns'[t].entry # 0
                 /\ turns'[t].owner # "done" /\ turns'[t].entry # 0 => turns'[t].entry = slot'
      BY <1>0 DEF Minds, Homed
    <2>2. lane' = "private" => slot' = 0 /\ entries' = <<>>
      BY <1>0 DEF Minds, lane
    <2> QED BY <2>1, <2>2 DEF Homed
  <1>2. ASSUME NEW e \in EntryIds' PROVE Minded(e, entries'[e], turns', slot')
    <2>1. CASE e = e0
      BY <2>1 DEF Minds
    <2>2. CASE e # e0
      <3> DEFINE x == entries[e]
      <3>1. e \in EntryIds /\ entries'[e] = x /\ (e = slot' => e = slot) /\ e # 0
        BY <2>2 DEF Minds, EntryIds
      <3>2. Minded(e, x, turns, slot)
        BY <1>0, <3>1
      <3>3. x.processing => turns'[x.turn].owner # "done"
        <4>1. x.processing => x.turn \in TurnIds /\ turns[x.turn].entry = e
          BY <1>0, <3>1, KnownEntry DEF IsTurnOf
        <4> QED BY <2>2, <3>1, <3>2, <4>1 DEF Minds, Minded
      <3> HIDE DEF x
      <3> QED BY <3>1, <3>2, <3>3 DEF Minded
    <2> QED BY <2>1, <2>2
  <1>3. ASSUME NEW m \in 1 .. arrived' PROVE Covered(m)'
    <2>1. CASE m \notin 1 .. arrived
      BY <2>1 DEF Delivers
    <2>2. CASE m \in 1 .. arrived
      <3>1. m \in Msgs /\ Covered(m)
        BY <1>0, <2>2 DEF Msgs
      <3>2. CASE m \in settled \/ recorded[m] # {}
        BY <3>1, <3>2 DEF Delivers, Grows, Covered
      <3>3. CASE \E t \in TurnIds : turns[t].owner # "done" /\ m \in Has(t)
        BY <3>3 DEF Delivers
      <3>4. CASE slot # 0 /\ m \in Load(entries[slot])
        BY <3>4 DEF Delivers
      <3> QED BY <3>1, <3>2, <3>3, <3>4 DEF Covered
    <2> QED BY <2>1, <2>2
  <1>4. DOMAIN recorded' = Msgs
    BY DEF Holding, Held, Delivers, Grows
  <1> QED BY <1>1, <1>2, <1>3, <1>4 DEF Held, Msgs

\* Owners stay, each with what it has.
OwnersKept ==
    /\ TurnIds' = TurnIds
    /\ \A t \in TurnIds :
        /\ turns'[t].by = turns[t].by /\ turns'[t].entry = turns[t].entry
        /\ turns'[t].items = turns[t].items
        /\ turns'[t].owner = "done" <=> turns[t].owner = "done"
        /\ turns'[t].owner # "done" /\ turns'[t].cancelled
                => turns[t].cancelled \/ turns[t].entry # 0

LEMMA SameOwners == ASSUME turns' = turns PROVE OwnersKept
  BY DEF OwnersKept, TurnIds

LEMMA KeptCover ==
    ASSUME OwnersKept, NEW t \in TurnIds, turns[t].owner # "done", NEW m \in Has(t)
    PROVE  Covered(m)'
  <1>1. t \in TurnIds' /\ turns'[t].owner # "done" /\ m \in Elems(turns'[t].items)
    BY DEF OwnersKept, Has
  <1> QED BY <1>1 DEF Covered, Has, Elems

\* Entries stay as they are.
LEMMA StillHeld ==
    ASSUME Holding, OwnersKept, Grows, UNCHANGED <<entries, slot>>,
           \A m \in 1 .. arrived' : m \in 1 .. arrived \/ Covered(m)'
    PROVE  Held'
  <1>1. Minds(0)
    <2>1. lane = "private" => slot' = 0 /\ entries' = <<>>
      BY DEF Holding, Held, Homed
    <2>2. EntryIds' = EntryIds /\ 0 \notin EntryIds
      BY DEF EntryIds
    <2> QED BY <2>1, <2>2 DEF Minds, OwnersKept
  <1>2. \A m \in Load(entries[slot]) : slot # 0 => Covered(m)'
    BY DEF Covered
  <1>3. Delivers
    BY <1>2, KeptCover DEF Delivers
  <1> QED BY <1>1, <1>3, HeldStays

\* An entry moves, and lets no message go.
LEMMA EntryHeld ==
    ASSUME Holding, OwnersKept, Grows, NEW e \in EntryIds, NEW y, NEW F,
           entries' = Changed(entries, e, y), slot' = slot,
           Minded(e, y, turns', slot), Load(entries[e]) \cup F \subseteq Load(y),
           \A m \in 1 .. arrived' : m \in 1 .. arrived \/ (m \in F /\ e = slot)
    PROVE  Held'
  <1>0. BufferInv /\ slot \in 0 .. Len(entries)
    BY EntriesAre DEF Holding, Placing
  <1>1. /\ EntryIds' = EntryIds /\ entries'[e] = y /\ e # 0
        /\ \A f \in EntryIds : f # e => entries'[f] = entries[f]
    <2>1. IsSequence(entries) /\ EntryIds = 1 .. Len(entries)
      BY <1>0, EntriesAre DEF EntryIds
    <2>2. /\ Len(Changed(entries, e, y)) = Len(entries) /\ Changed(entries, e, y)[e] = y
          /\ \A f \in 1 .. Len(entries) : f # e => Changed(entries, e, y)[f] = entries[f]
      BY <2>1, Replacing
    <2> QED BY <2>1, <2>2 DEF EntryIds
  <1>2. Minds(e)
    <2>1. lane # "private"
      <3>1. Len(<<>>) = 0
        OBVIOUS
      <3>2. entries # <<>>
        BY <3>1 DEF EntryIds
      <3> QED BY <3>2 DEF Holding, Held, Homed
    <2> QED BY <1>1, <2>1 DEF Minds, OwnersKept
  <1>3. ASSUME slot # 0, e = slot, NEW m \in Load(entries[slot]) \cup F PROVE Covered(m)'
    <2>1. m \in Load(entries'[slot])
      BY <1>1, <1>3
    <2> QED BY <1>3, <2>1 DEF Covered, Load, Elems
  <1>4. \A m \in 1 .. arrived' : m \in 1 .. arrived \/ Covered(m)'
    <2>1. ASSUME NEW m \in 1 .. arrived', m \in F, e = slot PROVE Covered(m)'
      <3>1. slot # 0
        BY <1>1, <2>1
      <3> QED BY <1>3, <2>1, <3>1
    <2> QED BY <2>1
  <1>5. ASSUME slot # 0, NEW m \in Load(entries[slot]) PROVE Covered(m)'
    <2>1. CASE e = slot
      BY <1>3, <1>5, <2>1
    <2>2. CASE e # slot
      <3>1. slot \in EntryIds /\ entries'[slot] = entries[slot] /\ slot' # 0
        BY <1>0, <1>1, <1>5, <2>2 DEF EntryIds
      <3> QED BY <1>5, <3>1 DEF Covered, Load, Elems
    <2> QED BY <2>1, <2>2
  <1>6. Delivers
    BY <1>4, <1>5, KeptCover DEF Delivers
  <1> QED BY <1>2, <1>6, HeldStays

\* A turn moves on, alone.
LEMMA TurnHeld ==
    ASSUME Holding, NEW t \in TurnIds, NEW new, turns' = Changed(turns, t, new),
           new.by = turns[t].by, new.entry = turns[t].entry, new.items = turns[t].items,
           new.owner = "done" <=> turns[t].owner = "done", new.cancelled = turns[t].cancelled,
           Grows, UNCHANGED <<entries, slot, arrived>>
    PROVE  Held'
  <1>1. /\ TurnIds' = TurnIds /\ turns'[t] = new
        /\ \A u \in TurnIds : u # t => turns'[u] = turns[u]
    <2>1. IsSequence(turns) /\ TurnIds = 1 .. Len(turns)
      BY TurnsAre DEF TurnIds, Holding, Placing
    <2>2. /\ Len(Changed(turns, t, new)) = Len(turns) /\ Changed(turns, t, new)[t] = new
          /\ \A u \in 1 .. Len(turns) : u # t => Changed(turns, t, new)[u] = turns[u]
      BY <2>1, Replacing
    <2> QED BY <2>1, <2>2 DEF TurnIds
  <1>2. OwnersKept
    BY <1>1 DEF OwnersKept
  <1> QED BY <1>2, StillHeld

\* What the generation does.
LEMMA GenerationHeld ==
    ASSUME Holding, NEW t \in TurnIds,
           \/ Admit(t) \/ Act(t) \/ WantCommit(t) \/ GetCommit(t) \/ StartDelivery(t)
           \/ CompleteDelivery(t) \/ \E how \in {"done", "failed"} : Ends(t, how)
    PROVE  Held'
  <1>0. /\ DOMAIN turns = 1 .. Len(turns) /\ t \in 1 .. Len(turns) /\ TurnShape(turns[t])
    BY TurnsAre DEF TurnIds, IsSequence, Holding, Placing
  <1>1. UNCHANGED <<entries, slot, arrived>> /\ Grows
    BY DEF Admit, Act, WantCommit, GetCommit, StartDelivery, CompleteDelivery, Ends, ghosts, Grows
  <1>2. CASE Admit(t)
    <2> DEFINE new == [turns[t] EXCEPT !.owner = "run", !.child = "work"]
    <2>1. turns' = Changed(turns, t, new) /\ turns[t].owner # "done"
      BY <1>0, <1>2 DEF Admit, Waiting, Changed
    <2>2. /\ new.by = turns[t].by /\ new.entry = turns[t].entry /\ new.items = turns[t].items
          /\ new.owner # "done" /\ new.cancelled = turns[t].cancelled
      BY <1>0 DEF TurnShape, NewTurn
    <2> HIDE DEF new
    <2> QED BY <1>1, <2>1, <2>2, TurnHeld
  <1>3. CASE Act(t) \/ StartDelivery(t) \/ CompleteDelivery(t)
    <2>1. PICK at : turns' = [turns EXCEPT ![t].stage = at]
      BY <1>3 DEF Act, StartDelivery, CompleteDelivery
    <2> DEFINE new == [turns[t] EXCEPT !.stage = at]
    <2>2. turns' = Changed(turns, t, new)
      BY <1>0, <2>1 DEF Changed
    <2>3. /\ new.by = turns[t].by /\ new.entry = turns[t].entry /\ new.items = turns[t].items
          /\ new.owner = turns[t].owner /\ new.cancelled = turns[t].cancelled
      BY <1>0 DEF TurnShape, NewTurn
    <2> HIDE DEF new
    <2> QED BY <1>1, <2>2, <2>3, TurnHeld
  <1>4. CASE WantCommit(t) \/ GetCommit(t) \/ \E how \in {"done", "failed"} : Ends(t, how)
    <2>1. PICK at : turns' = [turns EXCEPT ![t].child = at]
      BY <1>4 DEF WantCommit, GetCommit, Ends
    <2> DEFINE new == [turns[t] EXCEPT !.child = at]
    <2>2. turns' = Changed(turns, t, new)
      BY <1>0, <2>1 DEF Changed
    <2>3. /\ new.by = turns[t].by /\ new.entry = turns[t].entry /\ new.items = turns[t].items
          /\ new.owner = turns[t].owner /\ new.cancelled = turns[t].cancelled
      BY <1>0 DEF TurnShape, NewTurn
    <2> HIDE DEF new
    <2> QED BY <1>1, <2>2, <2>3, TurnHeld
  <1> QED BY <1>2, <1>3, <1>4

\* An entry's turn is over, and what waits has a timer.
LEMMA PlainHandOff ==
    ASSUME ~ supplements, NEW x, EntryShape(x), Neat(x), x.processing
    PROVE  LET y == TimerHandOff(x, x.current)
           IN  /\ ~ y.processing /\ Load(x) = Elems(x.pending) /\ Load(y) = Elems(x.pending)
               /\ x.pending # <<>> => y.timer # "off"
  <1> DEFINE closed == Closed(x)
             full == Promoted(closed)
             g == x.current
             y == TimerHandOff(x, g)
  <1>1. x.token = g /\ x.related = <<>> /\ x.items = <<>> /\ Load(x) = Elems(x.pending)
    BY Few DEF Neat, Load
  <1>2. y = IF x.pending # <<>> THEN Armed(full) ELSE closed
    BY <1>1 DEF TimerHandOff, Closed
  <1> HIDE DEF y
  <1>3. /\ EntryShape(closed) /\ Neat(closed) /\ ~ closed.processing /\ closed.pending = x.pending
        /\ Load(closed) = Load(x)
    BY ClosedFlows DEF Flows
  <1> HIDE DEF closed
  <1>4. CASE x.pending = <<>>
    BY <1>1, <1>2, <1>3, <1>4 DEF y, g
  <1>5. CASE x.pending # <<>>
    <2>1. /\ EntryShape(full) /\ full.items = x.pending /\ full.pending = <<>>
          /\ ~ full.processing /\ full.related = closed.related /\ LikeTurn(closed, full)
      BY <1>3, PromotedFlows
    <2>2. full.related = <<>>
      BY <1>3, <2>1 DEF Neat
    <2> HIDE DEF full
    <2>3. /\ Armed(full).items = x.pending /\ Armed(full).pending = <<>> /\ Armed(full).related = <<>>
          /\ ~ Armed(full).processing
      BY <2>1, <2>2, ArmedIs DEF LikeLists
    <2>4. Armed(full).timer = "armed"
      BY <2>1 DEF Armed, EntryShape, NewEntry
    <2>5. Load(Armed(full)) = Elems(x.pending)
      BY <2>3, Few DEF Load
    <2> QED BY <1>1, <1>2, <1>5, <2>3, <2>4, <2>5 DEF y, g
  <1> QED BY <1>4, <1>5

\* The entry of a turn that is not over: the one under the key, at its generation.
LEMMA OwnEntry ==
    ASSUME Holding, NEW t \in TurnIds, turns[t].owner # "done", turns[t].entry # 0
    PROVE  /\ slot \in EntryIds /\ turns[t].entry = slot /\ turns[t].by = "timer"
           /\ entries[slot].processing /\ entries[slot].turn = t
           /\ turns[t].gen = entries[slot].current
           /\ EntryShape(entries[slot]) /\ Neat(entries[slot])
           /\ Elems(entries[slot].active) = Has(t)
  <1>1. BufferInv /\ MsgInv /\ Single /\ turns[t].entry = slot /\ turns[t].by = "timer"
    BY DEF Holding, Placing, Held, Homed
  <1>2. slot \in EntryIds
    BY <1>1, EntriesAre DEF EntryIds
  <1>3. entries[slot].processing /\ entries[slot].turn = t
    BY <1>1 DEF BufferInv, Owned
  <1>4. IsTurnOf(t, slot, entries[slot].current) /\ EntryShape(entries[slot])
    <2>1. t # 0
      BY DEF TurnIds
    <2> QED BY <1>1, <1>2, <1>3, <2>1, KnownEntry
  <1> QED BY <1>1, <1>2, <1>3, <1>4 DEF IsTurnOf, MsgInv, Placed

\* The owner of a turn ends, and hands its entry on.
LEMMA FinishHeld ==
    ASSUME Holding, Grows, arrived' = arrived, NEW t \in TurnIds, NEW T, Touches(T, t),
           turns[t].owner # "done", Finish(t, T)
    PROVE  Held'
  <1> DEFINE last == Over(T[t])
             e == turns[t].entry
             x == entries[e]
             y == TimerHandOff(x, x.current)
  <1>0. /\ BufferInv /\ MsgInv /\ Homed
        /\ IsSequence(T) /\ TurnIds = 1 .. Len(T) /\ t \in 1 .. Len(T) /\ DOMAIN T = 1 .. Len(T)
        /\ TurnShape(turns[t]) /\ turns[t].entry <= Len(entries)
    BY TurnsAre DEF Touches, TurnIds, IsSequence, Holding, Placing, Held
  <1>1. /\ last.owner = "done" /\ last.by = turns[t].by /\ last.items = turns[t].items
        /\ last.entry = turns[t].entry
    BY <1>0 DEF Touches, Over, TurnShape, NewTurn
  <1>2. turns' = Changed(T, t, last)
    BY <1>0 DEF Finish, Changed, Over
  <1> HIDE DEF last
  <1>3. TurnIds' = TurnIds /\ turns'[t] = last /\ \A u \in TurnIds : u # t => turns'[u] = turns[u]
    <2>1. /\ Len(Changed(T, t, last)) = Len(T) /\ Changed(T, t, last)[t] = last
          /\ \A u \in 1 .. Len(T) : u # t => Changed(T, t, last)[u] = T[u]
      BY <1>0, Replacing
    <2> QED BY <1>0, <1>2, <2>1 DEF Touches, TurnIds
  <1>4. ASSUME NEW u \in TurnIds, u # t, turns[u].owner # "done", NEW m \in Has(u) PROVE Covered(m)'
    <2>1. u \in TurnIds' /\ turns'[u].owner # "done" /\ m \in Elems(turns'[u].items)
      BY <1>3, <1>4 DEF Has
    <2> QED BY <2>1 DEF Covered, Has, Elems
  <1>5. CASE e = 0
    <2>1. entries' = entries /\ slot' = slot /\ settled' = settled \cup Has(t)
      BY <1>5 DEF Finish, Touches, Vacates, Has
    <2>2. EntryIds' = EntryIds /\ 0 \notin EntryIds
      BY <2>1 DEF EntryIds
    <2>3. Minds(0)
      <3>1. lane = "private" => slot' = 0 /\ entries' = <<>>
        BY <1>0, <2>1 DEF Homed
      <3> QED BY <1>1, <1>3, <1>5, <2>1, <2>2, <3>1 DEF Minds
    <2>4. Delivers
      <3>1. \A m \in Has(t) : Covered(m)'
        BY <2>1 DEF Covered
      <3>2. slot # 0 => \A m \in Load(entries[slot]) : Covered(m)'
        BY <2>1 DEF Covered
      <3> QED BY <1>4, <3>1, <3>2 DEF Delivers
    <2> QED BY <2>3, <2>4, HeldStays
  <1>6. CASE e # 0
    <2>1. /\ e \in EntryIds /\ e = slot /\ T[t].by = "timer" /\ T[t].gen = x.current
          /\ x.processing /\ x.turn = t /\ EntryShape(x) /\ Neat(x) /\ Elems(x.active) = Has(t)
      BY <1>6, OwnEntry DEF Touches
    <2>2. /\ ~ y.processing /\ Load(x) = Elems(x.pending) /\ Load(y) = Elems(x.pending)
          /\ x.pending # <<>> => y.timer # "off"
      BY <2>1, PlainHandOff DEF Holding
    <2>3. /\ entries' = Changed(entries, e, y)
          /\ slot' = IF x.pending = <<>> THEN 0 ELSE slot
          /\ settled' = IF x.superseded >= x.current THEN settled ELSE settled \cup Has(t)
      <3>1. T[t].entry = e /\ T[t].items = turns[t].items /\ DOMAIN entries = EntryIds
        BY <1>0, <2>1, KnownEntry DEF Touches
      <3>2. Vacates(T[t], x) <=> x.pending = <<>>
        <4>1. x.token = T[t].gen /\ x.items = <<>>
          BY <2>1 DEF Neat, Holding
        <4> QED BY <1>6, <2>1, <3>1, <4>1 DEF Vacates
      <3> QED BY <1>6, <2>1, <3>1, <3>2 DEF Finish, EntryOf, Changed, Has
    <2>4. EntryIds' = EntryIds /\ entries'[e] = y /\ \A f \in EntryIds : f # e => entries'[f] = entries[f]
      <3>1. IsSequence(entries) /\ EntryIds = 1 .. Len(entries)
        BY <1>0, EntriesAre DEF EntryIds
      <3>2. /\ Len(Changed(entries, e, y)) = Len(entries) /\ Changed(entries, e, y)[e] = y
            /\ \A f \in 1 .. Len(entries) : f # e => Changed(entries, e, y)[f] = entries[f]
        BY <2>1, <3>1, Replacing
      <3> QED BY <2>3, <3>1, <3>2 DEF EntryIds
    <2> HIDE DEF y
    <2>5. Minded(e, y, turns', slot')
      <3>1. e = slot' => x.pending # <<>>
        BY <1>6, <2>3
      <3> QED BY <2>2, <3>1 DEF Minded
    <2>6. ASSUME NEW u \in TurnIds, turns'[u].owner # "done" PROVE turns[u].entry = 0
      <3>1. u # t /\ turns[u].owner # "done"
        BY <1>1, <1>3, <2>6
      <3> QED BY <2>1, <3>1, OwnEntry
    <2>7. lane # "private"
      <3>1. entries # <<>>
        BY <2>1 DEF EntryIds
      <3> QED BY <1>0, <3>1 DEF Homed
    <2>8. Minds(e)
      <3>1. \A u \in TurnIds : /\ turns'[u].by = turns[u].by /\ turns'[u].entry = turns[u].entry
                               /\ turns[u].owner = "done" => turns'[u].owner = "done"
                               /\ turns'[u].owner # "done" => turns'[u].cancelled = turns[u].cancelled
                               /\ u # t => turns'[u].owner = turns[u].owner
        BY <1>1, <1>3
      <3> QED BY <1>3, <2>3, <2>4, <2>5, <2>6, <2>7, <3>1 DEF Minds
    <2>9. ASSUME NEW m \in Elems(x.pending) PROVE Covered(m)'
      <3>1. slot' = e /\ slot' # 0
        BY <1>6, <2>1, <2>3, <2>9, Few
      <3>2. m \in Load(entries'[e])
        BY <2>2, <2>4
      <3> QED BY <3>1, <3>2 DEF Covered, Load, Elems
    <2>10. ASSUME NEW m \in Has(t) PROVE Covered(m)'
      <3>1. CASE x.superseded >= x.current
        <4>1. Minded(e, x, turns, slot) /\ x.current <= x.superseded
          BY <2>1, <3>1 DEF Holding, Held, EntryShape
        <4> QED BY <2>1, <2>9, <4>1 DEF Minded
      <3>2. CASE ~ (x.superseded >= x.current)
        BY <2>3, <3>2 DEF Covered
      <3> QED BY <3>1, <3>2
    <2>11. Delivers
      BY <1>4, <2>1, <2>2, <2>9, <2>10 DEF Delivers
    <2> QED BY <2>8, <2>11, HeldStays
  <1> QED BY <1>5, <1>6

\* What a turn's owner does.
LEMMA OwnerHeld ==
    ASSUME Holding, NEW t \in TurnIds,
           \/ AdmissionTimeout(t) \/ Returns(t) \/ Fails(t) \/ Timeout(t)
           \/ RecordWritten(t) \/ OwnerCancelled(t)
    PROVE  Held'
  <1>0. BufferInv /\ arrived' = arrived
    BY DEF Holding, Placing, AdmissionTimeout, Returns, Fails, Timeout, RecordWritten, OwnerCancelled
  <1>g. Grows
    <2>1. settled \subseteq settled'
      BY DEF AdmissionTimeout, Returns, Fails, Timeout, RecordWritten, OwnerCancelled, Finish, Files
    <2>2. \/ recorded' = recorded
          \/ \E class : recorded' = Recorded(turns[t].items, class)
      BY DEF AdmissionTimeout, Returns, Fails, Timeout, RecordWritten, OwnerCancelled, Files
    <2> QED BY <2>1, <2>2 DEF Grows, Recorded
  <1>1. /\ turns[t].owner # "done"
        /\ \/ \E T : Touches(T, t) /\ Finish(t, T)
           \/ \E new : /\ turns' = Changed(turns, t, new) /\ Alike(turns[t], new)
                       /\ UNCHANGED <<entries, slot>>
                       /\ \/ new.owner # "done" /\ new.cancelled = turns[t].cancelled
                          \/ turns[t].cancelled /\ turns[t].by = "direct"
    BY <1>0, OwnerKinds
  <1>2. ASSUME NEW T, Touches(T, t), Finish(t, T) PROVE Held'
    BY <1>0, <1>g, <1>1, <1>2, FinishHeld
  <1>3. ASSUME NEW new, turns' = Changed(turns, t, new), Alike(turns[t], new), UNCHANGED <<entries, slot>>,
               new.owner # "done", new.cancelled = turns[t].cancelled
        PROVE  Held'
    BY <1>0, <1>g, <1>1, <1>3, TurnHeld DEF Alike
  <1>4. ~ (turns[t].cancelled /\ turns[t].by = "direct")
    BY <1>1 DEF Holding, Held, Homed
  <1> QED BY <1>1, <1>2, <1>3, <1>4

\* The task of an entry is cancelled.
LEMMA CancelKeepsOwners ==
    ASSUME BufferInv, NEW x, x.turn \in TurnIds, turns[x.turn].entry # 0,
           turns' = CancelActive(turns, x)
    PROVE  OwnersKept
  <1> DEFINE t == x.turn
             new == [turns[t] EXCEPT !.cancelled = TRUE]
  <1>0. /\ IsSequence(turns) /\ TurnIds = 1 .. Len(turns) /\ DOMAIN turns = 1 .. Len(turns)
        /\ TurnShape(turns[t])
    BY TurnsAre DEF TurnIds, IsSequence
  <1>1. CASE turns' = turns
    BY <1>1, SameOwners
  <1>2. CASE turns' = [turns EXCEPT ![t].cancelled = TRUE]
    <2>1. turns' = Changed(turns, t, new)
      BY <1>0, <1>2 DEF Changed
    <2>2. /\ new.by = turns[t].by /\ new.entry = turns[t].entry /\ new.items = turns[t].items
          /\ new.owner = turns[t].owner
      BY <1>0 DEF TurnShape, NewTurn
    <2> HIDE DEF new
    <2>3. /\ Len(Changed(turns, t, new)) = Len(turns) /\ Changed(turns, t, new)[t] = new
          /\ \A u \in 1 .. Len(turns) : u # t => Changed(turns, t, new)[u] = turns[u]
      BY <1>0, Replacing
    <2>4. /\ TurnIds' = TurnIds /\ turns'[t] = new
          /\ \A u \in TurnIds : u # t => turns'[u] = turns[u]
      BY <1>0, <2>1, <2>3 DEF TurnIds
    <2> QED BY <2>2, <2>4 DEF OwnersKept
  <1> QED BY <1>1, <1>2 DEF CancelActive

\* A message comes, with the next number.
NextNumber(m) == \A k \in 1 .. arrived' : k \in 1 .. arrived \/ k = m

\* A turn begins with it, and has no entry.
LEMMA AloneHeld ==
    ASSUME Holding, NEW m \in Msgs, NextNumber(m), Grows, UNCHANGED <<entries, slot>>,
           NEW turn, turns' = Append(turns, turn), turn.items = <<m>>, turn.entry = 0,
           turn.owner # "done", ~ turn.cancelled
    PROVE  Held'
  <1> DEFINE n == Len(turns) + 1
  <1>1. /\ Len(turns) \in Nat /\ Len(turns') = n /\ turns'[n] = turn
        /\ \A t \in TurnIds : turns'[t] = turns[t]
    BY TurnsAre, Appended DEF TurnIds, Holding, Placing
  <1>2. /\ TurnIds \subseteq TurnIds' /\ n \in TurnIds' /\ \A t \in TurnIds' : t \in TurnIds \/ t = n
    BY <1>1 DEF TurnIds
  <1> HIDE DEF n
  <1>3. Minds(0)
    <2>1. lane = "private" => slot' = 0 /\ entries' = <<>>
      BY DEF Holding, Held, Homed
    <2>2. EntryIds' = EntryIds /\ 0 \notin EntryIds
      BY DEF EntryIds
    <2> QED BY <1>1, <1>2, <2>1, <2>2 DEF Minds
  <1>4. ASSUME NEW t \in TurnIds, turns[t].owner # "done", NEW k \in Has(t) PROVE Covered(k)'
    BY <1>1, <1>2, <1>4 DEF Covered, Has
  <1>5. Covered(m)'
    <2>1. m \in Elems(turns'[n].items)
      BY <1>1, Few
    <2> QED BY <1>1, <1>2, <2>1 DEF Covered, Has, Elems
  <1>6. slot # 0 => \A k \in Load(entries[slot]) : Covered(k)'
    BY DEF Covered
  <1>7. Delivers
    BY <1>4, <1>5, <1>6 DEF Delivers, NextNumber
  <1> QED BY <1>3, <1>7, HeldStays

\* A group's entry is made for it.
LEMMA MadeHeld ==
    ASSUME Holding, NEW m, NextNumber(m), Grows, turns' = turns, NEW y, ~ y.processing, y.timer # "off",
           m \in Load(y), lane = "group", slot = 0, entries' = Append(entries, y),
           slot' = Len(entries) + 1
    PROVE  Held'
  <1> DEFINE e0 == Len(entries) + 1
  <1>1. /\ Len(entries) \in Nat /\ Len(entries') = e0 /\ entries'[e0] = y
        /\ \A e \in EntryIds : entries'[e] = entries[e]
    BY EntriesAre, Appended DEF EntryIds, Holding, Placing
  <1>2. /\ e0 # 0 /\ \A e \in EntryIds' : e # e0 => e \in EntryIds /\ entries'[e] = entries[e]
    BY <1>1 DEF EntryIds
  <1>3. slot' = e0
    OBVIOUS
  <1> HIDE DEF e0
  <1>4. \A t \in TurnIds : turns[t].owner # "done" => turns[t].entry = 0
    BY DEF Holding, Held, Homed
  <1>5. Minds(e0)
    <2>1. Minded(e0, entries'[e0], turns', slot')
      BY <1>1 DEF Minded
    <2> QED BY <1>2, <1>3, <1>4, <2>1 DEF Minds, TurnIds
  <1>6. Covered(m)'
    <2>1. slot' # 0 /\ m \in Load(entries'[slot'])
      BY <1>1, <1>2, <1>3
    <2> QED BY <2>1 DEF Covered, Load, Elems
  <1>7. \A t \in TurnIds : turns[t].owner # "done" => \A k \in Has(t) : Covered(k)'
    BY SameOwners, KeptCover
  <1>8. Delivers
    BY <1>6, <1>7 DEF Delivers, NextNumber
  <1> QED BY <1>5, <1>8, HeldStays

\* The entry of a group takes it up.
LEMMA PutHeld ==
    ASSUME Holding, NEW m, NextNumber(m), Grows, OwnersKept, slot # 0, slot' = slot, NEW y,
           entries' = Changed(entries, slot, y), y.processing = entries[slot].processing,
           y.turn = entries[slot].turn, Load(entries[slot]) \cup {m} \subseteq Load(y),
           ~ y.processing => y.timer # "off",
           y.processing /\ y.current <= y.superseded => Elems(y.active) \subseteq Elems(y.pending)
    PROVE  Held'
  <1>1. slot \in EntryIds
    BY EntriesAre DEF EntryIds, Holding, Placing
  <1>2. y.processing => turns'[y.turn].owner # "done"
    <2>1. y.processing => y.turn \in TurnIds
      BY <1>1, KnownEntry DEF IsTurnOf, Holding, Placing
    <2>2. y.processing => turns[y.turn].owner # "done"
      BY <1>1 DEF Holding, Held, Minded
    <2> QED BY <2>1, <2>2 DEF OwnersKept
  <1>3. Minded(slot, y, turns', slot)
    BY <1>2 DEF Minded
  <1>4. \A k \in 1 .. arrived' : k \in 1 .. arrived \/ k \in {m}
    BY DEF NextNumber
  <1> QED BY <1>1, <1>3, <1>4, EntryHeld

\* What the policy refuses is on file.
LEMMA RefusedHeld ==
    ASSUME Holding, NEW m \in Msgs, NextNumber(m), Refused(m)
    PROVE  Held'
  <1>1. DOMAIN recorded = Msgs
    BY DEF Holding, Held
  <1>2. /\ recorded' = Changed(recorded, m, recorded[m] \cup {"doubtful"})
        /\ UNCHANGED <<entries, slot, turns, settled>>
    BY <1>1 DEF Refused, Changed
  <1>3. recorded'[m] # {} /\ Grows
    BY <1>1, <1>2 DEF Grows, Changed
  <1>4. Covered(m)'
    BY <1>3 DEF Covered
  <1> QED BY <1>2, <1>3, <1>4, SameOwners, StillHeld DEF NextNumber

\* A group's message.
LEMMA GroupHeld ==
    ASSUME Holding, NEW m \in Msgs, NextNumber(m), NEW cue, ArriveGroup(m, cue)
    PROVE  Held'
  <1>0. BufferInv /\ MsgInv /\ Plain /\ Single /\ Grows
    BY DEF Holding, Placing, Plain, ArriveGroup, Grows
  <1>1. CASE slot = 0
    <2> DEFINE line == Append(NewEntry.items, m)
               put == [NewEntry EXCEPT !.items = line]
               y == Armed(put)
    <2>1. entries' = Append(entries, y) /\ turns' = turns /\ slot' = Len(entries) + 1
      <3>1. ~ NewEntry.processing
        BY DEF NewEntry
      <3> QED BY <1>1, <3>1 DEF ArriveGroup
    <2>2. Elems(line) = {m}
      <3>1. NewEntry.items = <<>>
        BY DEF NewEntry
      <3> QED BY <3>1, Few, Extended
    <2> HIDE DEF line
    <2>3. y.items = line /\ ~ y.processing /\ y.timer = "armed"
      BY DEF Armed, NewEntry
    <2> HIDE DEF y
    <2> QED BY <1>0, <1>1, <2>1, <2>2, <2>3, MadeHeld DEF Load, Plain
  <1>2. CASE slot # 0
    <2> DEFINE x == entries[slot]
    <2>0. slot \in EntryIds /\ EntryShape(x) /\ Neat(x)
      <3>1. slot \in EntryIds
        BY <1>0, <1>2, EntriesAre DEF EntryIds
      <3> QED BY <1>0, <3>1, KnownEntry DEF MsgInv, Placed
    <2>k. slot' = slot /\ (turns' = turns => OwnersKept)
      BY <1>2, SameOwners DEF ArriveGroup
    <2>1. CASE /\ UNCHANGED turns /\ ~ x.processing
               /\ entries' = [entries EXCEPT ![slot] = Armed([x EXCEPT !.items = Append(x.items, m)])]
      <3> DEFINE line == Append(x.items, m)
                 y == Armed([x EXCEPT !.items = line])
      <3>1. entries' = Changed(entries, slot, y)
        BY <2>1 DEF Changed
      <3>2. /\ y.processing = x.processing /\ y.turn = x.turn /\ y.timer = "armed"
            /\ y.items = line /\ y.pending = x.pending /\ y.related = x.related
        <4> HIDE DEF line
        <4> QED BY <2>0 DEF Armed, EntryShape, NewEntry
      <3>3. Elems(line) = Elems(x.items) \cup {m}
        BY <2>0, Extended DEF Neat, Lists
      <3> HIDE DEF y, line
      <3>4. Load(x) \cup {m} \subseteq Load(y)
        BY <3>2, <3>3 DEF Load
      <3> QED BY <1>0, <1>2, <2>1, <2>k, <3>1, <3>2, <3>4, PutHeld
    <2>2. CASE /\ x.processing /\ Preemptable(x)
               /\ entries' = [entries EXCEPT ![slot] = Preempted(x, m)]
               /\ turns' = CancelActive(turns, x)
      <3> DEFINE line == Merged(x.active, Append(x.pending, m))
                 y == Preempted(x, m)
      <3>1. entries' = Changed(entries, slot, y)
        BY <2>2 DEF Changed
      <3>2. /\ y.processing = x.processing /\ y.turn = x.turn /\ y.active = x.active
            /\ y.items = x.items /\ y.pending = line /\ y.related = x.related
        <4>1. y = [x EXCEPT !.pending = line, !.superseded = Greatest(@, x.current)]
          BY DEF Preempted
        <4> HIDE DEF line, y
        <4> QED BY <2>0, <4>1 DEF EntryShape, NewEntry
      <3>3. Elems(line) = Elems(x.active) \cup Elems(x.pending) \cup {m}
        <4>1. x.pending \in Seq(Msgs) /\ x.active \in Seq(Msgs)
          BY <2>0 DEF Neat, Lists
        <4>2. /\ Append(x.pending, m) \in Seq(Msgs)
              /\ Elems(Append(x.pending, m)) = Elems(x.pending) \cup {m}
          BY <4>1, Extended
        <4>3. Elems(Merged(x.active, Append(x.pending, m)))
                = Elems(x.active) \cup Elems(Append(x.pending, m))
          BY <4>1, <4>2, MergedIs
        <4> QED BY <4>2, <4>3
      <3> HIDE DEF y, line
      <3>4. Load(x) \cup {m} \subseteq Load(y)
        BY <3>2, <3>3 DEF Load
      <3>5. OwnersKept
        <4>1. x.turn \in TurnIds /\ turns[x.turn].entry # 0
          BY <1>0, <2>0, <2>2, KnownEntry DEF IsTurnOf
        <4> QED BY <1>0, <2>2, <4>1, CancelKeepsOwners
      <3> QED BY <1>0, <1>2, <2>2, <2>k, <3>1, <3>2, <3>3, <3>4, <3>5, PutHeld
    <2>3. CASE /\ UNCHANGED turns /\ x.processing
               /\ entries' = [entries EXCEPT ![slot] =
                     IF Eligible(x, turns)
                     THEN [[x EXCEPT !.pending = Append(x.pending, m)] EXCEPT
                            !.candidates = Append(@, m),
                            !.drain = IF @.pc = "off" THEN NewDrain(x.current) ELSE @]
                     ELSE Armed([x EXCEPT !.pending = Append(x.pending, m)])]
      <3> DEFINE line == Append(x.pending, m)
                 y == Armed([x EXCEPT !.pending = line])
      <3>e. ~ Eligible(x, turns)
        BY <1>0, <2>0 DEF Plain, Neat, Eligible, CanReplace, ReplacementPending
      <3>1. entries' = Changed(entries, slot, y)
        BY <2>3, <3>e DEF Changed
      <3>2. /\ y.processing = x.processing /\ y.turn = x.turn /\ y.active = x.active
            /\ y.current = x.current /\ y.superseded = x.superseded
            /\ y.items = x.items /\ y.pending = line /\ y.related = x.related
        <4> HIDE DEF line
        <4> QED BY <2>0 DEF Armed, EntryShape, NewEntry
      <3>3. Elems(line) = Elems(x.pending) \cup {m}
        BY <2>0, Extended DEF Neat, Lists
      <3>m. x.processing /\ x.current <= x.superseded => Elems(x.active) \subseteq Elems(x.pending)
        BY <2>0 DEF Holding, Held, Minded
      <3> HIDE DEF y, line
      <3>4. Load(x) \cup {m} \subseteq Load(y)
        BY <3>2, <3>3 DEF Load
      <3> QED BY <1>0, <1>2, <2>3, <2>k, <3>1, <3>2, <3>3, <3>m, <3>4, PutHeld
    <2> QED BY <1>2, <2>1, <2>2, <2>3 DEF ArriveGroup
  <1> QED BY <1>1, <1>2

\* An event comes.
LEMMA ArriveHeld == ASSUME Holding, Arrive PROVE Held'
  <1> DEFINE m == arrived + 1
  <1>0. /\ arrived \in 0 .. Events /\ session.events \in 0 .. Events /\ Events \in Nat
        /\ arrived < session.events /\ arrived' = arrived + 1
    BY ConstantsAssumption DEF Holding, Placing, MsgInv, Arrive
  <1>1. m \in Msgs /\ NextNumber(m)
    BY <1>0 DEF Msgs, NextNumber
  <1>2. \/ Refused(m) \/ Poke(m) \/ ArrivePrivate(m)
        \/ \E cue \in BOOLEAN : ArriveGroup(m, cue)
    BY DEF Arrive
  <1> HIDE DEF m
  <1>3. CASE Refused(m)
    BY <1>1, <1>3, RefusedHeld
  <1>4. CASE Poke(m)
    <2> DEFINE turn == NewTurn("poke", 0, 1, <<m>>, FALSE)
    <2>1. /\ turns' = Append(turns, turn) /\ UNCHANGED <<entries, slot>> /\ Grows
      BY <1>4 DEF Poke, Grows
    <2>2. turn.items = <<m>> /\ turn.entry = 0 /\ turn.owner # "done" /\ ~ turn.cancelled
      BY DEF NewTurn
    <2> HIDE DEF turn
    <2> QED BY <1>1, <2>1, <2>2, AloneHeld
  <1>5. CASE ArrivePrivate(m)
    <2> DEFINE turn == Direct(0, m)
    <2>1. slot = 0 /\ ~ supplements
      BY <1>5 DEF ArrivePrivate, Holding, Held, Homed
    <2>2. /\ turns' = Append(turns, turn) /\ UNCHANGED <<entries, slot>> /\ Grows
      BY <1>5, <2>1 DEF ArrivePrivate, Grows
    <2>3. turn.items = <<m>> /\ turn.entry = 0 /\ turn.owner # "done" /\ ~ turn.cancelled
      BY DEF Direct, NewTurn
    <2> HIDE DEF turn
    <2> QED BY <1>1, <2>2, <2>3, AloneHeld
  <1>6. ASSUME NEW cue \in BOOLEAN, ArriveGroup(m, cue) PROVE Held'
    BY <1>1, <1>6, GroupHeld
  <1> QED BY <1>2, <1>3, <1>4, <1>5, <1>6

\* The delay of a timer is over.
LEMMA FiresHeld == ASSUME Holding, NEW e \in EntryIds, TimerFires(e) PROVE Held'
  <1> DEFINE x == entries[e]
             at == IF slot # e \/ entries[e].processing THEN "off" ELSE "gate"
             y == [x EXCEPT !.timer = at]
             none == {}
  <1>0. EntryShape(x) /\ DOMAIN entries = EntryIds
    BY KnownEntry DEF Holding, Placing
  <1>1. /\ entries' = Changed(entries, e, y) /\ slot' = slot /\ turns' = turns
        /\ arrived' = arrived /\ Grows
    BY <1>0 DEF TimerFires, Changed, ghosts, Grows
  <1>2. e = slot /\ ~ x.processing => at # "off"
    OBVIOUS
  <1> HIDE DEF at
  <1>3. /\ y.processing = x.processing /\ y.turn = x.turn /\ y.active = x.active
        /\ y.current = x.current /\ y.superseded = x.superseded /\ y.timer = at
        /\ y.items = x.items /\ y.pending = x.pending /\ y.related = x.related
    BY <1>0 DEF EntryShape, NewEntry
  <1> HIDE DEF y
  <1>4. Minded(e, y, turns', slot)
    <2>1. Minded(e, x, turns, slot)
      BY DEF Holding, Held
    <2> QED BY <1>1, <1>2, <1>3, <2>1 DEF Minded
  <1>5. Load(x) \cup none \subseteq Load(y) /\ none = {}
    BY <1>3 DEF Load
  <1> HIDE DEF none
  <1> QED BY <1>1, <1>4, <1>5, SameOwners, EntryHeld

\* The policy gate lets a batch pass, or what is left of it.
LEMMA TimerStartsHeld ==
    ASSUME Holding, NEW e \in EntryIds, NEW refused, TimerStarts(e, refused) PROVE Held'
  <1> DEFINE x == entries[e]
             kept == Kept(x, refused)
             g == x.current + 1
             n == Len(turns) + 1
             window == IF supplements /\ Split(x).window = "none" THEN "open" ELSE Split(x).window
             y == [Split(x) EXCEPT !.processing = TRUE, !.active = kept, !.items = <<>>,
                                   !.original = <<>>, !.current = g, !.token = g,
                                   !.turn = n, !.repl = 0, !.window = window]
             random == lane = "group" /\ Elems(kept) \cap cues = {}
             turn == NewTurn("timer", e, g, kept, random)
             taken == SubSeq(x.items, 1, Cut(x))
             tail == Leftover(x)
             new == IF tail # <<>> THEN Armed(Promoted(Split(x))) ELSE Split(x)
  <1>0. /\ x.timer = "gate" /\ UNCHANGED <<arrived, settled>> /\ slot = e
        /\ recorded' = [m \in Msgs |-> IF m \in refused THEN recorded[m] \cup {"doubtful"}
                                       ELSE recorded[m]]
        /\ \/ /\ kept = <<>> /\ entries' = [entries EXCEPT ![e] = new] /\ UNCHANGED turns
              /\ slot' = IF tail # <<>> THEN slot ELSE 0
           \/ /\ entries' = [entries EXCEPT ![e] = y] /\ turns' = Append(turns, turn)
              /\ slot' = slot
    BY DEF TimerStarts, Cut, Kept, Leftover, Split
  <1>1. /\ EntryShape(x) /\ Neat(x) /\ ~ x.processing /\ BufferInv /\ DOMAIN entries = EntryIds
        /\ EntryIds = 1 .. Len(entries) /\ IsSequence(entries) /\ e # 0 /\ Homed
    BY <1>0, KnownEntry DEF BufferInv, Owned, Holding, Held, Placing, MsgInv, Placed
  <1>2. /\ Elems(kept) = Elems(taken) \ refused /\ Elems(x.items) \cup Elems(x.pending) = Elems(taken) \cup Elems(tail)
        /\ kept \in Seq(Msgs) /\ tail \in Seq(Msgs)
    BY <1>1, CutsWell
  <1>3. x.related = <<>> /\ Load(x) = Elems(taken) \cup Elems(tail) /\ Load(x) \subseteq Msgs
    <2>1. x.related = <<>> /\ Elems(x.related) = {}
      BY <1>1, Few DEF Neat, Holding
    <2>2. Elems(x.items) \subseteq Msgs /\ Elems(x.pending) \subseteq Msgs
      BY <1>1, ElemsAre DEF Neat, Lists
    <2> QED BY <1>2, <2>1, <2>2 DEF Load
  <1>4. Grows
    BY <1>0 DEF Grows
  <1>5. ASSUME NEW m \in Elems(taken), m \in refused PROVE Covered(m)'
    BY <1>0, <1>3, <1>5 DEF Covered
  <1>6. \A t \in TurnIds : turns[t].owner # "done" => turns[t].entry = 0
    BY <1>0, <1>1, OwnEntry
  <1>7. lane # "private"
    <2>1. entries # <<>>
      BY <1>1
    <2> QED BY <1>1, <2>1 DEF Homed
  <1>8. ASSUME NEW z, entries' = Changed(entries, e, z)
        PROVE  /\ EntryIds' = EntryIds /\ entries'[e] = z
               /\ \A f \in EntryIds : f # e => entries'[f] = entries[f]
    <2>1. /\ Len(Changed(entries, e, z)) = Len(entries) /\ Changed(entries, e, z)[e] = z
          /\ \A f \in 1 .. Len(entries) : f # e => Changed(entries, e, z)[f] = entries[f]
      BY <1>1, Replacing
    <2> QED BY <1>1, <1>8, <2>1 DEF EntryIds
  <1> HIDE DEF turn, n, y, random, window, kept, new, g, x, taken, tail
  <1>9. CASE /\ kept = <<>> /\ entries' = [entries EXCEPT ![e] = new] /\ UNCHANGED turns
             /\ slot' = IF tail # <<>> THEN slot ELSE 0
    <2>1. /\ EntryIds' = EntryIds /\ entries'[e] = new
          /\ \A f \in EntryIds : f # e => entries'[f] = entries[f]
      <3>1. entries' = Changed(entries, e, new)
        BY <1>9 DEF Changed
      <3> QED BY <1>8, <3>1
    <2>2. ~ new.processing /\ (tail # <<>> => new.items = tail /\ new.timer # "off")
      BY <1>1, RefusedFlows DEF new, tail
    <2>3. Minds(e)
      <3>1. Minded(e, new, turns', slot')
        BY <1>0, <1>1, <1>9, <2>2 DEF Minded
      <3> QED BY <1>0, <1>6, <1>7, <1>9, <2>1, <3>1 DEF Minds, TurnIds
    <2>4. ASSUME NEW m \in Load(x) PROVE Covered(m)'
      <3>1. CASE m \in Elems(taken)
        BY <1>2, <1>5, <1>9, <3>1, Few
      <3>2. CASE m \in Elems(tail)
        <4>1. tail # <<>>
          BY <3>2, Few
        <4>2. slot' = e /\ slot' # 0 /\ m \in Load(entries'[e])
          BY <1>0, <1>1, <1>9, <2>1, <2>2, <3>2, <4>1 DEF Load
        <4> QED BY <4>2 DEF Covered, Load, Elems
      <3> QED BY <1>3, <2>4, <3>1, <3>2
    <2>5. Delivers
      <3>1. \A t \in TurnIds : turns[t].owner # "done" => \A m \in Has(t) : Covered(m)'
        BY <1>9, SameOwners, KeptCover
      <3>2. slot # 0 => \A m \in Load(entries[slot]) : Covered(m)'
        BY <1>0, <2>4 DEF x
      <3> QED BY <1>0, <1>4, <3>1, <3>2 DEF Delivers
    <2> QED BY <2>3, <2>5, HeldStays
  <1>10. CASE /\ entries' = [entries EXCEPT ![e] = y] /\ turns' = Append(turns, turn)
              /\ slot' = slot
    <2>1. /\ EntryIds' = EntryIds /\ entries'[e] = y
          /\ \A f \in EntryIds : f # e => entries'[f] = entries[f]
      <3>1. entries' = Changed(entries, e, y)
        BY <1>10 DEF Changed
      <3> QED BY <1>8, <3>1
    <2>2. /\ turn.items = kept /\ turn.entry = e /\ turn.by = "timer" /\ turn.owner = "admit"
          /\ ~ turn.cancelled
      BY DEF turn, NewTurn
    <2>3. /\ y.processing /\ y.turn = n /\ y.pending = tail /\ y.current = g
          /\ y.superseded = x.superseded
      <3>1. ~ supplements => window = "none"
        <4>1. Split(x).window = x.window
          BY <1>1, SplitIs
        <4> QED BY <1>1, <4>1 DEF window, Neat
      <3>2. y = Opening(Split(x), n, g, kept, <<>>, window)
        BY DEF y, Opening
      <3>3. g \in Nat /\ x.current < g /\ kept = Kept(x, refused)
        BY <1>1 DEF g, kept, EntryShape
      <3>4. TakesUp(x, y, n, g, kept)
        BY <1>1, <3>1, <3>2, <3>3, OpensNeatly, Z3
      <3> QED BY <3>4 DEF TakesUp, tail
    <2>4. ~ (y.current <= y.superseded)
      BY <1>1, <2>3 DEF g, EntryShape, Neat
    <2>5. /\ Len(turns) \in Nat /\ Len(turns') = n /\ turns'[n] = turn
          /\ \A t \in TurnIds : turns'[t] = turns[t]
      BY <1>1, <1>10, TurnsAre, Appended DEF TurnIds, n
    <2>6. /\ TurnIds \subseteq TurnIds' /\ n \in TurnIds' /\ \A t \in TurnIds' : t \in TurnIds \/ t = n
      BY <2>5 DEF TurnIds, n
    <2>7. Minds(e)
      <3>1. Minded(e, y, turns', slot')
        BY <2>2, <2>3, <2>4, <2>5 DEF Minded
      <3> QED BY <1>0, <1>7, <1>10, <2>1, <2>2, <2>5, <2>6, <3>1 DEF Minds
    <2>8. ASSUME NEW m \in Load(x) PROVE Covered(m)'
      <3>1. CASE m \in Elems(kept)
        BY <2>2, <2>5, <2>6, <3>1 DEF Covered, Has, Elems
      <3>2. CASE m \in Elems(tail)
        <4>1. slot' = e /\ slot' # 0 /\ m \in Load(entries'[e])
          BY <1>0, <1>1, <1>10, <2>1, <2>3, <3>2 DEF Load
        <4> QED BY <4>1 DEF Covered, Load, Elems
      <3> QED BY <1>2, <1>3, <1>5, <2>8, <3>1, <3>2
    <2>9. Delivers
      <3>1. ASSUME NEW t \in TurnIds, turns[t].owner # "done", NEW m \in Has(t) PROVE Covered(m)'
        BY <2>5, <2>6, <3>1 DEF Covered, Has
      <3>2. slot # 0 => \A m \in Load(entries[slot]) : Covered(m)'
        BY <1>0, <2>8 DEF x
      <3> QED BY <1>0, <1>4, <3>1, <3>2 DEF Delivers
    <2> QED BY <2>7, <2>9, HeldStays
  <1> QED BY <1>0, <1>9, <1>10

LEMMA InitHeld == Init => HeldInv
  <1> SUFFICES ASSUME Init PROVE Held
    BY DEF HeldInv
  <1>1. EntryIds = {} /\ TurnIds = {} /\ 1 .. arrived = {}
    BY DEF Init, EntryIds, TurnIds
  <1>2. DOMAIN recorded = Msgs /\ slot = 0 /\ entries = <<>>
    BY DEF Init
  <1> QED BY <1>1, <1>2 DEF Held, Homed

LEMMA NextHeld ==
    BufferInv /\ BufferInv' /\ MsgInv /\ HeldInv /\ [Next]_vars => HeldInv'
  <1> SUFFICES ASSUME BufferInv, BufferInv', MsgInv, HeldInv, [Next]_vars, ~ supplements
               PROVE  Held'
    BY SessionKept DEF HeldInv, supplements
  <1>1. Holding /\ Placing
    BY SessionKept DEF Holding, Placing, HeldInv, Single
  <1>2. CASE Arrive
    BY <1>1, <1>2, ArriveHeld
  <1>3. CASE JoinResumes
    BY <1>1, <1>3 DEF Placing, MsgInv, Queueing, JoinResumes
  <1>4. ASSUME NEW t \in TurnIds, TurnStep(t) PROVE Held'
    BY <1>1, <1>4, OwnerHeld, GenerationHeld DEF TurnStep
  <1>5. ASSUME NEW e \in EntryIds, EntryStep(e) PROVE Held'
    <2>1. entries[e].window = "none"
      BY <1>1 DEF Placing, MsgInv, Placed, Neat
    <2>2. ~ WindowCloses(e)
      BY <2>1 DEF WindowCloses
    <2> QED BY <1>1, <1>5, <2>2, FiresHeld, TimerStartsHeld, NoDrains DEF EntryStep
  <1>6. CASE UNCHANGED vars
    <2>1. turns' = turns /\ UNCHANGED <<entries, slot, arrived>> /\ Grows
      BY <1>6 DEF vars, ghosts, Grows
    <2> QED BY <1>1, <2>1, SameOwners, StillHeld
  <1> QED BY <1>2, <1>3, <1>4, <1>5, <1>6 DEF Next

\* Without supplements no message is lost or left lying: what a turn had taken and has
\* not settled is in the queue of the entry under the key again, and that entry has a
\* timer or a live owner (_promote_pending_batch, finalize_generation, run_buffer_timer).
THEOREM PlainNothingStrandedAlways == Spec => []PlainNothingStranded
  <1>1. ASSUME BufferInv, MsgInv, HeldInv PROVE PlainNothingStranded
    <2> SUFFICES ASSUME ~ supplements, NEW m \in 1 .. arrived
                 PROVE  m \in settled \/ recorded[m] # {} \/ Carried(m)
      BY DEF PlainNothingStranded, NothingStranded
    <2>1. Held /\ Covered(m)
      BY <1>1 DEF HeldInv, Held
    <2>2. CASE m \in settled \/ recorded[m] # {}
      BY <2>2
    <2>3. CASE \E t \in TurnIds : turns[t].owner # "done" /\ m \in Has(t)
      BY <2>3 DEF Carried, Has
    <2>4. CASE slot # 0 /\ m \in Load(entries[slot])
      <3> DEFINE x == entries[slot]
                 all == x.items \o x.pending \o x.active \o x.related
      <3>1. slot \in EntryIds /\ Minded(slot, x, turns, slot) /\ Neat(x)
        <4>1. slot \in EntryIds
          BY <1>1, <2>4, EntriesAre DEF EntryIds
        <4> QED BY <1>1, <2>1, <4>1 DEF Held, MsgInv, Placed, Single
      <3>2. Attended(slot)
        <4>1. CASE ~ x.processing
          BY <2>4, <3>1, <4>1 DEF Minded, Attended
        <4>2. CASE x.processing
          <5>1. x.turn \in TurnIds /\ turns[x.turn].entry = slot /\ turns[x.turn].owner # "done"
            BY <1>1, <3>1, <4>2, KnownEntry DEF IsTurnOf, Minded
          <5> QED BY <5>1 DEF Attended, LiveOwner
        <4> QED BY <4>1, <4>2
      <3>3. m \in Elems(all)
        <4>1. /\ x.items \in Seq(Msgs) /\ x.pending \in Seq(Msgs)
              /\ x.active \in Seq(Msgs) /\ x.related \in Seq(Msgs)
          BY <3>1 DEF Neat, Lists
        <4>2. /\ x.items \o x.pending \in Seq(Msgs)
              /\ Elems(x.items \o x.pending) = Elems(x.items) \cup Elems(x.pending)
          BY <4>1, Joined
        <4>3. /\ x.items \o x.pending \o x.active \in Seq(Msgs)
              /\ Elems(x.items \o x.pending \o x.active)
                    = Elems(x.items \o x.pending) \cup Elems(x.active)
          BY <4>1, <4>2, Joined
        <4>4. Elems(all) = Elems(x.items \o x.pending \o x.active) \cup Elems(x.related)
          BY <4>1, <4>3, Joined
        <4> HIDE DEF x, all
        <4>5. m \in Load(x)
          BY <2>4 DEF x
        <4> QED BY <4>2, <4>3, <4>4, <4>5 DEF Load
      <3> QED BY <2>4, <3>2, <3>3 DEF Carried
    <2> QED BY <2>1, <2>2, <2>3, <2>4 DEF Covered
  <1>2. Spec => [](BufferInv /\ MsgInv /\ HeldInv)
    BY BufferAlways, InitBuffer, InitMsg, NextMsg, InitHeld, NextHeld, PTL DEF Spec
  <1> QED BY <1>1, <1>2, PTL
=============================================================================
