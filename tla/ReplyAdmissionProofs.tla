------------------------ MODULE ReplyAdmissionProofs ------------------------
(***************************************************************************)
(* The limits of ReplyAdmission and the commit lock of a session, for any  *)
(* sessions, turns, gates and limits.                                      *)
(*                                                                         *)
(* A gate may be discarded only when nobody needs it, so the argument is   *)
(* about its books: refs counts the turns inside and the entry that        *)
(* retains the gate, and the slots that are left and those that are held   *)
(* make up the limit.  Hence whoever is inside a gate, or sends under its  *)
(* lock, finds it in the table, and a session has one gate at a time.      *)
(***************************************************************************)
EXTENDS ReplyAdmission, FiniteSetTheorems, TLAPS

Holders(g)  == {t \in Inside(g) : HasSession(t)}
AllHolders  == {t \in Turns : HasGlobal(t)}
Retained(g) == IF \E k \in kept : table[k] = g THEN 1 ELSE 0

RefsBalance  == \A g \in Gates : gates[g].refs = Cardinality(Inside(g)) + Retained(g)
SlotsBalance == \A g \in Gates : gates[g].slots + Cardinality(Holders(g)) = scene.session_limit
AllBalance   == slots + Cardinality(AllHolders) = scene.global_limit

\* Who is inside a gate or sends under its lock has the session's gate.
AtHome   == \A t \in Turns : turns[t].stage # "out" \/ Sending(t)
                                => table[turns[t].key] = turns[t].gate
OwnGates == \A k, l \in Sessions : table[k] = table[l] /\ table[k] # None => k = l
KeptHave == \A k \in kept : table[k] # None
OneSends == \A t, u \in Turns : Sending(t) /\ Sending(u) /\ turns[t].gate = turns[u].gate => t = u

IInv == /\ TypeOK
        /\ RefsBalance /\ SlotsBalance /\ AllBalance
        /\ AtHome /\ OwnGates /\ KeptHave /\ OneSends
LEMMA Counting ==
    ASSUME NEW S \in SUBSET Turns
    PROVE  /\ Cardinality(S) \in Nat
           /\ \A t : t \notin S => Cardinality(S \cup {t}) = Cardinality(S) + 1
           /\ \A t \in S : Cardinality(S \ {t}) = Cardinality(S) - 1
           /\ S # {} => Cardinality(S) > 0
  <1>1. IsFiniteSet(S)
    BY FS_Subset, ConstantsAssumption
  <1>2. ASSUME NEW t, t \notin S PROVE Cardinality(S \cup {t}) = Cardinality(S) + 1
    BY <1>1, <1>2, FS_AddElement
  <1>3. ASSUME NEW t \in S PROVE Cardinality(S \ {t}) = Cardinality(S) - 1
    BY <1>1, FS_RemoveElement
  <1>4. Cardinality(S) \in Nat /\ (Cardinality(S) = 0 <=> S = {})
    BY <1>1, FS_CardinalityType, FS_EmptySet
  <1> QED
    BY <1>2, <1>3, <1>4

\* A turn that is not away is there in full.
LEMMA Present ==
    ASSUME TypeOK, NEW t \in Turns, turns[t].stage # "out" \/ turns[t] # Away
    PROVE  turns[t] \in Turn /\ turns[t] # Away
  BY DEF TypeOK, Away

LEMMA Full ==
    ASSUME NEW r \in Turn
    PROVE  /\ r # Away /\ r.key \in Sessions /\ r.gate \in Gates /\ r.stage \in Stages
           /\ r.direct \in BOOLEAN /\ r.poke \in BOOLEAN
           /\ r.wait \in {"asks", "waits", "woken"}
           /\ r.reply \in {"none", "running", "sending"}
           /\ r.back \in {"none", "waits", "sending"}
           /\ Kept(r) \in Turn \cup {Away}
  BY ConstantsAssumption DEF Turn, Away, Kept, Stages

\* Whoever is woken waited, and nothing else of anybody changes.
LEMMA Wakes ==
    ASSUME TypeOK, NEW W, \A u \in W \cap Turns : turns[u] \in Turn
    PROVE  /\ Woken(W) \in [Turns -> Turn \cup {Away}]
           /\ \A u \in Turns \ W : Woken(W)[u] = turns[u]
           /\ \A u \in W \cap Turns : /\ Woken(W)[u] = [turns[u] EXCEPT !.wait = "woken"]
                                      /\ Woken(W)[u] \in Turn
  <1>1. ASSUME NEW r \in Turn PROVE [r EXCEPT !.wait = "woken"] \in Turn
    BY DEF Turn
  <1> QED
    BY <1>1 DEF Woken, TypeOK

LEMMA HeirWaits ==
    ASSUME TypeOK, NEW S \in SUBSET Turns, NEW v \in Heirs(S)
    PROVE  v = None \/ (v \in S /\ turns[v].wait = "waits")
  BY DEF Heirs, First, Waiting
-----------------------------------------------------------------------------
(* Types                                                                    *)

LEMMA GateTyped ==
    ASSUME NEW x \in Gate
    PROVE  /\ \A n \in Nat : /\ [x EXCEPT !.refs = n] \in Gate
                             /\ [x EXCEPT !.slots = n] \in Gate
           /\ Started(x) \in Gate
           /\ x.refs \in Nat /\ x.slots \in Nat /\ x.direct_count \in Nat
           /\ \A r \in Turn, spare \in BOOLEAN : Released(r, x, spare) \in Gate
  <1>1. /\ x.refs \in Nat /\ x.slots \in Nat /\ x.direct_count \in Nat /\ x.waiters \in Nat
        /\ x.active \in Nat /\ x.direct_idle \in BOOLEAN
    BY DEF Gate
  <1>2. ASSUME NEW n \in Nat PROVE [x EXCEPT !.refs = n] \in Gate /\ [x EXCEPT !.slots = n] \in Gate
    BY DEF Gate
  <1>3. ASSUME NEW n \in Nat PROVE Less(n) \in Nat
    BY DEF Less
  <1>4. Started(x) \in Gate
    <2> DEFINE w == Less(x.waiters)
               c == x.active + 1
    <2>1. w \in Nat /\ c \in Nat
      BY <1>1, <1>3
    <2>2. Started(x) = [x EXCEPT !.waiters = w, !.active = c]
      BY Zenon DEF Started
    <2> HIDE DEF w, c
    <2> QED
      BY <2>1, <2>2 DEF Gate
  <1>5. ASSUME NEW r \in Turn, NEW spare \in BOOLEAN PROVE Released(r, x, spare) \in Gate
    <2>1. r.direct \in BOOLEAN
      BY Full
    <2> DEFINE n == Less(x.refs)
               d == IF r.direct THEN Less(x.direct_count) ELSE x.direct_count
               w == IF r.stage = "active" THEN x.waiters ELSE Less(x.waiters)
               c == IF r.stage = "active" THEN Less(x.active) ELSE x.active
               i == IF r.direct /\ x.direct_count < 2 THEN TRUE ELSE x.direct_idle
               m == IF spare THEN x.slots + 1 ELSE x.slots
    <2>2. n \in Nat /\ d \in Nat /\ w \in Nat /\ c \in Nat /\ m \in Nat
      BY <1>1, <1>3, <2>1
    <2>3. i \in BOOLEAN
      BY <1>1, Zenon
    <2>4. Released(r, x, spare) =
            [x EXCEPT !.refs = n, !.active = c, !.waiters = w, !.direct_count = d,
                      !.direct_idle = i, !.slots = m]
      BY Zenon DEF Released
    <2> HIDE DEF n, d, w, c, i, m
    <2>5. [x EXCEPT !.refs = n, !.active = c, !.waiters = w, !.direct_count = d,
                    !.direct_idle = i, !.slots = m] \in Gate
      BY <2>2, <2>3 DEF Gate
    <2> QED
      BY <2>4, <2>5
  <1> QED
    BY <1>1, <1>2, <1>4, <1>5

LEMMA Limits ==
    ASSUME TypeOK
    PROVE  /\ scene.session_limit \in Nat \ {0} /\ scene.global_limit \in Nat \ {0}
           /\ NewGate \in Gate
           /\ \A t \in Turns : scene.calls[t] \subseteq Call
  <1>1. scene \in Scenes /\ Scenes \subseteq [calls : [Turns -> SUBSET Call], entries : SUBSET Sessions,
            session_limit : Nat \ {0}, global_limit : Nat \ {0}]
    BY ConstantsAssumption DEF TypeOK
  <1>2. scene.session_limit \in Nat \ {0} /\ scene.global_limit \in Nat \ {0}
        /\ scene.calls \in [Turns -> SUBSET Call]
    BY <1>1
  <1> QED
    BY <1>2 DEF NewGate, Gate

LEMMA GateFound ==
    ASSUME TypeOK, NEW k \in Sessions, NEW g \in GatesFor(k)
    PROVE  /\ g \in Gates /\ Found(k, g) \in Gate
           /\ \/ table[k] # None /\ g = table[k] /\ Found(k, g) = gates[g]
              \/ /\ table[k] = None /\ Found(k, g) = NewGate
                 /\ \A l \in Sessions : table[l] # g
                 /\ \A t \in Turns : turns[t].gate # g
  <1>1. CASE table[k] # None
    BY <1>1 DEF GatesFor, Found, TypeOK
  <1>2. CASE table[k] = None
    <2>1. Unused # {} /\ g \in Unused
      BY <1>2 DEF GatesFor
    <2> QED
      BY <1>2, <2>1, Limits DEF Unused, Found
  <1> QED
    BY <1>1, <1>2

LEMMA Altered ==
    ASSUME NEW r \in Turn
    PROVE  /\ \A s \in Stages, w \in {"asks", "waits", "woken"} :
                 [r EXCEPT !.stage = s, !.wait = w] \in Turn
           /\ \A s \in Stages : [r EXCEPT !.stage = s] \in Turn
           /\ [r EXCEPT !.wait = "waits"] \in Turn
           /\ Admitted(r) \in Turn
           /\ \A x \in {"none", "running", "sending"} : [r EXCEPT !.reply = x] \in Turn
           /\ \A x \in {"none", "waits", "sending"} : [r EXCEPT !.back = x] \in Turn
  BY DEF Turn, Admitted, Stages

\* t takes the session's slot handed to it and passes a spare one on to v.
HandsOn(t, v) ==
    LET g == turns[t].gate IN
    /\ \/ v = None
       \/ /\ v \in Turns \ {t} /\ turns[v] \in Turn /\ gates[g].slots > 0
          /\ turns[v].gate = g /\ turns[v].stage = "session" /\ turns[v].wait = "waits"
    /\ gates' = [gates EXCEPT ![g].slots = IF v = None THEN @ ELSE @ - 1]
    /\ \A u \in Turns \ {t} : turns'[u] = IF u = v THEN [turns[u] EXCEPT !.wait = "woken"]
                                          ELSE turns[u]

\* What a step that hands slots over, or ends a turn, does to the turns.
LEMMA TookSession ==
    ASSUME TypeOK, NEW t \in Turns, TakeSession(t)
    PROVE  /\ turns[t] \in Turn
           /\ turns' \in [Turns -> Turn \cup {Away}]
           /\ turns'[t] = [turns[t] EXCEPT !.stage = "global", !.wait = "asks"]
           /\ \E v : HandsOn(t, v)
  <1> DEFINE g == turns[t].gate
  <1>1. turns[t] \in Turn /\ turns[t].stage = "session" /\ turns[t].wait = "woken"
    BY Present DEF TakeSession
  <1> PICK v \in IF gates[g].slots > 0 THEN Heirs(AtSession(g)) ELSE {None} :
          /\ gates' = [gates EXCEPT ![g].slots = IF v = None THEN @ ELSE @ - 1]
          /\ turns' = [Woken({v}) EXCEPT ![t].stage = "global", ![t].wait = "asks"]
    BY DEF TakeSession
  <1>2. \/ v = None
        \/ /\ gates[g].slots > 0 /\ v \in Turns \ {t} /\ turns[v] \in Turn
           /\ turns[v].gate = g /\ turns[v].stage = "session" /\ turns[v].wait = "waits"
    <2>1. AtSession(g) \in SUBSET Turns
      BY DEF AtSession, Inside
    <2>2. v = None \/ (gates[g].slots > 0 /\ v \in AtSession(g) /\ turns[v].wait = "waits")
      BY <2>1, HeirWaits
    <2>3. ASSUME v \in AtSession(g), turns[v].wait = "waits"
          PROVE  v \in Turns \ {t} /\ turns[v] \in Turn /\ turns[v].gate = g /\ turns[v].stage = "session"
      BY <2>3, <1>1, Present DEF AtSession, Inside
    <2> QED
      BY <2>2, <2>3
  <1>3. \A u \in {v} \cap Turns : turns[u] \in Turn
    BY <1>2, ConstantsAssumption
  <1>4. /\ Woken({v}) \in [Turns -> Turn \cup {Away}]
        /\ \A u \in Turns : Woken({v})[u] = IF u = v THEN [turns[u] EXCEPT !.wait = "woken"] ELSE turns[u]
    BY <1>3, Wakes
  <1>5. Woken({v})[t] = turns[t]
    BY <1>2, <1>4, ConstantsAssumption
  <1>6. [turns[t] EXCEPT !.stage = "global", !.wait = "asks"] \in Turn
    BY <1>1, Altered DEF Stages
  <1>7. turns' = [Woken({v}) EXCEPT ![t] = [turns[t] EXCEPT !.stage = "global", !.wait = "asks"]]
    BY <1>4, <1>5
  <1> HIDE DEF g
  <1>8. /\ turns' \in [Turns -> Turn \cup {Away}]
        /\ turns'[t] = [turns[t] EXCEPT !.stage = "global", !.wait = "asks"]
        /\ \A u \in Turns \ {t} : turns'[u] = Woken({v})[u]
    BY <1>4, <1>6, <1>7
  <1> USE DEF g
  <1>9. HandsOn(t, v)
    BY <1>2, <1>4, <1>8 DEF HandsOn
  <1> QED
    BY <1>1, <1>8, <1>9

LEMMA TookGlobal ==
    ASSUME TypeOK, NEW t \in Turns, TakeGlobal(t)
    PROVE  /\ turns[t] \in Turn
           /\ turns' \in [Turns -> Turn \cup {Away}]
           /\ turns'[t] = Admitted(turns[t])
           /\ \E w :
                 /\ \/ w = None
                    \/ /\ w \in Turns \ {t} /\ turns[w] \in Turn /\ slots > 0
                       /\ turns[w].stage = "global" /\ turns[w].wait = "waits"
                 /\ slots' = IF w = None THEN slots ELSE slots - 1
                 /\ \A u \in Turns \ {t} : turns'[u] = IF u = w THEN [turns[u] EXCEPT !.wait = "woken"]
                                                       ELSE turns[u]
  <1>1. turns[t] \in Turn /\ turns[t].stage = "global" /\ turns[t].wait = "woken"
    BY Present DEF TakeGlobal
  <1> PICK w \in IF slots > 0 THEN Heirs(AtGlobal) ELSE {None} :
          /\ slots' = IF w = None THEN slots ELSE slots - 1
          /\ turns' = [Woken({w}) EXCEPT ![t] = Admitted(@)]
    BY DEF TakeGlobal
  <1>2. \/ w = None
        \/ /\ slots > 0 /\ w \in Turns \ {t} /\ turns[w] \in Turn
           /\ turns[w].stage = "global" /\ turns[w].wait = "waits"
    <2>1. AtGlobal \in SUBSET Turns
      BY DEF AtGlobal
    <2>2. w = None \/ (slots > 0 /\ w \in AtGlobal /\ turns[w].wait = "waits")
      BY <2>1, HeirWaits
    <2>3. ASSUME w \in AtGlobal, turns[w].wait = "waits"
          PROVE  w \in Turns \ {t} /\ turns[w] \in Turn /\ turns[w].stage = "global"
      BY <2>3, <1>1, Present DEF AtGlobal
    <2> QED
      BY <2>2, <2>3
  <1>3. \A u \in {w} \cap Turns : turns[u] \in Turn
    BY <1>2, ConstantsAssumption
  <1>4. /\ Woken({w}) \in [Turns -> Turn \cup {Away}]
        /\ \A u \in Turns : Woken({w})[u] = IF u = w THEN [turns[u] EXCEPT !.wait = "woken"] ELSE turns[u]
    BY <1>3, Wakes
  <1>5. Woken({w})[t] = turns[t]
    BY <1>2, <1>4, ConstantsAssumption
  <1>6. Admitted(turns[t]) \in Turn
    BY <1>1, Altered
  <1>7. turns' = [Woken({w}) EXCEPT ![t] = Admitted(turns[t])]
    BY <1>4, <1>5
  <1>8. /\ turns' \in [Turns -> Turn \cup {Away}]
        /\ turns'[t] = Admitted(turns[t])
        /\ \A u \in Turns \ {t} : turns'[u] = Woken({w})[u]
    BY <1>4, <1>6, <1>7
  <1> QED
    BY <1>1, <1>2, <1>4, <1>8

\* t leaves, w and v being handed its slots, and the gate is left as gate.
DepartsWith(t, w, v, gate) ==
    LET g == turns[t].gate IN
    /\ gate \in Gate
    /\ \/ w = None
       \/ /\ w \in Turns \ {t} /\ turns[w] \in Turn /\ HasGlobal(t)
          /\ turns[w].stage = "global" /\ turns[w].wait = "waits"
    /\ \/ v = None
       \/ /\ v \in Turns \ {t} /\ turns[v] \in Turn /\ HasSession(t)
          /\ turns[v].gate = g /\ turns[v].stage = "session" /\ turns[v].wait = "waits"
    /\ slots' = IF HasGlobal(t) /\ w = None THEN slots + 1 ELSE slots
    /\ gate.refs = Less(gates[g].refs)
    /\ gate.slots = IF HasSession(t) /\ v = None THEN gates[g].slots + 1 ELSE gates[g].slots
    /\ gates' = [gates EXCEPT ![g] = gate]
    /\ table' = Cleanup(turns[t].key, g, gate)
    /\ \A u \in Turns \ {t} :
          /\ turns'[u] = [turns[u] EXCEPT !.wait = "woken"] \/ turns'[u] = turns[u]
          /\ turns'[u] # turns[u] =>
                (turns[u] \in Turn /\ (u = w \/ u = v \/ turns[u].stage = "idle"))
          /\ (u = w \/ u = v) => turns'[u] = [turns[u] EXCEPT !.wait = "woken"]

LEMMA Departure ==
    ASSUME TypeOK, NEW t \in Turns, turns[t].stage # "out", Departs(t)
    PROVE  /\ turns[t] \in Turn
           /\ turns' \in [Turns -> Turn \cup {Away}]
           /\ turns'[t] = Kept([turns[t] EXCEPT !.stage = "out", !.wait = "asks"])
           /\ \E w, v, gate : DepartsWith(t, w, v, gate)
  <1> DEFINE r == turns[t]
             g == turns[t].gate
             roused == IF r.direct /\ gates[g].direct_count < 2 THEN Waiting(AtIdle(g)) ELSE {}
  <1>1. r \in Turn /\ g \in Gates /\ gates[g] \in Gate
    BY Present, Full DEF TypeOK
  <1> PICK w \in IF HasGlobal(t) THEN Heirs(AtGlobal) ELSE {None},
           v \in IF HasSession(t) THEN Heirs(AtSession(g)) ELSE {None} :
         LET gate == Released(r, gates[g], HasSession(t) /\ v = None) IN
         /\ slots' = IF HasGlobal(t) /\ w = None THEN slots + 1 ELSE slots
         /\ gates' = [gates EXCEPT ![g] = gate]
         /\ table' = Cleanup(r.key, g, gate)
         /\ turns' = [Woken({w, v} \cup roused) EXCEPT
                        ![t] = Kept([r EXCEPT !.stage = "out", !.wait = "asks"])]
    BY DEF Departs
  <1> DEFINE gate == Released(r, gates[g], HasSession(t) /\ v = None)
             W == {w, v} \cup roused
  <1>2. gate \in Gate
    <2>1. (HasSession(t) /\ v = None) \in BOOLEAN
      BY Zenon
    <2> QED
      BY <1>1, <2>1, GateTyped
  <1>3. /\ gate.refs = Less(gates[g].refs)
        /\ gate.slots = IF HasSession(t) /\ v = None THEN gates[g].slots + 1 ELSE gates[g].slots
    BY <1>1 DEF Released, Gate
  <1>4. \/ w = None
        \/ /\ w \in Turns \ {t} /\ turns[w] \in Turn /\ HasGlobal(t)
           /\ turns[w].stage = "global" /\ turns[w].wait = "waits"
    <2>1. AtGlobal \in SUBSET Turns
      BY DEF AtGlobal
    <2>2. w = None \/ (HasGlobal(t) /\ w \in AtGlobal /\ turns[w].wait = "waits")
      BY <2>1, HeirWaits
    <2>3. ASSUME HasGlobal(t), w \in AtGlobal, turns[w].wait = "waits"
          PROVE  w \in Turns \ {t} /\ turns[w] \in Turn /\ turns[w].stage = "global"
      BY <2>3, Present DEF AtGlobal, HasGlobal
    <2> QED
      BY <2>2, <2>3
  <1>5. \/ v = None
        \/ /\ v \in Turns \ {t} /\ turns[v] \in Turn /\ HasSession(t)
           /\ turns[v].gate = g /\ turns[v].stage = "session" /\ turns[v].wait = "waits"
    <2>1. AtSession(g) \in SUBSET Turns
      BY DEF AtSession, Inside
    <2>2. v = None \/ (HasSession(t) /\ v \in AtSession(g) /\ turns[v].wait = "waits")
      BY <2>1, HeirWaits
    <2>3. ASSUME HasSession(t), v \in AtSession(g), turns[v].wait = "waits"
          PROVE  v \in Turns \ {t} /\ turns[v] \in Turn /\ turns[v].gate = g /\ turns[v].stage = "session"
      BY <2>3, Present DEF AtSession, Inside, HasSession
    <2> QED
      BY <2>2, <2>3
  <1>6. \A u \in roused : u \in Turns /\ turns[u] \in Turn /\ turns[u].stage = "idle"
    BY Present DEF Waiting, AtIdle, Inside
  <1>7. \A u \in W \cap Turns : turns[u] \in Turn /\ (u = w \/ u = v \/ turns[u].stage = "idle")
    BY <1>4, <1>5, <1>6, ConstantsAssumption
  <1>8. /\ Woken(W) \in [Turns -> Turn \cup {Away}]
        /\ \A u \in Turns \ W : Woken(W)[u] = turns[u]
        /\ \A u \in W \cap Turns : Woken(W)[u] = [turns[u] EXCEPT !.wait = "woken"]
    BY <1>7, Wakes
  <1>9. Kept([r EXCEPT !.stage = "out", !.wait = "asks"]) \in Turn \cup {Away}
    <2>1. [r EXCEPT !.stage = "out", !.wait = "asks"] \in Turn
      BY <1>1, Altered DEF Stages
    <2> QED
      BY <2>1, Full
  <1>10. turns' = [Woken(W) EXCEPT ![t] = Kept([r EXCEPT !.stage = "out", !.wait = "asks"])]
    OBVIOUS
  <1> DEFINE z == Kept([r EXCEPT !.stage = "out", !.wait = "asks"])
  <1> HIDE DEF z
  <1>11. /\ turns' \in [Turns -> Turn \cup {Away}] /\ turns'[t] = z
         /\ \A u \in Turns \ {t} : turns'[u] = Woken(W)[u]
    BY <1>8, <1>9, <1>10 DEF z
  <1> HIDE DEF roused
  <1>12. \A u \in Turns \ {t} :
                       /\ turns'[u] = [turns[u] EXCEPT !.wait = "woken"] \/ turns'[u] = turns[u]
                       /\ turns'[u] # turns[u] => (turns[u] \in Turn /\ (u = w \/ u = v \/ turns[u].stage = "idle"))
                       /\ (u = w \/ u = v) => turns'[u] = [turns[u] EXCEPT !.wait = "woken"]
    BY <1>7, <1>8, <1>11
  <1>13. /\ slots' = IF HasGlobal(t) /\ w = None THEN slots + 1 ELSE slots
         /\ gates' = [gates EXCEPT ![g] = gate]
         /\ table' = Cleanup(r.key, g, gate)
    OBVIOUS
  <1> HIDE DEF gate
  <1>14. DepartsWith(t, w, v, gate)
    BY <1>2, <1>3, <1>4, <1>5, <1>12, <1>13 DEF DepartsWith
  <1> QED
    BY <1>1, <1>11, <1>14 DEF z

LEMMA TypeInit == Init => TypeOK
  <1> SUFFICES ASSUME Init PROVE TypeOK
    OBVIOUS
  <1>1. /\ scene.session_limit \in Nat /\ scene.global_limit \in Nat
    BY ConstantsAssumption DEF Init
  <1> QED
    BY <1>1 DEF Init, TypeOK, NewGate, Gate

LEMMA TypeStep == TypeOK /\ [Next]_vars => TypeOK'
  <1> SUFFICES ASSUME TypeOK, [Next]_vars PROVE TypeOK'
    OBVIOUS
  <1>T. /\ table \in [Sessions -> Gates \cup {None}] /\ gates \in [Gates -> Gate] /\ slots \in Nat
        /\ turns \in [Turns -> Turn \cup {Away}] /\ kept \subseteq Sessions /\ scene \in Scenes
    BY DEF TypeOK
  <1>1. ASSUME NEW k \in Sessions, RetainEntry(k) PROVE TypeOK'
    <2> PICK g \in GatesFor(k) :
              /\ table' = [table EXCEPT ![k] = g]
              /\ gates' = [gates EXCEPT ![g] = [Found(k, g) EXCEPT !.refs = @ + 1]]
      BY <1>1 DEF RetainEntry
    <2>1. g \in Gates /\ [Found(k, g) EXCEPT !.refs = @ + 1] \in Gate
      <3>1. g \in Gates /\ Found(k, g) \in Gate /\ Found(k, g).refs \in Nat
        BY GateFound, GateTyped
      <3>2. Found(k, g).refs + 1 \in Nat
        BY <3>1
      <3> QED
        BY <3>1, <3>2, GateTyped
    <2> QED
      BY <1>1, <1>T, <2>1 DEF RetainEntry, TypeOK
  <1>2. ASSUME NEW k \in Sessions, ReleaseEntry(k) PROVE TypeOK'
    <2>1. CASE table[k] = None
      BY <1>2, <1>T, <2>1 DEF ReleaseEntry, TypeOK
    <2>2. CASE table[k] # None
      <3> DEFINE g == table[k]
                 gate == [gates[g] EXCEPT !.refs = Less(@)]
      <3>1. g \in Gates /\ gate \in Gate
        <4>1. g \in Gates /\ gates[g] \in Gate
          BY <1>T, <2>2
        <4>2. Less(gates[g].refs) \in Nat
          BY <4>1, GateTyped DEF Less
        <4> QED
          BY <4>1, <4>2, GateTyped
      <3>2. gates' = [gates EXCEPT ![g] = gate] /\ table' = Cleanup(k, g, gate)
        BY <1>2, <2>2 DEF ReleaseEntry
      <3> QED
        BY <1>2, <1>T, <3>1, <3>2 DEF ReleaseEntry, TypeOK, Cleanup
    <2> QED
      BY <2>1, <2>2
  <1>3. ASSUME NEW t \in Turns, NEW call \in scene.calls[t], Enter(t, call) PROVE TypeOK'
    <2>1. call \in Call /\ call.key \in Sessions /\ call.direct \in BOOLEAN /\ call.poke \in BOOLEAN
      BY Limits DEF Call
    <2> PICK g \in GatesFor(call.key) :
          /\ table' = [table EXCEPT ![call.key] = g]
          /\ gates' = [gates EXCEPT ![g] =
                [Found(call.key, g) EXCEPT !.refs = @ + 1, !.waiters = @ + 1,
                                    !.direct_count = IF call.direct THEN @ + 1 ELSE @,
                                    !.direct_idle = IF call.direct THEN FALSE ELSE @]]
          /\ turns' = [turns EXCEPT ![t] =
                [key |-> call.key, gate |-> g, direct |-> call.direct, poke |-> call.poke,
                 stage |-> IF call.direct THEN "session" ELSE "idle", wait |-> "asks",
                 reply |-> "none", back |-> "none"]]
      BY <1>3 DEF Enter
    <2>2. g \in Gates /\ Found(call.key, g) \in Gate
      BY <2>1, GateFound
    <2>3. gates' \in [Gates -> Gate]
      <3> DEFINE x == Found(call.key, g)
                 count == IF call.direct THEN x.direct_count + 1 ELSE x.direct_count
                 idle == IF call.direct THEN FALSE ELSE x.direct_idle
      <3>1. x \in Gate
        BY <2>2
      <3> HIDE DEF x
      <3>A. x.refs \in Nat /\ x.waiters \in Nat /\ x.direct_count \in Nat /\ x.direct_idle \in BOOLEAN
        BY <3>1 DEF Gate
      <3>2. count \in Nat /\ x.refs + 1 \in Nat /\ x.waiters + 1 \in Nat
        BY <2>1, <3>A
      <3>B. idle \in BOOLEAN
        BY <3>A, Zenon
      <3>3. gates' = [gates EXCEPT ![g] =
                [x EXCEPT !.refs = x.refs + 1, !.waiters = x.waiters + 1,
                          !.direct_count = count, !.direct_idle = idle]]
        BY DEF x
      <3> HIDE DEF count, idle
      <3>4. [x EXCEPT !.refs = x.refs + 1, !.waiters = x.waiters + 1,
                      !.direct_count = count, !.direct_idle = idle] \in Gate
        BY <3>1, <3>2, <3>B DEF Gate
      <3> QED
        BY <1>T, <2>2, <3>3, <3>4
    <2>4. turns' \in [Turns -> Turn \cup {Away}]
      BY <1>T, <2>1, <2>2 DEF Turn, Stages
    <2> QED
      BY <1>3, <1>T, <2>1, <2>2, <2>3, <2>4 DEF Enter, TypeOK
  <1>4. ASSUME NEW t \in Turns, turns[t] \in Turn, Waits(t) PROVE TypeOK'
    <2>1. [turns[t] EXCEPT !.wait = "waits"] \in Turn
      BY <1>4, Altered
    <2> QED
      BY <1>4, <1>T, <2>1 DEF Waits, TypeOK
  <1>5. ASSUME NEW t \in Turns, AskIdle(t) \/ TakeIdle(t) PROVE TypeOK'
    <2>1. turns[t] \in Turn
      BY <1>5, Present DEF AskIdle, TakeIdle
    <2>2. /\ [turns[t] EXCEPT !.stage = "session"] \in Turn
          /\ [turns[t] EXCEPT !.wait = "waits"] \in Turn
          /\ [turns[t] EXCEPT !.stage = "session", !.wait = "asks"] \in Turn
      BY <2>1, Altered DEF Stages
    <2>3. \E r \in Turn : turns' = [turns EXCEPT ![t] = r]
      <3>1. CASE AskIdle(t)
        BY <2>2, <3>1 DEF AskIdle
      <3>2. CASE TakeIdle(t)
        BY <1>T, <2>2, <3>2 DEF TakeIdle
      <3> QED
        BY <1>5, <3>1, <3>2
    <2> QED
      BY <1>5, <1>T, <2>3 DEF AskIdle, TakeIdle, TypeOK
  <1>6. ASSUME NEW t \in Turns, AskSession(t) PROVE TypeOK'
    <2> DEFINE g == turns[t].gate
    <2>1. turns[t] \in Turn /\ g \in Gates /\ gates[g] \in Gate
      BY <1>6, <1>T, Present, Full DEF AskSession
    <2>2. CASE Waits(t)
      BY <1>4, <2>1, <2>2
    <2>3. CASE ~ Waits(t)
      <3>1. /\ gates[g].slots > 0 /\ gates' = [gates EXCEPT ![g].slots = @ - 1]
            /\ turns' = [turns EXCEPT ![t].stage = "global"]
            /\ UNCHANGED <<scene, table, slots, line, kept>>
        BY <1>6, <2>3 DEF AskSession
      <3>2. [gates[g] EXCEPT !.slots = @ - 1] \in Gate
        <4>1. gates[g].slots - 1 \in Nat
          BY <2>1, <3>1, GateTyped
        <4> QED
          BY <2>1, <4>1, GateTyped
      <3>3. [turns[t] EXCEPT !.stage = "global"] \in Turn
        BY <2>1, Altered DEF Stages
      <3> QED
        BY <1>T, <3>1, <3>2, <3>3 DEF TypeOK
    <2> QED
      BY <2>2, <2>3
  <1>7. ASSUME NEW t \in Turns, TakeSession(t) PROVE TypeOK'
    <2> DEFINE g == turns[t].gate
    <2> PICK v : HandsOn(t, v)
      BY <1>7, TookSession
    <2>1. turns[t] \in Turn /\ g \in Gates /\ gates[g] \in Gate
      BY <1>7, <1>T, TookSession, Full
    <2>2. gates' \in [Gates -> Gate]
      <3>1. (IF v = None THEN gates[g].slots ELSE gates[g].slots - 1) \in Nat
        BY <2>1, GateTyped DEF HandsOn
      <3>2. [gates[g] EXCEPT !.slots = IF v = None THEN @ ELSE @ - 1] \in Gate
        BY <2>1, <3>1, GateTyped
      <3> QED
        BY <1>T, <3>2 DEF HandsOn
    <2> QED
      BY <1>7, <1>T, <2>2, TookSession DEF TakeSession, TypeOK
  <1>8. ASSUME NEW t \in Turns, AskGlobal(t) PROVE TypeOK'
    <2> DEFINE g == turns[t].gate
    <2>1. turns[t] \in Turn /\ g \in Gates /\ gates[g] \in Gate
      BY <1>8, <1>T, Present, Full DEF AskGlobal
    <2>2. CASE Waits(t)
      BY <1>4, <2>1, <2>2
    <2>3. CASE ~ Waits(t)
      <3>1. /\ slots > 0 /\ slots' = slots - 1
            /\ gates' = [gates EXCEPT ![g] = Started(@)]
            /\ turns' = [turns EXCEPT ![t] = Admitted(@)]
            /\ UNCHANGED <<scene, table, line, kept>>
        BY <1>8, <2>3 DEF AskGlobal
      <3>2. Started(gates[g]) \in Gate /\ Admitted(turns[t]) \in Turn
        BY <2>1, GateTyped, Altered
      <3>3. slots' \in Nat
        BY <1>T, <3>1
      <3> QED
        BY <1>T, <3>1, <3>2, <3>3 DEF TypeOK
    <2> QED
      BY <2>2, <2>3
  <1>9. ASSUME NEW t \in Turns, TakeGlobal(t) PROVE TypeOK'
    <2> DEFINE g == turns[t].gate
    <2>1. turns[t] \in Turn /\ g \in Gates /\ gates[g] \in Gate
      BY <1>9, <1>T, TookGlobal, Full
    <2>2. Started(gates[g]) \in Gate
      BY <2>1, GateTyped
    <2>3. slots' \in Nat
      BY <1>9, <1>T, TookGlobal
    <2> QED
      BY <1>9, <1>T, <2>2, <2>3, TookGlobal DEF TakeGlobal, TypeOK
  <1>10. ASSUME NEW t \in Turns, GiveUp(t) \/ Leave(t) PROVE TypeOK'
    <2>1. turns[t].stage # "out" /\ Departs(t)
      BY <1>10 DEF GiveUp, Leave
    <2> PICK w, v, gate : DepartsWith(t, w, v, gate)
      BY <2>1, Departure
    <2>2. /\ gates' \in [Gates -> Gate] /\ slots' \in Nat
          /\ table' \in [Sessions -> Gates \cup {None}]
      <3>1. gates' \in [Gates -> Gate]
        BY <1>T DEF DepartsWith
      <3>2. slots' = slots + 1 \/ slots' = slots
        BY DEF DepartsWith
      <3>3. table' = table \/ table' = [table EXCEPT ![turns[t].key] = None]
        BY DEF DepartsWith, Cleanup
      <3> QED
        BY <1>T, <3>1, <3>2, <3>3
    <2>3. turns' \in [Turns -> Turn \cup {Away}] /\ UNCHANGED <<scene, kept>>
      BY <2>1, Departure DEF Departs
    <2> QED
      BY <1>T, <2>2, <2>3 DEF TypeOK
  <1>11. ASSUME NEW t \in Turns, NEW from, NEW to \in {"none", "running", "sending"}, Reply(t, from, to)
         PROVE  TypeOK'
    <2>1. turns[t] \in Turn
      BY <1>11, Present DEF Reply
    <2>2. Kept([turns[t] EXCEPT !.reply = to]) \in Turn \cup {Away}
      BY <2>1, Altered, Full
    <2> QED
      BY <1>11, <1>T, <2>2 DEF Reply, TypeOK
  <1>12. ASSUME NEW t \in Turns, NEW from, NEW to \in {"none", "waits", "sending"}, Back(t, from, to)
         PROVE  TypeOK'
    <2>1. turns[t] \in Turn
      BY <1>12, Present DEF Back
    <2>2. Kept([turns[t] EXCEPT !.back = to]) \in Turn \cup {Away}
      BY <2>1, Altered, Full
    <2> QED
      BY <1>12, <1>T, <2>2 DEF Back, TypeOK
  <1>13. ASSUME NEW t \in Turns, Commit(t) \/ ReleaseCommit(t) \/ EndReply(t) PROVE TypeOK'
    <2>1. \E from, to \in {"none", "running", "sending"} : Reply(t, from, to)
      <3>1. CASE Commit(t)
        BY <3>1 DEF Commit
      <3>2. CASE ReleaseCommit(t)
        BY <3>2 DEF ReleaseCommit
      <3>3. CASE EndReply(t)
        BY <3>3 DEF EndReply
      <3> QED
        BY <1>13, <3>1, <3>2, <3>3
    <2> QED
      BY <1>11, <2>1
  <1>14. ASSUME NEW t \in Turns, PokeBack(t) \/ EndPoke(t) PROVE TypeOK'
    <2>1. \E from, to \in {"none", "waits", "sending"} : Back(t, from, to)
      BY <1>14 DEF PokeBack, EndPoke
    <2> QED
      BY <1>12, <2>1
  <1>15. ASSUME UNCHANGED vars PROVE TypeOK'
    BY <1>15, <1>T DEF vars, TypeOK
  <1> QED
    BY <1>1, <1>2, <1>3, <1>5, <1>6, <1>7, <1>8, <1>9, <1>10, <1>13, <1>14, <1>15 DEF Next
-----------------------------------------------------------------------------
(* What a step leaves alone                                                 *)

\* u stays where it is, and starts to send no reply.
Place(u) == /\ turns'[u].stage = "out" <=> turns[u].stage = "out"
            /\ turns[u].stage # "out" => /\ turns'[u].gate = turns[u].gate
                                        /\ turns'[u].key = turns[u].key
Calm(u)  == Sending(u)' => /\ Sending(u)
                           /\ turns'[u].gate = turns[u].gate /\ turns'[u].key = turns[u].key

\* A step that only moves slots about among the turns inside.
LEMMA Settled ==
    ASSUME IInv, scene' = scene, table' = table, kept' = kept,
           \A g \in Gates : gates'[g].refs = gates[g].refs,
           \A u \in Turns : Place(u)
    PROVE  /\ \A g \in Gates : Inside(g)' = Inside(g)
           /\ RefsBalance' /\ OwnGates' /\ KeptHave'
           /\ (\A u \in Turns : Calm(u)) => AtHome' /\ OneSends'
  <1>1. \A g \in Gates : Inside(g)' = Inside(g)
    BY DEF Inside, Place
  <1>2. RefsBalance'
    BY <1>1 DEF IInv, RefsBalance, Retained
  <1>3. OwnGates' /\ KeptHave'
    BY DEF IInv, OwnGates, KeptHave
  <1>4. ASSUME \A u \in Turns : Calm(u) PROVE AtHome' /\ OneSends'
    <2>1. AtHome'
      BY <1>4 DEF IInv, AtHome, Place, Calm
    <2>2. OneSends'
      BY <1>4 DEF IInv, OneSends, Calm
    <2> QED
      BY <2>1, <2>2
  <1> QED
    BY <1>1, <1>2, <1>3, <1>4

\* The slots of a gate when one more turn has one, or none has.
LEMMA SlotsMove ==
    ASSUME IInv, TypeOK', scene' = scene, NEW g \in Gates,
           \/ Holders(g)' = Holders(g) /\ gates'[g].slots = gates[g].slots
           \/ \E v \in Turns \ Holders(g) : /\ Holders(g)' = Holders(g) \cup {v}
                                            /\ gates'[g].slots = gates[g].slots - 1
    PROVE  gates'[g].slots + Cardinality(Holders(g)') = scene'.session_limit
  <1>1. Holders(g) \in SUBSET Turns
    BY DEF Holders, Inside
  <1>2. gates[g].slots + Cardinality(Holders(g)) = scene.session_limit
    BY DEF IInv, SlotsBalance
  <1>3. gates[g].slots \in Nat /\ Cardinality(Holders(g)) \in Nat
    BY <1>1, Counting, GateTyped DEF IInv, TypeOK
  <1> QED
    BY <1>1, <1>2, <1>3, Counting

LEMMA AllMove ==
    ASSUME IInv, scene' = scene,
           \/ AllHolders' = AllHolders /\ slots' = slots
           \/ \E v \in Turns \ AllHolders : /\ AllHolders' = AllHolders \cup {v}
                                            /\ slots' = slots - 1
    PROVE  AllBalance'
  <1>1. AllHolders \in SUBSET Turns
    BY DEF AllHolders
  <1>2. slots + Cardinality(AllHolders) = scene.global_limit
    BY DEF IInv, AllBalance
  <1>3. slots \in Nat /\ Cardinality(AllHolders) \in Nat
    BY <1>1, Counting DEF IInv, TypeOK
  <1> QED
    BY <1>1, <1>2, <1>3, Counting DEF AllBalance

\* One more of those inside has a slot.
LEMMA HolderAdded ==
    ASSUME NEW g, Inside(g)' = Inside(g), NEW v \in Inside(g), ~ HasSession(v), HasSession(v)',
           \A u \in Turns \ {v} : HasSession(u)' <=> HasSession(u)
    PROVE  Holders(g)' = Holders(g) \cup {v} /\ v \in Turns \ Holders(g)
  <1>1. Inside(g) \subseteq Turns
    BY DEF Inside
  <1>2. v \in Turns \ Holders(g)
    BY <1>1 DEF Holders
  <1>3. ASSUME NEW u PROVE u \in Holders(g)' <=> u \in Holders(g) \cup {v}
    <2>1. u \in Holders(g)' <=> u \in Inside(g) /\ HasSession(u)'
      BY Zenon DEF Holders
    <2>2. u \in Holders(g) <=> u \in Inside(g) /\ HasSession(u)
      BY Zenon DEF Holders
    <2>3. CASE u = v
      BY <2>1, <2>3
    <2>4. CASE u # v
      BY <1>1, <2>1, <2>2, <2>4
    <2> QED
      BY <2>3, <2>4
  <1> QED
    BY <1>2, <1>3

LEMMA HolderSame ==
    ASSUME NEW g, Inside(g)' = Inside(g),
           \A u \in Inside(g) : HasSession(u)' <=> HasSession(u)
    PROVE  Holders(g)' = Holders(g)
  <1>3. ASSUME NEW u PROVE u \in Holders(g)' <=> u \in Holders(g)
    <2>1. u \in Holders(g)' <=> u \in Inside(g) /\ HasSession(u)'
      BY Zenon DEF Holders
    <2>2. u \in Holders(g) <=> u \in Inside(g) /\ HasSession(u)
      BY Zenon DEF Holders
    <2> QED
      BY <2>1, <2>2
  <1> QED
    BY <1>3

\* A step that moves no slot either.
LEMMA SameSlots ==
    ASSUME IInv, TypeOK', scene' = scene, slots' = slots,
           \A g \in Gates : Inside(g)' = Inside(g) /\ gates'[g].slots = gates[g].slots,
           \A u \in Turns : (HasSession(u)' <=> HasSession(u)) /\ (HasGlobal(u)' <=> HasGlobal(u))
    PROVE  SlotsBalance' /\ AllBalance'
  <1>1. \A g \in Gates : Holders(g)' = Holders(g)
    <2> TAKE g \in Gates
    <2>1. Inside(g) \subseteq Turns
      BY DEF Inside
    <2> QED
      BY <2>1 DEF Holders
  <1>2. AllHolders' = AllHolders
    BY DEF AllHolders
  <1>3. SlotsBalance'
    BY <1>1, SlotsMove DEF SlotsBalance
  <1>4. AllBalance'
    BY <1>2, AllMove
  <1> QED
    BY <1>3, <1>4
-----------------------------------------------------------------------------
(* The waits                                                                *)

\* A step of one turn that moves no slot.
LEMMA OneQuiet ==
    ASSUME IInv, TypeOK', NEW t \in Turns, NEW r \in Turn \cup {Away},
           UNCHANGED <<scene, table, gates, slots, kept>>,
           turns' = [turns EXCEPT ![t] = r],
           Place(t), HasSession(t)' <=> HasSession(t), HasGlobal(t)' <=> HasGlobal(t)
    PROVE  Calm(t) \/ (AtHome' /\ OneSends') => IInv'
  <1>1. turns'[t] = r /\ \A u \in Turns \ {t} : turns'[u] = turns[u]
    BY DEF IInv, TypeOK
  <1>2. \A u \in Turns \ {t} : /\ Place(u) /\ Calm(u)
                               /\ HasSession(u)' <=> HasSession(u)
                               /\ HasGlobal(u)' <=> HasGlobal(u)
    BY <1>1 DEF Place, Calm, Sending, HasSession, HasGlobal
  <1>3. \A u \in Turns : Place(u)
    BY <1>2
  <1>4. \A u \in Turns : (HasSession(u)' <=> HasSession(u)) /\ (HasGlobal(u)' <=> HasGlobal(u))
    BY <1>2
  <1>5. /\ \A g \in Gates : Inside(g)' = Inside(g)
        /\ RefsBalance' /\ OwnGates' /\ KeptHave'
        /\ (\A u \in Turns : Calm(u)) => AtHome' /\ OneSends'
    BY <1>3, Settled
  <1>6. SlotsBalance' /\ AllBalance'
    BY <1>4, <1>5, SameSlots
  <1> QED
    BY <1>2, <1>5, <1>6 DEF IInv

LEMMA WaitsKeeps ==
    ASSUME IInv, TypeOK', NEW t \in Turns, turns[t] \in Turn, turns[t].wait = "asks", Waits(t)
    PROVE  IInv'
  <1> DEFINE r == [turns[t] EXCEPT !.wait = "waits"]
  <1>1. r \in Turn /\ turns' = [turns EXCEPT ![t] = r] /\ turns'[t] = r
    BY Altered DEF Waits, IInv, TypeOK
  <1>2. Place(t) /\ Calm(t) /\ (HasSession(t)' <=> HasSession(t)) /\ (HasGlobal(t)' <=> HasGlobal(t))
    BY <1>1, Full DEF Place, Calm, Sending, HasSession, HasGlobal, Turn
  <1> QED
    BY <1>1, <1>2, OneQuiet DEF Waits

LEMMA IdleKeeps ==
    ASSUME IInv, TypeOK', NEW t \in Turns, AskIdle(t) \/ TakeIdle(t)
    PROVE  IInv'
  <1>1. turns[t] \in Turn /\ turns[t].stage = "idle"
    BY Present DEF AskIdle, TakeIdle, IInv
  <1>2. \E r \in Turn : /\ turns' = [turns EXCEPT ![t] = r]
                        /\ \/ (r = [turns[t] EXCEPT !.stage = "session"] /\ turns[t].wait = "asks")
                           \/ r = [turns[t] EXCEPT !.wait = "waits"]
                           \/ r = [turns[t] EXCEPT !.stage = "session", !.wait = "asks"]
    <2>1. /\ [turns[t] EXCEPT !.stage = "session"] \in Turn
          /\ [turns[t] EXCEPT !.wait = "waits"] \in Turn
          /\ [turns[t] EXCEPT !.stage = "session", !.wait = "asks"] \in Turn
      BY <1>1, Altered DEF Stages
    <2>2. CASE AskIdle(t)
      BY <2>1, <2>2 DEF AskIdle
    <2>3. CASE TakeIdle(t)
      BY <2>1, <2>3 DEF TakeIdle, IInv, TypeOK
    <2> QED
      BY <2>2, <2>3
  <1> PICK r \in Turn : /\ turns' = [turns EXCEPT ![t] = r]
                        /\ \/ (r = [turns[t] EXCEPT !.stage = "session"] /\ turns[t].wait = "asks")
                           \/ r = [turns[t] EXCEPT !.wait = "waits"]
                           \/ r = [turns[t] EXCEPT !.stage = "session", !.wait = "asks"]
    BY <1>2
  <1>3. turns'[t] = r
    BY DEF IInv, TypeOK
  <1>4. /\ turns'[t].gate = turns[t].gate /\ turns'[t].key = turns[t].key
        /\ turns'[t].reply = turns[t].reply
        /\ turns'[t].stage \in {"idle", "session"}
        /\ turns'[t].stage = "session" => turns'[t].wait = "asks"
    <2>1. CASE r = [turns[t] EXCEPT !.stage = "session"] /\ turns[t].wait = "asks"
      BY <1>1, <1>3, <2>1 DEF Turn
    <2>2. CASE r = [turns[t] EXCEPT !.wait = "waits"]
      BY <1>1, <1>3, <2>2 DEF Turn
    <2>3. CASE r = [turns[t] EXCEPT !.stage = "session", !.wait = "asks"]
      BY <1>1, <1>3, <2>3 DEF Turn
    <2> QED
      BY <2>1, <2>2, <2>3
  <1>5. turns[t] # Away
    BY <1>1, Full
  <1>6. Place(t) /\ Calm(t) /\ (HasSession(t)' <=> HasSession(t)) /\ (HasGlobal(t)' <=> HasGlobal(t))
    BY <1>1, <1>4, <1>5 DEF Place, Calm, Sending, HasSession, HasGlobal
  <1> QED
    BY <1>6, OneQuiet DEF AskIdle, TakeIdle

LEMMA AskSessionKeeps ==
    ASSUME IInv, TypeOK', NEW t \in Turns, AskSession(t)
    PROVE  IInv'
  <1>T. TypeOK
    BY DEF IInv
  <1>0. turns[t] \in Turn /\ turns[t].gate \in Gates
    BY <1>T, Present, Full DEF AskSession
  <1> PICK g \in Gates : g = turns[t].gate
    BY <1>0
  <1>1. turns[t] \in Turn /\ gates[g] \in Gate /\ turns[t].stage = "session" /\ turns[t].wait = "asks"
    BY <1>T, <1>0 DEF AskSession, TypeOK
  <1>2. CASE Waits(t)
    BY <1>1, <1>2, WaitsKeeps
  <1>3. CASE ~ Waits(t)
    <2> DEFINE r == [turns[t] EXCEPT !.stage = "global"]
    <2>1. /\ gates' = [gates EXCEPT ![g].slots = @ - 1] /\ turns' = [turns EXCEPT ![t] = r]
          /\ UNCHANGED <<scene, table, slots, kept>>
      BY <1>3 DEF AskSession
    <2>2. turns'[t] = r /\ \A u \in Turns \ {t} : turns'[u] = turns[u]
      BY <1>T, <2>1 DEF TypeOK
    <2>3. /\ gates'[g].slots = gates[g].slots - 1
          /\ \A h \in Gates : gates'[h].refs = gates[h].refs /\ (h # g => gates'[h].slots = gates[h].slots)
      BY <1>T, <1>1, <2>1 DEF TypeOK, Gate
    <2>4. /\ Place(t) /\ Calm(t) /\ ~ HasSession(t) /\ HasSession(t)'
          /\ HasGlobal(t)' <=> HasGlobal(t)
      BY <1>1, <2>2, Full DEF Place, Calm, Sending, HasSession, HasGlobal, Turn
    <2>5. \A u \in Turns \ {t} : /\ Place(u) /\ Calm(u)
                                 /\ HasSession(u)' <=> HasSession(u)
                                 /\ HasGlobal(u)' <=> HasGlobal(u)
      BY <2>2 DEF Place, Calm, Sending, HasSession, HasGlobal
    <2>6. /\ \A h \in Gates : Inside(h)' = Inside(h)
          /\ RefsBalance' /\ OwnGates' /\ KeptHave' /\ AtHome' /\ OneSends'
      <3>1. \A u \in Turns : Place(u) /\ Calm(u)
        BY <2>4, <2>5
      <3> QED
        BY <2>1, <2>3, <3>1, Settled
    <2>7. SlotsBalance'
      <3>1. t \in Inside(g) /\ \A h \in Gates : h # g => t \notin Inside(h)
        BY <1>1 DEF Inside
      <3>2. \A h \in Gates : Inside(h) \subseteq Turns
        BY DEF Inside
      <3>3. Holders(g)' = Holders(g) \cup {t} /\ t \in Turns \ Holders(g)
        BY <1>1, <2>4, <2>5, <2>6, <3>1, HolderAdded
      <3>4. ASSUME NEW h \in Gates \ {g} PROVE Holders(h)' = Holders(h)
        BY <2>5, <2>6, <3>1, <3>2, HolderSame
      <3>5. gates'[g].slots + Cardinality(Holders(g)') = scene'.session_limit
        BY <1>1, <2>1, <2>3, <3>3, SlotsMove
      <3>6. ASSUME NEW h \in Gates \ {g}
            PROVE  gates'[h].slots + Cardinality(Holders(h)') = scene'.session_limit
        BY <2>1, <2>3, <3>4, SlotsMove
      <3> QED
        BY <3>5, <3>6 DEF SlotsBalance
    <2>8. AllBalance'
      <3>1. AllHolders' = AllHolders
        BY <2>4, <2>5 DEF AllHolders
      <3> QED
        BY <2>1, <3>1, AllMove
    <2> QED
      BY <2>6, <2>7, <2>8 DEF IInv
  <1> QED
    BY <1>2, <1>3

LEMMA TakeSessionKeeps ==
    ASSUME IInv, TypeOK', NEW t \in Turns, TakeSession(t)
    PROVE  IInv'
  <1>T. TypeOK
    BY DEF IInv
  <1>0. turns[t] \in Turn /\ turns[t].gate \in Gates
    BY <1>T, Present, Full DEF TakeSession
  <1> PICK g \in Gates : g = turns[t].gate
    BY <1>0
  <1>1. turns[t] \in Turn /\ gates[g] \in Gate /\ turns[t].stage = "session" /\ turns[t].wait = "woken"
    BY <1>T, <1>0 DEF TakeSession, TypeOK
  <1> PICK v : HandsOn(t, v)
    BY <1>T, TookSession
  <1>2. turns'[t] = [turns[t] EXCEPT !.stage = "global", !.wait = "asks"]
    BY <1>T, TookSession
  <1>3. UNCHANGED <<scene, table, slots, kept>>
    BY DEF TakeSession
  <1>4. \A u \in Turns \ {t} : turns'[u] = IF u = v THEN [turns[u] EXCEPT !.wait = "woken"] ELSE turns[u]
    BY DEF HandsOn
  <1>5. v = None \/ (v \in Turns \ {t} /\ turns[v] \in Turn /\ turns[v].gate = g
                     /\ turns[v].stage = "session" /\ turns[v].wait = "waits")
    BY DEF HandsOn
  <1>6. /\ gates'[g].slots = IF v = None THEN gates[g].slots ELSE gates[g].slots - 1
        /\ \A h \in Gates : gates'[h].refs = gates[h].refs /\ (h # g => gates'[h].slots = gates[h].slots)
    BY <1>T, <1>1 DEF TypeOK, Gate, HandsOn
  <1>7. /\ Place(t) /\ Calm(t) /\ HasSession(t) /\ HasSession(t)'
        /\ HasGlobal(t)' <=> HasGlobal(t)
    BY <1>1, <1>2, Full DEF Place, Calm, Sending, HasSession, HasGlobal, Turn
  <1>8. \A u \in Turns \ {t, v} : /\ Place(u) /\ Calm(u)
                                  /\ HasSession(u)' <=> HasSession(u)
                                  /\ HasGlobal(u)' <=> HasGlobal(u)
    BY <1>4 DEF Place, Calm, Sending, HasSession, HasGlobal
  <1>9. ASSUME v \in Turns
        PROVE  /\ Place(v) /\ Calm(v) /\ ~ HasSession(v) /\ HasSession(v)'
               /\ HasGlobal(v)' <=> HasGlobal(v)
    <2>1. v \in Turns \ {t} /\ turns[v] \in Turn /\ turns[v].stage = "session" /\ turns[v].wait = "waits"
      BY <1>5, <1>9, ConstantsAssumption
    <2>2. turns'[v] = [turns[v] EXCEPT !.wait = "woken"]
      BY <1>4, <2>1
    <2>3. /\ turns'[v].stage = "session" /\ turns'[v].wait = "woken"
          /\ turns'[v].gate = turns[v].gate /\ turns'[v].key = turns[v].key
          /\ turns'[v].reply = turns[v].reply
      BY <2>1, <2>2 DEF Turn
    <2>4. turns[v] # Away
      BY <2>1, Full
    <2> QED
      BY <2>1, <2>3, <2>4 DEF Place, Calm, Sending, HasSession, HasGlobal
  <1>10. \A u \in Turns : Place(u) /\ Calm(u) /\ (HasGlobal(u)' <=> HasGlobal(u))
    BY <1>7, <1>8, <1>9
  <1>11. /\ \A h \in Gates : Inside(h)' = Inside(h)
         /\ RefsBalance' /\ OwnGates' /\ KeptHave' /\ AtHome' /\ OneSends'
    BY <1>3, <1>6, <1>10, Settled
  <1>12. SlotsBalance'
    <2>1. \A h \in Gates : Inside(h) \subseteq Turns
      BY DEF Inside
    <2>2. CASE v = None
      <3>1. \A u \in Turns : HasSession(u)' <=> HasSession(u)
        BY <1>7, <1>8, <2>2, ConstantsAssumption
      <3>2. \A h \in Gates : Holders(h)' = Holders(h)
        BY <1>11, <2>1, <3>1 DEF Holders
      <3>3. \A h \in Gates : gates'[h].slots + Cardinality(Holders(h)') = scene'.session_limit
        BY <1>3, <1>6, <2>2, <3>2, SlotsMove
      <3> QED
        BY <3>3 DEF SlotsBalance
    <2>3. CASE v # None
      <3>1. v \in Inside(g) /\ \A h \in Gates : h # g => v \notin Inside(h)
        BY <1>5, <2>3 DEF Inside
      <3>2. \A u \in Turns \ {v} : HasSession(u)' <=> HasSession(u)
        BY <1>7, <1>8
      <3>3. Holders(g)' = Holders(g) \cup {v} /\ v \in Turns \ Holders(g)
        BY <1>1, <1>5, <1>9, <1>11, <2>3, <3>1, <3>2, HolderAdded
      <3>4. ASSUME NEW h \in Gates \ {g} PROVE Holders(h)' = Holders(h)
        BY <1>11, <2>1, <3>1, <3>2, HolderSame
      <3>5. gates'[g].slots + Cardinality(Holders(g)') = scene'.session_limit
        BY <1>1, <1>3, <1>6, <2>3, <3>3, SlotsMove
      <3>6. ASSUME NEW h \in Gates \ {g}
            PROVE  gates'[h].slots + Cardinality(Holders(h)') = scene'.session_limit
        BY <1>3, <1>6, <3>4, SlotsMove
      <3> QED
        BY <3>5, <3>6 DEF SlotsBalance
    <2> QED
      BY <2>2, <2>3
  <1>13. AllBalance'
    <2>1. AllHolders' = AllHolders
      BY <1>10 DEF AllHolders
    <2> QED
      BY <1>3, <2>1, AllMove
  <1> QED
    BY <1>11, <1>12, <1>13 DEF IInv
LEMMA AllAdded ==
    ASSUME NEW v \in Turns, ~ HasGlobal(v), HasGlobal(v)',
           \A u \in Turns \ {v} : HasGlobal(u)' <=> HasGlobal(u)
    PROVE  AllHolders' = AllHolders \cup {v} /\ v \in Turns \ AllHolders
  <1>1. v \in Turns \ AllHolders
    BY DEF AllHolders
  <1>2. ASSUME NEW u PROVE u \in AllHolders' <=> u \in AllHolders \cup {v}
    <2>1. u \in AllHolders' <=> u \in Turns /\ HasGlobal(u)'
      BY Zenon DEF AllHolders
    <2>2. u \in AllHolders <=> u \in Turns /\ HasGlobal(u)
      BY Zenon DEF AllHolders
    <2>3. CASE u = v
      BY <2>1, <2>3
    <2>4. CASE u # v
      BY <2>1, <2>2, <2>4
    <2> QED
      BY <2>3, <2>4
  <1> QED
    BY <1>1, <1>2

\* A turn is admitted: its gate's slots, and who has them, stay.
LEMMA AdmissionKeeps ==
    ASSUME IInv, TypeOK', NEW t \in Turns, turns[t] \in Turn, turns[t].stage = "global",
           UNCHANGED <<scene, table, kept>>,
           gates' = [gates EXCEPT ![turns[t].gate] = Started(@)],
           turns'[t] = Admitted(turns[t]),
           \A u \in Turns \ {t} : /\ Place(u) /\ Calm(u)
                                  /\ HasSession(u)' <=> HasSession(u)
    PROVE  /\ HasGlobal(t)'
           /\ AllBalance' => IInv'
  <1>1. \A h \in Gates : gates'[h].refs = gates[h].refs /\ gates'[h].slots = gates[h].slots
    <2>1. \A x \in Gate : Started(x).refs = x.refs /\ Started(x).slots = x.slots
      BY DEF Gate, Started
    <2> QED
      BY <2>1, Full DEF IInv, TypeOK
  <1>2. /\ turns'[t].stage = "active" /\ turns'[t].gate = turns[t].gate
        /\ turns'[t].key = turns[t].key /\ turns'[t].reply = "running"
    BY DEF Admitted, Turn
  <1>3. Place(t) /\ Calm(t) /\ (HasSession(t)' <=> HasSession(t)) /\ HasGlobal(t)'
    BY <1>2 DEF Place, Calm, Sending, HasSession, HasGlobal
  <1>4. \A u \in Turns : Place(u) /\ Calm(u) /\ (HasSession(u)' <=> HasSession(u))
    BY <1>3
  <1>5. /\ \A h \in Gates : Inside(h)' = Inside(h)
        /\ RefsBalance' /\ OwnGates' /\ KeptHave' /\ AtHome' /\ OneSends'
    BY <1>1, <1>4, Settled
  <1>6. SlotsBalance'
    <2>1. \A h \in Gates : Inside(h) \subseteq Turns
      BY DEF Inside
    <2>2. ASSUME NEW h \in Gates PROVE Holders(h)' = Holders(h)
      BY <1>4, <1>5, <2>1, HolderSame
    <2>3. ASSUME NEW h \in Gates
          PROVE  gates'[h].slots + Cardinality(Holders(h)') = scene'.session_limit
      BY <1>1, <2>2, SlotsMove
    <2> QED
      BY <2>3 DEF SlotsBalance
  <1> QED
    BY <1>3, <1>5, <1>6 DEF IInv

LEMMA AskGlobalKeeps ==
    ASSUME IInv, TypeOK', NEW t \in Turns, AskGlobal(t)
    PROVE  IInv'
  <1>T. TypeOK
    BY DEF IInv
  <1>1. turns[t] \in Turn /\ turns[t].stage = "global" /\ turns[t].wait = "asks"
    BY <1>T, Present DEF AskGlobal
  <1>2. CASE Waits(t)
    BY <1>1, <1>2, WaitsKeeps
  <1>3. CASE ~ Waits(t)
    <2>1. /\ slots' = slots - 1
          /\ gates' = [gates EXCEPT ![turns[t].gate] = Started(@)]
          /\ turns' = [turns EXCEPT ![t] = Admitted(@)]
          /\ UNCHANGED <<scene, table, kept>>
      BY <1>3 DEF AskGlobal
    <2>2. turns'[t] = Admitted(turns[t]) /\ \A u \in Turns \ {t} : turns'[u] = turns[u]
      BY <1>T, <2>1 DEF TypeOK
    <2>3. \A u \in Turns \ {t} : /\ Place(u) /\ Calm(u)
                                 /\ HasSession(u)' <=> HasSession(u)
                                 /\ HasGlobal(u)' <=> HasGlobal(u)
      BY <2>2 DEF Place, Calm, Sending, HasSession, HasGlobal
    <2>4. HasGlobal(t)' /\ (AllBalance' => IInv')
      BY <1>1, <2>1, <2>2, <2>3, AdmissionKeeps
    <2>5. ~ HasGlobal(t)
      BY <1>1 DEF HasGlobal
    <2>6. AllHolders' = AllHolders \cup {t} /\ t \in Turns \ AllHolders
      BY <2>3, <2>4, <2>5, AllAdded
    <2>7. AllBalance'
      BY <2>1, <2>6, AllMove
    <2> QED
      BY <2>4, <2>7
  <1> QED
    BY <1>2, <1>3

LEMMA TakeGlobalKeeps ==
    ASSUME IInv, TypeOK', NEW t \in Turns, TakeGlobal(t)
    PROVE  IInv'
  <1>T. TypeOK
    BY DEF IInv
  <1>1. turns[t] \in Turn /\ turns[t].stage = "global" /\ turns[t].wait = "woken"
    BY <1>T, Present DEF TakeGlobal
  <1>2. turns'[t] = Admitted(turns[t])
    BY <1>T, TookGlobal
  <1> PICK w :
        /\ \/ w = None
           \/ /\ w \in Turns \ {t} /\ turns[w] \in Turn /\ slots > 0
              /\ turns[w].stage = "global" /\ turns[w].wait = "waits"
        /\ slots' = IF w = None THEN slots ELSE slots - 1
        /\ \A u \in Turns \ {t} : turns'[u] = IF u = w THEN [turns[u] EXCEPT !.wait = "woken"]
                                              ELSE turns[u]
    BY <1>T, TookGlobal
  <1>3. gates' = [gates EXCEPT ![turns[t].gate] = Started(@)] /\ UNCHANGED <<scene, table, kept>>
    BY DEF TakeGlobal
  <1>4. \A u \in Turns \ {t, w} : /\ Place(u) /\ Calm(u)
                                  /\ HasSession(u)' <=> HasSession(u)
                                  /\ HasGlobal(u)' <=> HasGlobal(u)
    BY DEF Place, Calm, Sending, HasSession, HasGlobal
  <1>5. ASSUME w \in Turns
        PROVE  /\ w # t /\ Place(w) /\ Calm(w) /\ ~ HasGlobal(w) /\ HasGlobal(w)'
               /\ HasSession(w)' <=> HasSession(w)
    <2>1. w \in Turns \ {t} /\ turns[w] \in Turn /\ turns[w].stage = "global" /\ turns[w].wait = "waits"
      BY <1>5, ConstantsAssumption
    <2>2. turns'[w] = [turns[w] EXCEPT !.wait = "woken"]
      BY <2>1
    <2>3. /\ turns'[w].stage = "global" /\ turns'[w].wait = "woken"
          /\ turns'[w].gate = turns[w].gate /\ turns'[w].key = turns[w].key
          /\ turns'[w].reply = turns[w].reply
      BY <2>1, <2>2 DEF Turn
    <2>4. turns[w] # Away
      BY <2>1, Full
    <2> QED
      BY <2>1, <2>3, <2>4 DEF Place, Calm, Sending, HasSession, HasGlobal
  <1>6. \A u \in Turns \ {t} : Place(u) /\ Calm(u) /\ (HasSession(u)' <=> HasSession(u))
    BY <1>4, <1>5
  <1>7. HasGlobal(t)' /\ (AllBalance' => IInv')
    BY <1>1, <1>2, <1>3, <1>6, AdmissionKeeps
  <1>8. HasGlobal(t)
    BY <1>1 DEF HasGlobal
  <1>9. AllBalance'
    <2>1. CASE w = None
      <3>1. \A u \in Turns : HasGlobal(u)' <=> HasGlobal(u)
        BY <1>4, <1>7, <1>8, <2>1, ConstantsAssumption
      <3>2. AllHolders' = AllHolders
        BY <3>1 DEF AllHolders
      <3> QED
        BY <1>3, <2>1, <3>2, AllMove
    <2>2. CASE w # None
      <3>1. w \in Turns /\ slots' = slots - 1
        BY <2>2
      <3>2. \A u \in Turns \ {w} : HasGlobal(u)' <=> HasGlobal(u)
        BY <1>4, <1>7, <1>8
      <3>3. AllHolders' = AllHolders \cup {w} /\ w \in Turns \ AllHolders
        BY <1>5, <3>1, <3>2, AllAdded
      <3> QED
        BY <1>3, <3>1, <3>3, AllMove
    <2> QED
      BY <2>1, <2>2
  <1> QED
    BY <1>7, <1>9
-----------------------------------------------------------------------------
(* The generations and the commit lock                                      *)

LEMMA KeptPlace ==
    ASSUME IInv, TypeOK', NEW t \in Turns, NEW r \in Turn, turns[t] \in Turn,
           turns' = [turns EXCEPT ![t] = Kept(r)],
           r.stage = turns[t].stage, r.wait = turns[t].wait, r.gate = turns[t].gate, r.key = turns[t].key
    PROVE  /\ turns'[t] = Kept(r) /\ \A u \in Turns \ {t} : turns'[u] = turns[u]
           /\ Place(t) /\ (HasSession(t)' <=> HasSession(t)) /\ (HasGlobal(t)' <=> HasGlobal(t))
           /\ Sending(t)' <=> r.reply = "sending"
           /\ Sending(t)' => turns'[t].gate = turns[t].gate /\ turns'[t].key = turns[t].key
  <1>1. turns'[t] = Kept(r) /\ \A u \in Turns \ {t} : turns'[u] = turns[u]
    BY DEF IInv, TypeOK
  <1>2. CASE r.stage = "out" /\ r.reply = "none" /\ r.back = "none"
    <2>1. turns'[t] = Away /\ turns[t].stage = "out"
      BY <1>1, <1>2 DEF Kept
    <2> QED
      BY <1>1, <1>2, <2>1 DEF Place, Sending, HasSession, HasGlobal, Away
  <1>3. CASE ~ (r.stage = "out" /\ r.reply = "none" /\ r.back = "none")
    <2>1. turns'[t] = r /\ r # Away
      BY <1>1, <1>3, Full DEF Kept
    <2> QED
      BY <1>1, <2>1 DEF Place, Sending, HasSession, HasGlobal
  <1> QED
    BY <1>2, <1>3

LEMMA ReplyKeeps ==
    ASSUME IInv, TypeOK', NEW t \in Turns, NEW from, NEW to \in {"none", "running", "sending"},
           Reply(t, from, to), to = "sending" => Current(t) /\ ~ Locked(turns[t].gate)
    PROVE  IInv'
  <1> DEFINE r == [turns[t] EXCEPT !.reply = to]
  <1>1. turns[t] \in Turn /\ r \in Turn /\ Kept(r) \in Turn \cup {Away}
    BY Present, Altered, Full DEF Reply, IInv
  <1>2. turns' = [turns EXCEPT ![t] = Kept(r)] /\ UNCHANGED <<scene, table, gates, slots, kept>>
    BY DEF Reply
  <1>3. /\ r.stage = turns[t].stage /\ r.wait = turns[t].wait /\ r.gate = turns[t].gate
        /\ r.key = turns[t].key /\ r.reply = to
    BY <1>1 DEF Turn
  <1> HIDE DEF r
  <1>4. /\ turns'[t] = Kept(r) /\ \A u \in Turns \ {t} : turns'[u] = turns[u]
        /\ Place(t) /\ (HasSession(t)' <=> HasSession(t)) /\ (HasGlobal(t)' <=> HasGlobal(t))
        /\ Sending(t)' <=> to = "sending"
        /\ Sending(t)' => turns'[t].gate = turns[t].gate /\ turns'[t].key = turns[t].key
    BY <1>1, <1>2, <1>3, KeptPlace
  <1>5. Calm(t) \/ (AtHome' /\ OneSends') => IInv'
    BY <1>1, <1>2, <1>4, OneQuiet
  <1>6. CASE to # "sending"
    BY <1>4, <1>5, <1>6 DEF Calm
  <1>7. CASE to = "sending"
    <2>1. turns[t].stage = "active" /\ turns'[t].gate = turns[t].gate /\ turns'[t].key = turns[t].key
      BY <1>4, <1>7 DEF Current
    <2>2. \A u \in Turns \ {t} : (Sending(u)' <=> Sending(u)) /\ turns'[u] = turns[u]
      BY <1>4 DEF Sending
    <2>3. AtHome'
      BY <1>2, <2>1, <2>2 DEF AtHome, IInv
    <2>4. \A u \in Turns \ {t} : Sending(u) => turns[u].gate # turns[t].gate
      BY <1>7 DEF Locked
    <2>5. OneSends'
      BY <2>1, <2>2, <2>4 DEF OneSends, IInv
    <2> QED
      BY <1>5, <2>3, <2>5
  <1> QED
    BY <1>6, <1>7

LEMMA BackKeeps ==
    ASSUME IInv, TypeOK', NEW t \in Turns, NEW from, NEW to \in {"none", "waits", "sending"},
           Back(t, from, to)
    PROVE  IInv'
  <1> DEFINE r == [turns[t] EXCEPT !.back = to]
  <1>1. turns[t] \in Turn /\ r \in Turn /\ Kept(r) \in Turn \cup {Away}
    BY Present, Altered, Full DEF Back, IInv
  <1>2. turns' = [turns EXCEPT ![t] = Kept(r)] /\ UNCHANGED <<scene, table, gates, slots, kept>>
    BY DEF Back
  <1>3. /\ r.stage = turns[t].stage /\ r.wait = turns[t].wait /\ r.gate = turns[t].gate
        /\ r.key = turns[t].key /\ r.reply = turns[t].reply
    BY <1>1 DEF Turn
  <1> HIDE DEF r
  <1>4. /\ turns'[t] = Kept(r) /\ \A u \in Turns \ {t} : turns'[u] = turns[u]
        /\ Place(t) /\ (HasSession(t)' <=> HasSession(t)) /\ (HasGlobal(t)' <=> HasGlobal(t))
        /\ Sending(t)' <=> turns[t].reply = "sending"
        /\ Sending(t)' => turns'[t].gate = turns[t].gate /\ turns'[t].key = turns[t].key
    BY <1>1, <1>2, <1>3, KeptPlace
  <1>5. Calm(t) \/ (AtHome' /\ OneSends') => IInv'
    BY <1>1, <1>2, <1>4, OneQuiet
  <1>6. Calm(t)
    BY <1>1, <1>4, Full DEF Calm, Sending
  <1> QED
    BY <1>5, <1>6
-----------------------------------------------------------------------------
(* A turn leaves                                                            *)

LEMMA DepartsKeeps ==
    ASSUME IInv, TypeOK', NEW t \in Turns, turns[t].stage # "out", Departs(t)
    PROVE  IInv'
  <1>T. TypeOK
    BY DEF IInv
  <1>0. turns[t] \in Turn /\ turns[t].gate \in Gates /\ turns[t].key \in Sessions /\ turns[t] # Away
    BY <1>T, Present, Full
  <1> PICK g \in Gates, k \in Sessions : g = turns[t].gate /\ k = turns[t].key
    BY <1>0
  <1> PICK w, v, gate : DepartsWith(t, w, v, gate)
    BY <1>T, Departure
  <1>1. UNCHANGED <<scene, kept>> /\ gates' = [gates EXCEPT ![g] = gate] /\ gates'[g] = gate
    BY <1>T DEF Departs, DepartsWith, TypeOK
  <1>2. table[k] = g /\ t \in Inside(g)
    BY <1>0 DEF IInv, AtHome, Inside
  <1>3. turns'[t].stage = "out" /\ (Sending(t)' => /\ Sending(t) /\ turns'[t].gate = g /\ turns'[t].key = k)
    <2> DEFINE r == [turns[t] EXCEPT !.stage = "out", !.wait = "asks"]
    <2>1. turns'[t] = Kept(r)
      BY <1>T, Departure
    <2>2. r.stage = "out" /\ r.gate = g /\ r.key = k /\ r.reply = turns[t].reply
      BY <1>0 DEF Turn
    <2> HIDE DEF r
    <2>3. turns'[t] = Away \/ turns'[t] = r
      BY <2>1 DEF Kept
    <2> QED
      BY <1>0, <2>2, <2>3 DEF Away, Sending
  <1>4. ASSUME NEW u \in Turns \ {t}
        PROVE  /\ Place(u) /\ Calm(u)
               /\ u # v => (HasSession(u)' <=> HasSession(u))
               /\ u # w => (HasGlobal(u)' <=> HasGlobal(u))
    <2>1. CASE turns'[u] = turns[u]
      BY <2>1 DEF Place, Calm, Sending, HasSession, HasGlobal
    <2>2. CASE turns'[u] # turns[u]
      <3>1. turns[u] \in Turn /\ turns'[u] = [turns[u] EXCEPT !.wait = "woken"]
        BY <2>2 DEF DepartsWith
      <3>2. /\ turns'[u].stage = turns[u].stage /\ turns'[u].gate = turns[u].gate
            /\ turns'[u].key = turns[u].key /\ turns'[u].reply = turns[u].reply
        BY <3>1 DEF Turn
      <3>3. turns[u] # Away
        BY <3>1, Full
      <3>4. Place(u) /\ Calm(u)
        BY <3>2, <3>3 DEF Place, Calm, Sending
      <3>5. /\ u # v => turns[u].stage # "session"
            /\ u # w => turns[u].stage # "global"
        BY <2>2, ConstantsAssumption DEF DepartsWith
      <3> QED
        BY <3>2, <3>4, <3>5 DEF HasSession, HasGlobal
    <2> QED
      BY <2>1, <2>2
  <1>5. ASSUME v \in Turns
        PROVE  /\ v # t /\ v \in Inside(g) /\ HasSession(t) /\ ~ HasSession(v) /\ HasSession(v)'
    <2>1. /\ v \in Turns \ {t} /\ turns[v] \in Turn /\ HasSession(t) /\ turns[v].gate = g
          /\ turns[v].stage = "session" /\ turns[v].wait = "waits"
      BY <1>5, ConstantsAssumption DEF DepartsWith
    <2>2. turns'[v] = [turns[v] EXCEPT !.wait = "woken"]
      BY <2>1 DEF DepartsWith
    <2>3. turns'[v].stage = "session" /\ turns'[v].wait = "woken"
      BY <2>1, <2>2 DEF Turn
    <2> QED
      BY <2>1, <2>3 DEF HasSession, Inside
  <1>6. ASSUME w \in Turns
        PROVE  /\ w # t /\ HasGlobal(t) /\ ~ HasGlobal(w) /\ HasGlobal(w)'
    <2>1. /\ w \in Turns \ {t} /\ turns[w] \in Turn /\ HasGlobal(t)
          /\ turns[w].stage = "global" /\ turns[w].wait = "waits"
      BY <1>6, ConstantsAssumption DEF DepartsWith
    <2>2. turns'[w] = [turns[w] EXCEPT !.wait = "woken"]
      BY <2>1 DEF DepartsWith
    <2>3. turns'[w].stage = "global" /\ turns'[w].wait = "woken"
      BY <2>1, <2>2 DEF Turn
    <2> QED
      BY <2>1, <2>3 DEF HasGlobal
  <1>7. v \in Turns \cup {None} /\ w \in Turns \cup {None}
    BY DEF DepartsWith
  <1>8. Inside(g)' = Inside(g) \ {t} /\ \A h \in Gates \ {g} : Inside(h)' = Inside(h) /\ t \notin Inside(h)
    <2>1. \A u \in Turns \ {t} : Place(u)
      BY <1>4
    <2> QED
      BY <1>3, <2>1 DEF Inside, Place
  <1>9. ~ HasSession(t)' /\ ~ HasGlobal(t)'
    BY <1>3 DEF HasSession, HasGlobal
  <1>10. \A h \in Gates : Inside(h) \in SUBSET Turns
    BY DEF Inside
  <1>11. ASSUME NEW h \in Gates \ {g} PROVE Holders(h)' = Holders(h)
    <2>1. \A u \in Inside(h) : u \in Turns \ {t} /\ u # v
      BY <1>5, <1>8, <1>10 DEF Inside
    <2>2. \A u \in Inside(h) : HasSession(u)' <=> HasSession(u)
      BY <1>4, <2>1
    <2> QED
      BY <1>8, <2>2, HolderSame
  <1>12. Holders(g)' = (Holders(g) \ {t}) \cup (IF v = None THEN {} ELSE {v})
    <2>1. ASSUME NEW u PROVE u \in Holders(g)' <=> u \in (Holders(g) \ {t}) \cup (IF v = None THEN {} ELSE {v})
      <3>1. u \in Holders(g)' <=> u \in Inside(g) \ {t} /\ HasSession(u)'
        BY <1>8, Zenon DEF Holders
      <3>2. u \in Holders(g) <=> u \in Inside(g) /\ HasSession(u)
        BY Zenon DEF Holders
      <3>3. CASE u = t
        BY <1>5, <1>7, <3>1, <3>3
      <3>4. CASE u # t /\ u = v
        <4>1. CASE v = None
          BY <1>10, <3>1, <3>2, <3>4, <4>1, ConstantsAssumption
        <4>2. CASE v # None
          BY <1>5, <1>7, <3>1, <3>4, <4>2
        <4> QED
          BY <4>1, <4>2
      <3>5. CASE u # t /\ u # v
        BY <1>4, <1>10, <3>1, <3>2, <3>5
      <3> QED
        BY <3>3, <3>4, <3>5
    <2> QED
      BY <2>1
  <1>13. AllHolders' = (AllHolders \ {t}) \cup (IF w = None THEN {} ELSE {w})
    <2>1. ASSUME NEW u PROVE u \in AllHolders' <=> u \in (AllHolders \ {t}) \cup (IF w = None THEN {} ELSE {w})
      <3>1. u \in AllHolders' <=> u \in Turns /\ HasGlobal(u)'
        BY Zenon DEF AllHolders
      <3>2. u \in AllHolders <=> u \in Turns /\ HasGlobal(u)
        BY Zenon DEF AllHolders
      <3>3. CASE u = t
        BY <1>6, <1>7, <1>9, <3>1, <3>3
      <3>4. CASE u # t /\ u = w
        <4>1. CASE w = None
          BY <3>1, <3>2, <3>4, <4>1, ConstantsAssumption
        <4>2. CASE w # None
          BY <1>6, <1>7, <3>1, <3>4, <4>2
        <4> QED
          BY <4>1, <4>2
      <3>5. CASE u # t /\ u # w
        BY <1>4, <3>1, <3>2, <3>5
      <3> QED
        BY <3>3, <3>4, <3>5
    <2> QED
      BY <2>1
  <1>14. AllBalance'
    <2>1. AllHolders \in SUBSET Turns /\ (HasGlobal(t) <=> t \in AllHolders)
      BY DEF AllHolders
    <2>2. slots \in Nat /\ slots + Cardinality(AllHolders) = scene.global_limit
      BY <1>T DEF TypeOK, IInv, AllBalance
    <2>3. slots' = IF HasGlobal(t) /\ w = None THEN slots + 1 ELSE slots
      BY DEF DepartsWith
    <2>4. AllHolders \ {t} \in SUBSET Turns /\ (w \in Turns => w \notin AllHolders \ {t} /\ HasGlobal(t))
      BY <1>6, <2>1 DEF AllHolders
    <2>5. /\ Cardinality(AllHolders) \in Nat
          /\ HasGlobal(t) => Cardinality(AllHolders \ {t}) = Cardinality(AllHolders) - 1
          /\ ~ HasGlobal(t) => AllHolders \ {t} = AllHolders
      BY <2>1, Counting
    <2>6. CASE w = None
      BY <1>1, <1>13, <2>2, <2>3, <2>5, <2>6 DEF AllBalance
    <2>7. CASE w # None
      <3>1. Cardinality(AllHolders') = Cardinality(AllHolders \ {t}) + 1
        BY <1>7, <1>13, <2>4, <2>7, Counting
      <3> QED
        BY <1>1, <1>7, <2>2, <2>3, <2>4, <2>5, <2>7, <3>1 DEF AllBalance
    <2> QED
      BY <2>6, <2>7
  <1>15. SlotsBalance'
    <2> DEFINE n == gates[g].slots
               H == Holders(g)
    <2>1. H \in SUBSET Turns /\ (HasSession(t) <=> t \in H)
      BY <1>2, <1>10 DEF Holders
    <2>2. n \in Nat /\ n + Cardinality(H) = scene.session_limit
      BY <1>T, GateTyped DEF TypeOK, IInv, SlotsBalance
    <2>3. gates'[g].slots = IF HasSession(t) /\ v = None THEN n + 1 ELSE n
      BY <1>1 DEF DepartsWith
    <2>4. H \ {t} \in SUBSET Turns /\ (v \in Turns => v \notin H \ {t} /\ HasSession(t))
      BY <1>5, <2>1 DEF Holders
    <2>5. /\ Cardinality(H) \in Nat
          /\ HasSession(t) => Cardinality(H \ {t}) = Cardinality(H) - 1
          /\ ~ HasSession(t) => H \ {t} = H
      BY <2>1, Counting
    <2>6. gates'[g].slots + Cardinality(Holders(g)') = scene.session_limit
      <3> HIDE DEF n
      <3>1. CASE v = None
        <4>1. Holders(g)' = H \ {t}
          BY <1>12, <3>1
        <4> HIDE DEF H
        <4>2. CASE HasSession(t)
          <5>1. gates'[g].slots = n + 1 /\ Cardinality(Holders(g)') = Cardinality(H) - 1
            BY <2>3, <2>5, <3>1, <4>1, <4>2
          <5> QED
            BY <2>2, <2>5, <5>1
        <4>3. CASE ~ HasSession(t)
          <5>1. gates'[g].slots = n /\ Holders(g)' = H
            BY <2>3, <2>5, <3>1, <4>1, <4>3
          <5> QED
            BY <2>2, <5>1
        <4> QED
          BY <4>2, <4>3
      <3>2. CASE v # None
        <4>1. Holders(g)' = (H \ {t}) \cup {v} /\ v \in Turns
          BY <1>7, <1>12, <3>2
        <4> HIDE DEF H
        <4>2. Cardinality(Holders(g)') = Cardinality(H \ {t}) + 1
          BY <2>4, <4>1, Counting
        <4> QED
          BY <2>2, <2>3, <2>4, <2>5, <3>2, <4>1, <4>2
      <3> QED
        BY <3>1, <3>2
    <2>7. ASSUME NEW h \in Gates \ {g} PROVE gates'[h].slots + Cardinality(Holders(h)') = scene.session_limit
      <3>1. gates'[h] = gates[h]
        BY <1>1, <1>T DEF TypeOK
      <3> QED
        BY <1>11, <3>1 DEF IInv, SlotsBalance
    <2> QED
      BY <1>1, <2>6, <2>7 DEF SlotsBalance
  \* The gate goes only when nobody needs it.
  <1>16. /\ Cardinality(Inside(g)) \in Nat /\ Cardinality(Inside(g)) > 0
         /\ Cardinality(Inside(g)') = Cardinality(Inside(g)) - 1
         /\ Cardinality(Inside(g)') = 0 => Inside(g)' = {}
    <2>1. Inside(g) \in SUBSET Turns /\ Inside(g) \ {t} \in SUBSET Turns
      BY <1>10
    <2>2. /\ Cardinality(Inside(g)) \in Nat /\ Cardinality(Inside(g)) > 0
          /\ Cardinality(Inside(g) \ {t}) = Cardinality(Inside(g)) - 1
      BY <1>2, <2>1, Counting
    <2>3. Cardinality(Inside(g) \ {t}) = 0 => Inside(g) \ {t} = {}
      BY <2>1, Counting
    <2> QED
      BY <1>8, <2>2, <2>3
  <1>17. gate.refs = Cardinality(Inside(g)') + Retained(g)
    <2>1. gates[g].refs = Cardinality(Inside(g)) + Retained(g) /\ Retained(g) \in {0, 1}
      BY DEF IInv, RefsBalance, Retained
    <2>2. gate.refs = Less(gates[g].refs)
      BY DEF DepartsWith
    <2> QED
      BY <1>16, <2>1, <2>2 DEF Less
  <1>18. \/ table' = table
         \/ /\ table' = [table EXCEPT ![k] = None] /\ Inside(g)' = {} /\ Retained(g) = 0
            /\ \A u \in Turns : turns[u].gate = g => ~ Sending(u)
    <2>1. table' = Cleanup(k, g, gate)
      BY DEF DepartsWith
    <2>2. Discarded(k, g, gate) => /\ Inside(g)' = {} /\ Retained(g) = 0
                                   /\ \A u \in Turns : turns[u].gate = g => ~ Sending(u)
      <3> SUFFICES ASSUME Discarded(k, g, gate)
                   PROVE  /\ Inside(g)' = {} /\ Retained(g) = 0
                          /\ \A u \in Turns : turns[u].gate = g => ~ Sending(u)
        OBVIOUS
      <3>1. gate.refs = 0 /\ ~ Locked(g)
        BY DEF Discarded
      <3>2. Retained(g) \in {0, 1}
        BY DEF Retained
      <3>3. Inside(g)' = {} /\ Retained(g) = 0
        BY <1>16, <1>17, <3>1, <3>2
      <3> QED
        BY <3>1, <3>3 DEF Locked
    <2> QED
      BY <2>1, <2>2 DEF Cleanup
  <1>19. table \in [Sessions -> Gates \cup {None}] /\ kept \subseteq Sessions
    BY <1>T DEF TypeOK
  <1>20. KeptHave' /\ OwnGates'
    <2>1. CASE table' = table
      BY <1>1, <2>1 DEF IInv, KeptHave, OwnGates
    <2>2. CASE table' = [table EXCEPT ![k] = None] /\ Retained(g) = 0
      <3>1. k \notin kept
        BY <1>2, <2>2 DEF Retained
      <3> QED
        BY <1>1, <1>19, <2>2, <3>1 DEF IInv, KeptHave, OwnGates
    <2> QED
      BY <1>18, <2>1, <2>2
  <1>21. \A h \in Gates : Retained(h)' = Retained(h)
    <2>1. CASE table' = table
      BY <1>1, <2>1 DEF Retained
    <2>2. CASE table' = [table EXCEPT ![k] = None] /\ Retained(g) = 0
      <3>1. k \notin kept
        BY <1>2, <2>2 DEF Retained
      <3>2. \A l \in kept : table'[l] = table[l]
        BY <1>19, <2>2, <3>1
      <3> QED
        BY <1>1, <3>2 DEF Retained
    <2> QED
      BY <1>18, <2>1, <2>2
  <1>22. RefsBalance'
    <2>1. gates'[g].refs = Cardinality(Inside(g)') + Retained(g)'
      BY <1>1, <1>17, <1>21
    <2>2. ASSUME NEW h \in Gates \ {g} PROVE gates'[h].refs = Cardinality(Inside(h)') + Retained(h)'
      <3>1. gates'[h] = gates[h]
        BY <1>1, <1>T DEF TypeOK
      <3> QED
        BY <1>8, <1>21, <3>1 DEF IInv, RefsBalance
    <2> QED
      BY <2>1, <2>2 DEF RefsBalance
  <1>23. ASSUME NEW u \in Turns, (turns'[u].stage # "out") \/ Sending(u)'
         PROVE  table'[turns'[u].key] = turns'[u].gate
    <2>1. /\ turns'[u].gate = turns[u].gate /\ turns'[u].key = turns[u].key
          /\ (turns[u].stage # "out") \/ Sending(u)
      <3>1. CASE u = t
        BY <1>3, <1>23, <3>1
      <3>2. CASE u # t
        BY <1>4, <1>23, <3>2 DEF Place, Calm
      <3> QED
        BY <3>1, <3>2
    <2>2. table[turns[u].key] = turns[u].gate
      BY <2>1 DEF IInv, AtHome
    <2>3. turns[u].key \in Sessions
      BY <1>T, <2>1, Present, Full DEF Sending
    <2>4. CASE table' = table
      BY <2>1, <2>2, <2>4
    <2>5. CASE /\ table' = [table EXCEPT ![k] = None] /\ Inside(g)' = {}
               /\ \A x \in Turns : turns[x].gate = g => ~ Sending(x)
      <3>1. turns[u].gate # g
        <4>1. CASE turns'[u].stage # "out"
          BY <2>1, <2>5, <4>1 DEF Inside
        <4>2. CASE Sending(u)'
          <5>1. Sending(u)
            BY <1>3, <1>4, <4>2 DEF Calm
          <5> QED
            BY <2>5, <5>1
        <4> QED
          BY <1>23, <4>1, <4>2
      <3>2. turns[u].key # k
        BY <1>2, <2>2, <3>1
      <3> QED
        BY <1>19, <2>1, <2>2, <2>3, <2>5, <3>2
    <2> QED
      BY <1>18, <2>4, <2>5
  <1>24. AtHome'
    BY <1>23 DEF AtHome
  <1>25. OneSends'
    <2>1. \A u \in Turns : Sending(u)' => Sending(u) /\ turns'[u].gate = turns[u].gate
      BY <1>3, <1>4 DEF Calm
    <2> QED
      BY <2>1 DEF IInv, OneSends
  <1> QED
    BY <1>14, <1>15, <1>20, <1>22, <1>24, <1>25 DEF IInv
-----------------------------------------------------------------------------
(* A gate is found or made                                                  *)

\* What both who enter and an entry that retains a gate find.
LEMMA FoundKeeps ==
    ASSUME IInv, NEW k \in Sessions, NEW g \in GatesFor(k), table' = [table EXCEPT ![k] = g]
    PROVE  /\ g \in Gates /\ Found(k, g) \in Gate
           /\ Found(k, g).refs = Cardinality(Inside(g)) + Retained(g)
           /\ Found(k, g).slots + Cardinality(Holders(g)) = scene.session_limit
           /\ table'[k] = g /\ OwnGates'
           /\ \A l \in kept : table[l] # None /\ table'[l] = table[l]
           /\ \A t \in Turns : (turns[t].stage # "out") \/ Sending(t) => table'[turns[t].key] = turns[t].gate
  <1>T. TypeOK /\ table \in [Sessions -> Gates \cup {None}] /\ kept \subseteq Sessions
    BY DEF IInv, TypeOK
  <1>1. g \in Gates /\ Found(k, g) \in Gate
    BY <1>T, GateFound
  <1>2. /\ \A l \in kept : table[l] # None
        /\ \A t \in Turns : (turns[t].stage # "out") \/ Sending(t) =>
              turns[t].key \in Sessions /\ turns[t].gate \in Gates /\ table[turns[t].key] = turns[t].gate
    <2>1. ASSUME NEW t \in Turns, (turns[t].stage # "out") \/ Sending(t)
          PROVE  turns[t].key \in Sessions /\ turns[t].gate \in Gates /\ table[turns[t].key] = turns[t].gate
      <3>1. turns[t] \in Turn
        BY <1>T, <2>1, Present DEF Sending
      <3> QED
        BY <2>1, <3>1, Full DEF IInv, AtHome
    <2> QED
      BY <2>1 DEF IInv, KeptHave
  <1>3. CASE table[k] # None
    <2>1. g = table[k] /\ Found(k, g) = gates[g] /\ table' = table
      BY <1>T, <1>3 DEF GatesFor, Found
    <2>2. OwnGates'
      BY <2>1 DEF OwnGates, IInv
    <2> QED
      BY <1>1, <1>2, <2>1, <2>2 DEF IInv, RefsBalance, SlotsBalance
  <1>4. CASE table[k] = None
    <2>1. /\ Found(k, g) = NewGate
          /\ \A l \in Sessions : table[l] # g
          /\ \A t \in Turns : turns[t].gate # g
      BY <1>T, <1>4, GateFound
    <2>2. Inside(g) = {} /\ Holders(g) = {} /\ Retained(g) = 0
      BY <1>T, <2>1 DEF Inside, Holders, Retained
    <2>3. Cardinality({}) = 0
      BY FS_EmptySet
    <2>4. Found(k, g).refs = 0 /\ Found(k, g).slots = scene.session_limit
      BY <2>1 DEF NewGate
    <2>5. scene.session_limit \in Nat
      BY <1>T, Limits
    <2>6. table'[k] = g /\ \A l \in Sessions \ {k} : table'[l] = table[l]
      BY <1>T
    <2>7. OwnGates'
      BY <2>1, <2>6 DEF IInv, OwnGates
    <2>8. k \notin kept
      BY <1>2, <1>4
    <2>9. \A l \in kept : table'[l] = table[l]
      BY <1>T, <2>6, <2>8
    <2>10. \A t \in Turns : (turns[t].stage # "out") \/ Sending(t) => table'[turns[t].key] = turns[t].gate
      BY <1>2, <1>4, <2>6, ConstantsAssumption
    <2> QED
      BY <1>1, <1>2, <2>2, <2>3, <2>4, <2>5, <2>6, <2>7, <2>9, <2>10
  <1> QED
    BY <1>3, <1>4

LEMMA RetainEntryKeeps ==
    ASSUME IInv, TypeOK', NEW k \in Sessions, RetainEntry(k)
    PROVE  IInv'
  <1>T. TypeOK
    BY DEF IInv
  <1> PICK g \in GatesFor(k) :
          /\ table' = [table EXCEPT ![k] = g]
          /\ gates' = [gates EXCEPT ![g] = [Found(k, g) EXCEPT !.refs = @ + 1]]
    BY DEF RetainEntry
  <1>1. kept' = kept \cup {k} /\ k \notin kept /\ UNCHANGED <<scene, slots, turns>>
    BY DEF RetainEntry
  <1>2. /\ g \in Gates /\ Found(k, g) \in Gate
        /\ Found(k, g).refs = Cardinality(Inside(g)) + Retained(g)
        /\ Found(k, g).slots + Cardinality(Holders(g)) = scene.session_limit
        /\ table'[k] = g /\ OwnGates'
        /\ \A l \in kept : table[l] # None /\ table'[l] = table[l]
        /\ \A t \in Turns : (turns[t].stage # "out") \/ Sending(t) => table'[turns[t].key] = turns[t].gate
    BY FoundKeeps
  <1>3. gates'[g].refs = Found(k, g).refs + 1 /\ gates'[g].slots = Found(k, g).slots
    BY <1>T, <1>2 DEF TypeOK, Gate
  <1>4. \A h \in Gates \ {g} : gates'[h] = gates[h]
    BY <1>T DEF TypeOK
  <1>5. \A h \in Gates : Inside(h)' = Inside(h) /\ Holders(h)' = Holders(h)
    BY <1>1 DEF Inside, Holders, HasSession
  <1>6. Retained(g) = 0 /\ Retained(g)' = 1
    <2>1. \A l \in kept : table[l] # g
      BY <1>1, <1>2, <1>T DEF OwnGates, TypeOK
    <2> QED
      BY <1>1, <1>2, <2>1 DEF Retained
  <1>7. \A h \in Gates \ {g} : Retained(h)' = Retained(h)
    BY <1>1, <1>2 DEF Retained
  <1>8. RefsBalance'
    <2>1. Cardinality(Inside(g)) \in Nat
      BY Counting DEF Inside
    <2>2. gates'[g].refs = Cardinality(Inside(g)') + Retained(g)'
      BY <1>2, <1>3, <1>5, <1>6, <2>1
    <2>3. \A h \in Gates \ {g} : gates'[h].refs = Cardinality(Inside(h)') + Retained(h)'
      BY <1>4, <1>5, <1>7 DEF IInv, RefsBalance
    <2> QED
      BY <2>2, <2>3 DEF RefsBalance
  <1>9. SlotsBalance'
    <2>1. gates'[g].slots + Cardinality(Holders(g)') = scene'.session_limit
      BY <1>1, <1>2, <1>3, <1>5
    <2>2. \A h \in Gates \ {g} : gates'[h].slots + Cardinality(Holders(h)') = scene'.session_limit
      BY <1>1, <1>4, <1>5 DEF IInv, SlotsBalance
    <2> QED
      BY <2>1, <2>2 DEF SlotsBalance
  <1>10. AllBalance' /\ OneSends'
    BY <1>1 DEF IInv, AllBalance, AllHolders, HasGlobal, OneSends, Sending
  <1>11. AtHome'
    BY <1>1, <1>2 DEF AtHome, Sending
  <1>12. KeptHave'
    BY <1>1, <1>2, ConstantsAssumption DEF KeptHave
  <1> QED
    BY <1>2, <1>8, <1>9, <1>10, <1>11, <1>12 DEF IInv

LEMMA EnterKeeps ==
    ASSUME IInv, TypeOK', NEW t \in Turns, NEW call \in scene.calls[t], Enter(t, call)
    PROVE  IInv'
  <1>T. TypeOK
    BY DEF IInv
  <1>0. call.key \in Sessions
    BY <1>T, Limits DEF Call
  <1> PICK k \in Sessions : k = call.key
    BY <1>0
  <1> PICK g \in GatesFor(k) :
          /\ table' = [table EXCEPT ![k] = g]
          /\ gates' = [gates EXCEPT ![g] =
                [Found(k, g) EXCEPT !.refs = @ + 1, !.waiters = @ + 1,
                                    !.direct_count = IF call.direct THEN @ + 1 ELSE @,
                                    !.direct_idle = IF call.direct THEN FALSE ELSE @]]
          /\ turns' = [turns EXCEPT ![t] =
                [key |-> k, gate |-> g, direct |-> call.direct, poke |-> call.poke,
                 stage |-> IF call.direct THEN "session" ELSE "idle", wait |-> "asks",
                 reply |-> "none", back |-> "none"]]
    BY DEF Enter
  <1>1. UNCHANGED <<scene, slots, kept>> /\ turns[t] = Away
    BY DEF Enter
  <1>2. /\ g \in Gates /\ Found(k, g) \in Gate
        /\ Found(k, g).refs = Cardinality(Inside(g)) + Retained(g)
        /\ Found(k, g).slots + Cardinality(Holders(g)) = scene.session_limit
        /\ table'[k] = g /\ OwnGates'
        /\ \A l \in kept : table[l] # None /\ table'[l] = table[l]
        /\ \A u \in Turns : (turns[u].stage # "out") \/ Sending(u) => table'[turns[u].key] = turns[u].gate
    BY FoundKeeps
  <1>3. gates'[g].refs = Found(k, g).refs + 1 /\ gates'[g].slots = Found(k, g).slots
    BY <1>T, <1>2 DEF TypeOK, Gate
  <1>4. \A h \in Gates \ {g} : gates'[h] = gates[h]
    BY <1>T DEF TypeOK
  <1>5. /\ turns'[t].key = k /\ turns'[t].gate = g /\ turns'[t].stage \in {"session", "idle"}
        /\ turns'[t].wait = "asks" /\ turns'[t].reply = "none"
        /\ \A u \in Turns \ {t} : turns'[u] = turns[u]
    BY <1>T DEF TypeOK
  <1>6. /\ ~ HasSession(t)' /\ ~ HasGlobal(t)' /\ ~ Sending(t)'
        /\ ~ HasSession(t) /\ ~ HasGlobal(t)
        /\ turns[t].stage = "out"
    BY <1>1, <1>5 DEF HasSession, HasGlobal, Sending, Away
  <1>7. \A u \in Turns \ {t} : /\ HasSession(u)' <=> HasSession(u)
                               /\ HasGlobal(u)' <=> HasGlobal(u)
                               /\ Sending(u)' <=> Sending(u)
    BY <1>5 DEF HasSession, HasGlobal, Sending
  <1>8. /\ Inside(g)' = Inside(g) \cup {t} /\ t \notin Inside(g)
        /\ \A h \in Gates \ {g} : Inside(h)' = Inside(h)
    BY <1>5, <1>6 DEF Inside
  <1>9. ASSUME NEW h \in Gates PROVE Holders(h)' = Holders(h)
    <2>1. ASSUME NEW u PROVE u \in Holders(h)' <=> u \in Holders(h)
      <3>1. u \in Holders(h)' <=> u \in Inside(h)' /\ HasSession(u)'
        BY Zenon DEF Holders
      <3>2. u \in Holders(h) <=> u \in Inside(h) /\ HasSession(u)
        BY Zenon DEF Holders
      <3>3. Inside(h) \subseteq Turns
        BY DEF Inside
      <3>4. CASE u = t
        BY <1>6, <3>1, <3>2, <3>4
      <3>5. CASE u # t
        <4>1. u \in Inside(h)' <=> u \in Inside(h)
          BY <1>8, <3>5
        <4> QED
          BY <1>7, <3>1, <3>2, <3>3, <3>5, <4>1
      <3> QED
        BY <3>4, <3>5
    <2> QED
      BY <2>1
  <1>10. \A h \in Gates : Retained(h)' = Retained(h)
    BY <1>1, <1>2 DEF Retained
  <1>11. RefsBalance'
    <2>1. Inside(g) \in SUBSET Turns
      BY DEF Inside
    <2>2. /\ Cardinality(Inside(g)) \in Nat
          /\ Cardinality(Inside(g)') = Cardinality(Inside(g)) + 1
      BY <1>8, <2>1, Counting
    <2>3. Retained(g) \in {0, 1}
      BY DEF Retained
    <2>4. gates'[g].refs = Cardinality(Inside(g)') + Retained(g)'
      BY <1>2, <1>3, <1>10, <2>2, <2>3
    <2>5. \A h \in Gates \ {g} : gates'[h].refs = Cardinality(Inside(h)') + Retained(h)'
      BY <1>4, <1>8, <1>10 DEF IInv, RefsBalance
    <2> QED
      BY <2>4, <2>5 DEF RefsBalance
  <1>12. SlotsBalance'
    <2>1. gates'[g].slots + Cardinality(Holders(g)') = scene'.session_limit
      BY <1>1, <1>2, <1>3, <1>9
    <2>2. \A h \in Gates \ {g} : gates'[h].slots + Cardinality(Holders(h)') = scene'.session_limit
      BY <1>1, <1>4, <1>9 DEF IInv, SlotsBalance
    <2> QED
      BY <2>1, <2>2 DEF SlotsBalance
  <1>13. AllBalance'
    <2>1. AllHolders' = AllHolders
      BY <1>6, <1>7 DEF AllHolders
    <2> QED
      BY <1>1, <2>1, AllMove
  <1>14. AtHome'
    <2>1. ASSUME NEW u \in Turns, (turns'[u].stage # "out") \/ Sending(u)'
          PROVE  table'[turns'[u].key] = turns'[u].gate
      <3>1. CASE u = t
        BY <1>2, <1>5, <3>1
      <3>2. CASE u # t
        BY <1>2, <1>5, <1>7, <2>1, <3>2
      <3> QED
        BY <3>1, <3>2
    <2> QED
      BY <2>1 DEF AtHome
  <1>15. KeptHave' /\ OneSends'
    <2>1. \A u \in Turns : Sending(u)' => Sending(u) /\ turns'[u] = turns[u]
      BY <1>5, <1>6, <1>7
    <2>2. OneSends'
      BY <2>1 DEF IInv, OneSends
    <2>3. KeptHave'
      BY <1>1, <1>2 DEF KeptHave
    <2> QED
      BY <2>2, <2>3
  <1> QED
    BY <1>2, <1>11, <1>12, <1>13, <1>14, <1>15 DEF IInv
LEMMA ReleaseEntryKeeps ==
    ASSUME IInv, TypeOK', NEW k \in Sessions, ReleaseEntry(k)
    PROVE  IInv'
  <1>T. TypeOK /\ table \in [Sessions -> Gates \cup {None}] /\ kept \subseteq Sessions
    BY DEF IInv, TypeOK
  <1>0. k \in kept /\ kept' = kept \ {k} /\ UNCHANGED <<scene, slots, turns>>
    BY DEF ReleaseEntry
  <1>1. table[k] # None
    BY <1>0 DEF IInv, KeptHave
  <1> PICK g \in Gates : g = table[k]
    BY <1>T, <1>1
  <1> DEFINE gate == [gates[g] EXCEPT !.refs = Less(@)]
  <1>2. gates' = [gates EXCEPT ![g] = gate] /\ table' = Cleanup(k, g, gate)
    BY <1>1 DEF ReleaseEntry
  <1>3. \A h \in Gates : Inside(h)' = Inside(h) /\ Holders(h)' = Holders(h)
    BY <1>0 DEF Inside, Holders, HasSession
  <1>4. /\ gates'[g].refs = Less(gates[g].refs) /\ gates'[g].slots = gates[g].slots
        /\ gate.refs = Less(gates[g].refs)
        /\ \A h \in Gates \ {g} : gates'[h] = gates[h]
    BY <1>T, <1>2 DEF TypeOK, Gate
  <1> HIDE DEF gate
  <1>5. Retained(g) = 1 /\ \A l \in kept \ {k} : table[l] # g
    BY <1>0, <1>1, <1>T DEF Retained, IInv, OwnGates
  <1>6. /\ Cardinality(Inside(g)) \in Nat /\ (Cardinality(Inside(g)) = 0 => Inside(g) = {})
        /\ gate.refs = Cardinality(Inside(g)) /\ gates'[g].refs = Cardinality(Inside(g))
    <2>1. Inside(g) \in SUBSET Turns
      BY DEF Inside
    <2>2. Cardinality(Inside(g)) \in Nat /\ (Cardinality(Inside(g)) = 0 => Inside(g) = {})
      BY <2>1, Counting
    <2>3. gates[g].refs = Cardinality(Inside(g)) + 1
      BY <1>5 DEF IInv, RefsBalance
    <2>4. Less(gates[g].refs) = Cardinality(Inside(g))
      BY <2>2, <2>3 DEF Less
    <2> QED
      BY <1>4, <2>2, <2>4
  <1>7. \/ table' = table
        \/ /\ table' = [table EXCEPT ![k] = None] /\ Inside(g) = {}
           /\ \A u \in Turns : turns[u].gate = g => ~ Sending(u)
    BY <1>2, <1>6 DEF Cleanup, Discarded, Locked
  <1>8. \A l \in Sessions \ {k} : table'[l] = table[l]
    BY <1>T, <1>7
  <1>9. KeptHave' /\ OwnGates'
    <2>1. KeptHave'
      BY <1>0, <1>8, <1>T DEF IInv, KeptHave
    <2>2. OwnGates'
      BY <1>T, <1>7 DEF IInv, OwnGates
    <2> QED
      BY <2>1, <2>2
  <1>10. Retained(g)' = 0 /\ \A h \in Gates \ {g} : Retained(h)' = Retained(h)
    <2>1. Retained(g)' = 0
      BY <1>0, <1>5, <1>8, <1>T DEF Retained
    <2>2. \A l \in kept' : l \in kept /\ table'[l] = table[l]
      BY <1>0, <1>8, <1>T
    <2>3. ASSUME NEW h \in Gates \ {g} PROVE Retained(h)' = Retained(h)
      BY <1>0, <2>2 DEF Retained
    <2> QED
      BY <2>1, <2>3
  <1>11. RefsBalance'
    <2>1. gates'[g].refs = Cardinality(Inside(g)') + Retained(g)'
      BY <1>3, <1>6, <1>10
    <2>2. \A h \in Gates \ {g} : gates'[h].refs = Cardinality(Inside(h)') + Retained(h)'
      BY <1>3, <1>4, <1>10 DEF IInv, RefsBalance
    <2> QED
      BY <2>1, <2>2 DEF RefsBalance
  <1>12. SlotsBalance' /\ AllBalance' /\ OneSends'
    <2>1. \A h \in Gates : gates'[h].slots = gates[h].slots
      BY <1>4
    <2>2. SlotsBalance'
      BY <1>0, <1>3, <2>1 DEF IInv, SlotsBalance
    <2>3. AllBalance' /\ OneSends'
      BY <1>0 DEF IInv, AllBalance, AllHolders, HasGlobal, OneSends, Sending
    <2> QED
      BY <2>2, <2>3
  <1>13. AtHome'
    <2>1. ASSUME NEW u \in Turns, (turns[u].stage # "out") \/ Sending(u)
          PROVE  table'[turns[u].key] = turns[u].gate
      <3>1. turns[u].key \in Sessions /\ table[turns[u].key] = turns[u].gate
        BY <1>T, <2>1, Present, Full DEF Sending, IInv, AtHome
      <3>2. CASE table' = table
        BY <3>1, <3>2
      <3>3. CASE Inside(g) = {} /\ \A x \in Turns : turns[x].gate = g => ~ Sending(x)
        <4>1. turns[u].gate # g
          BY <2>1, <3>3 DEF Inside
        <4> QED
          BY <1>8, <3>1, <4>1
      <3> QED
        BY <1>7, <3>2, <3>3
    <2> QED
      BY <1>0, <2>1 DEF AtHome, Sending
  <1> QED
    BY <1>9, <1>11, <1>12, <1>13 DEF IInv
-----------------------------------------------------------------------------
(* The theorems                                                             *)

LEMMA InitHolds == Init => IInv
  <1> SUFFICES ASSUME Init PROVE IInv
    OBVIOUS
  <1>1. TypeOK
    BY TypeInit
  <1>2. \A t \in Turns : turns[t] = Away
    BY DEF Init
  <1>3. /\ \A g \in Gates : Inside(g) = {} /\ Holders(g) = {} /\ Retained(g) = 0
        /\ AllHolders = {}
    BY <1>2 DEF Init, Inside, Holders, Retained, AllHolders, HasGlobal, Away
  <1>4. Cardinality({}) = 0 /\ scene.session_limit \in Nat /\ scene.global_limit \in Nat
    BY <1>1, FS_EmptySet, Limits
  <1>5. RefsBalance /\ SlotsBalance
    <2>1. \A g \in Gates : gates[g].refs = 0 /\ gates[g].slots = scene.session_limit
      BY DEF Init, NewGate
    <2>2. RefsBalance
      BY <1>3, <1>4, <2>1 DEF RefsBalance
    <2>3. SlotsBalance
      BY <1>3, <1>4, <2>1 DEF SlotsBalance
    <2> QED
      BY <2>2, <2>3
  <1>6. AllBalance
    BY <1>3, <1>4 DEF Init, AllBalance
  <1>7. AtHome /\ OneSends
    BY <1>2 DEF AtHome, OneSends, Sending, Away
  <1>8. OwnGates /\ KeptHave
    BY DEF Init, OwnGates, KeptHave
  <1> QED
    BY <1>1, <1>5, <1>6, <1>7, <1>8 DEF IInv

LEMMA StepHolds == IInv /\ [Next]_vars => IInv'
  <1> SUFFICES ASSUME IInv, [Next]_vars PROVE IInv'
    OBVIOUS
  <1>T. TypeOK'
    BY TypeStep DEF IInv
  <1>1. ASSUME NEW k \in Sessions, RetainEntry(k) \/ ReleaseEntry(k) PROVE IInv'
    BY <1>1, <1>T, RetainEntryKeeps, ReleaseEntryKeeps
  <1>2. ASSUME NEW t \in Turns, NEW call \in scene.calls[t], Enter(t, call) PROVE IInv'
    BY <1>2, <1>T, EnterKeeps
  <1>3. ASSUME NEW t \in Turns, AskIdle(t) \/ TakeIdle(t) PROVE IInv'
    BY <1>3, <1>T, IdleKeeps
  <1>4. ASSUME NEW t \in Turns, AskSession(t) \/ TakeSession(t) PROVE IInv'
    BY <1>4, <1>T, AskSessionKeeps, TakeSessionKeeps
  <1>5. ASSUME NEW t \in Turns, AskGlobal(t) \/ TakeGlobal(t) PROVE IInv'
    BY <1>5, <1>T, AskGlobalKeeps, TakeGlobalKeeps
  <1>6. ASSUME NEW t \in Turns, GiveUp(t) \/ Leave(t) PROVE IInv'
    <2>1. turns[t].stage # "out" /\ Departs(t)
      BY <1>6 DEF GiveUp, Leave
    <2> QED
      BY <1>T, <2>1, DepartsKeeps
  <1>7. ASSUME NEW t \in Turns, Commit(t) \/ ReleaseCommit(t) \/ EndReply(t) PROVE IInv'
    <2>1. CASE Commit(t)
      <3>1. CASE Current(t)
        BY <1>T, <2>1, <3>1, ReplyKeeps DEF Commit
      <3>2. CASE ~ Current(t)
        BY <1>T, <2>1, <3>2, ReplyKeeps DEF Commit
      <3> QED
        BY <3>1, <3>2
    <2>2. CASE ReleaseCommit(t)
      BY <1>T, <2>2, ReplyKeeps DEF ReleaseCommit
    <2>3. CASE EndReply(t)
      BY <1>T, <2>3, ReplyKeeps DEF EndReply
    <2> QED
      BY <1>7, <2>1, <2>2, <2>3
  <1>8. ASSUME NEW t \in Turns, PokeBack(t) \/ EndPoke(t) PROVE IInv'
    BY <1>8, <1>T, BackKeeps DEF PokeBack, EndPoke
  <1>9. ASSUME UNCHANGED vars PROVE IInv'
    BY <1>9, <1>T DEF vars, IInv, RefsBalance, SlotsBalance, AllBalance, AtHome, OwnGates, KeptHave,
                      OneSends, Inside, Holders, AllHolders, Retained, HasSession, HasGlobal, Sending
  <1> QED
    BY <1>1, <1>2, <1>3, <1>4, <1>5, <1>6, <1>7, <1>8, <1>9 DEF Next

THEOREM Inductive == Spec => []IInv
  <1>1. Init => IInv
    BY InitHolds
  <1>2. IInv /\ [Next]_vars => IInv'
    BY StepHolds
  <1> QED
    BY <1>1, <1>2, PTL DEF Spec

\* Every variable but the line of those who wait always has its type.
THEOREM TypeCorrect == Spec => []TypeOK
  <1>1. IInv => TypeOK
    BY DEF IInv
  <1> QED
    BY <1>1, Inductive, PTL

\* However turns come, time out and are cancelled, no more of them run at once
\* than configured, in a session and in all: whoever runs holds a slot of the one
\* gate of its session.
THEOREM LimitsAlwaysHold == Spec => []LimitsHold
  <1>1. IInv => LimitsHold
    <2> SUFFICES ASSUME IInv PROVE LimitsHold
      OBVIOUS
    <2>T. TypeOK
      BY DEF IInv
    <2>1. scene.session_limit \in Nat /\ scene.global_limit \in Nat
      BY <2>T, Limits
    <2>2. \A S, T \in SUBSET Turns : S \subseteq T => Cardinality(S) <= Cardinality(T)
      BY ConstantsAssumption, FS_Subset
    <2>3. ASSUME NEW k \in Sessions PROVE Cardinality(ActiveOf(k)) <= scene.session_limit
      <3>1. CASE ActiveOf(k) = {}
        BY <2>1, <3>1, FS_EmptySet
      <3>2. CASE ActiveOf(k) # {}
        <4>1. \A t \in ActiveOf(k) : /\ t \in Inside(table[k]) /\ HasSession(t)
                                     /\ turns[t].gate \in Gates /\ table[k] = turns[t].gate
          BY <2>T, Present, Full DEF ActiveOf, Current, IInv, AtHome, Inside, HasSession
        <4>2. table[k] \in Gates /\ ActiveOf(k) \subseteq Holders(table[k])
          BY <3>2, <4>1 DEF Holders
        <4>3. Cardinality(ActiveOf(k)) <= Cardinality(Holders(table[k]))
          BY <2>2, <4>2 DEF ActiveOf, Holders, Inside
        <4>4. /\ gates[table[k]].slots \in Nat
              /\ gates[table[k]].slots + Cardinality(Holders(table[k])) = scene.session_limit
          BY <2>T, <4>2, GateTyped DEF TypeOK, IInv, SlotsBalance
        <4>5. Cardinality(ActiveOf(k)) \in Nat /\ Cardinality(Holders(table[k])) \in Nat
          BY Counting DEF ActiveOf, Holders, Inside
        <4> QED
          BY <2>1, <4>3, <4>4, <4>5
      <3> QED
        BY <3>1, <3>2
    <2>4. Cardinality({t \in Turns : Current(t)}) <= scene.global_limit
      <3>1. {t \in Turns : Current(t)} \subseteq AllHolders
        BY DEF AllHolders, Current, HasGlobal
      <3>2. Cardinality({t \in Turns : Current(t)}) <= Cardinality(AllHolders)
        BY <2>2, <3>1 DEF AllHolders
      <3>3. slots \in Nat /\ slots + Cardinality(AllHolders) = scene.global_limit
        BY <2>T DEF TypeOK, IInv, AllBalance
      <3>4. Cardinality({t \in Turns : Current(t)}) \in Nat /\ Cardinality(AllHolders) \in Nat
        BY Counting DEF AllHolders
      <3> QED
        BY <2>1, <3>2, <3>3, <3>4
    <2> QED
      BY <2>3, <2>4 DEF LimitsHold
  <1> QED
    BY <1>1, Inductive, PTL

\* No two replies of a session are sent at once, an orphaned child's included:
\* its gate is not discarded while it holds the lock.
THEOREM RepliesGoAlone == Spec => []RepliesAlone
  <1>1. IInv => RepliesAlone
    BY DEF IInv, AtHome, OneSends, RepliesAlone
  <1> QED
    BY <1>1, Inductive, PTL
=============================================================================
