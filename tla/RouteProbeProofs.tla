-------------------------- MODULE RouteProbeProofs --------------------------
(***************************************************************************)
(* Proofs about RouteProbe, for any processes and keys, any number of      *)
(* operations and crashes, any lease, patience and clock bound.            *)
(***************************************************************************)
EXTENDS RouteProbe, TLAPS, FiniteSetTheorems

Statuses == Active \cup Terminal

LEMMA Distinct ==
    /\ NoOp \notin Op
    /\ Nobody \notin Runs /\ Ghost \notin Runs /\ Nobody # Ghost
    /\ \A row \in Op \cup {NoOp} : row.status # "none" <=> row \in Op
BY DEF NoOp, Op, Active, Terminal, Results, Nobody, Ghost, Runs, Ops

\* What the store's updates make of a row.
LEMMA UpdatedRow ==
    ASSUME NEW row \in Op \cup {NoOp}, NEW result \in Results \cup {"inconclusive"}
    PROVE  /\ row = NoOp => Finished(row, result) = NoOp /\ CancelledOp(row) = NoOp
           /\ row \in Op =>
                /\ Finished(row, result) \in Op /\ CancelledOp(row) \in Op
                /\ Finished(row, result).key = row.key
                /\ Finished(row, result).source = row.source
                /\ CancelledOp(row).key = row.key /\ CancelledOp(row).source = row.source
                /\ Finished(row, result).status =
                     IF row.status \notin Active THEN row.status
                     ELSE IF row.status = "cancel_requested" THEN "cancelled" ELSE result
                /\ CancelledOp(row).status =
                     IF row.status \notin Active THEN row.status ELSE "cancelled"
           /\ row.status \notin Active => Finished(row, result) = row /\ CancelledOp(row) = row
BY DEF Finished, CancelledOp, Op, NoOp, Active, Terminal, Results

\* One row across a step: its key and source stay, what is over stays as it is, a
\* request to cancel has one of two ends, and nothing is queued again.
Moves(old, new) ==
    /\ new \in Op \cup {NoOp}
    /\ old \in Op => new \in Op /\ new.key = old.key /\ new.source = old.source
    /\ old.status \in Terminal => new = old
    /\ old.status = "cancel_requested" =>
           new.status \in {"cancel_requested", "cancelled", "interrupted"}
    /\ new.status = "queued" => old.status \in {"none", "queued"}

LEMMA MovesReflexive ==
    ASSUME NEW row \in Op \cup {NoOp} PROVE Moves(row, row)
BY DEF Moves, Op, NoOp

LEMMA MovesUpdated ==
    ASSUME NEW row \in Op \cup {NoOp}, NEW result \in Results \cup {"inconclusive"}
    PROVE  Moves(row, Finished(row, result)) /\ Moves(row, CancelledOp(row))
BY UpdatedRow DEF Moves, Op, NoOp, Active, Terminal, Results

\* An active row may be marked interrupted or cancel_requested, and a queued one running.
LEMMA MovesMarked ==
    ASSUME NEW row \in Op
    PROVE  /\ row.status \in Active =>
                /\ Moves(row, [row EXCEPT !.status = "interrupted"])
                /\ Moves(row, [row EXCEPT !.status = "cancel_requested"])
           /\ row.status = "queued" => Moves(row, [row EXCEPT !.status = "running"])
BY DEF Moves, Op, Active, Terminal, Results, NoOp

LEMMA CreatedRow ==
    ASSUME TypeOK, NEW k \in Keys, NEW source \in Sources, NEW o \in Created(k, source)
    PROVE  /\ o \in Ops
           /\ Stored(o, k, source) \in Op
           /\ ops[o] \in Op => Stored(o, k, source) = ops[o]
           /\ ops[o] = NoOp => /\ Stored(o, k, source).status = "queued"
                               /\ Stored(o, k, source).key = k
                               /\ Joined(k) = {}
  <1>1. o \in Ops
    BY DEF Created, Daily, Joined, Unused
  <1>2. ops[o] \in Op \cup {NoOp}
    BY <1>1 DEF TypeOK
  <1>3. ops[o] = NoOp => Joined(k) = {}
    BY <1>1, Distinct DEF Created, Daily, Joined, Joinable, IsActive, NoOp, Active
  <1> QED
    BY <1>1, <1>2, <1>3, Distinct DEF Stored, Op, NoOp, Active, Sources

\* The store across any step.
LEMMA OpsMove ==
    ASSUME TypeOK, Next
    PROVE  /\ ops' \in [Ops -> Op \cup {NoOp}]
           /\ \A o \in Ops : Moves(ops[o], ops'[o])
  <1> USE DEF TypeOK
  <1>0. /\ \A o \in Ops : ops[o] \in Op \cup {NoOp} /\ Moves(ops[o], ops[o])
        /\ "inconclusive" \in Results /\ ops \in [Ops -> Op \cup {NoOp}]
    BY MovesReflexive DEF Results
  <1>1. ASSUME NEW o \in Ops, NEW row, ops' = [ops EXCEPT ![o] = row], Moves(ops[o], row)
        PROVE  /\ ops' \in [Ops -> Op \cup {NoOp}]
               /\ \A i \in Ops : Moves(ops[i], ops'[i])
    BY <1>0, <1>1 DEF Moves
  <1>2. CASE UNCHANGED ops
    BY <1>0, <1>2
  <1>3. ASSUME NEW run \in Runs, Work(run) \/ Heartbeat(run)
        PROVE  /\ ops' \in [Ops -> Op \cup {NoOp}]
               /\ \A i \in Ops : Moves(ops[i], ops'[i])
    <2>0. run[2] \in Ops
      BY DEF Runs
    <2>1. CASE TakeLock(run) \/ BeginMoot(run) \/ Heartbeat(run)
      BY <2>1, <1>2 DEF TakeLock, BeginMoot, Heartbeat, store
    <2>2. CASE Begin(run)
      <3>1. Moves(ops[run[2]], [ops[run[2]] EXCEPT !.status = "running"])
        BY <2>0, <2>2, <1>0, Distinct, MovesMarked DEF Begin, Begins, NoOp
      <3> QED
        BY <3>1, <2>0, <2>2, <1>1 DEF Begin
    <2>3. CASE NoLease(run)
      <3>1. Moves(ops[run[2]], Finished(ops[run[2]], "inconclusive"))
        BY <2>0, <1>0, MovesUpdated
      <3>2. ops' = [ops EXCEPT ![run[2]] = Finished(ops[run[2]], "inconclusive")]
        BY <2>3 DEF NoLease
      <3> QED
        BY <3>1, <3>2, <2>0, <1>1
    <2>4. ASSUME NEW result \in Results, Answer(run, result)
          PROVE  /\ ops' \in [Ops -> Op \cup {NoOp}]
                 /\ \A i \in Ops : Moves(ops[i], ops'[i])
      <3>1. Moves(ops[run[2]], Finished(ops[run[2]], result))
        BY <2>0, <1>0, MovesUpdated
      <3>2. ops' = [ops EXCEPT ![run[2]] = Finished(ops[run[2]], result)]
        BY <2>4 DEF Answer
      <3> QED
        BY <3>1, <3>2, <2>0, <1>1
    <2>5. CASE HeartbeatStops(run)
      <3>1. Moves(ops[run[2]], CancelledOp(ops[run[2]]))
        BY <2>0, <1>0, MovesUpdated
      <3>2. ops' = [ops EXCEPT ![run[2]] = CancelledOp(ops[run[2]])]
        BY <2>5 DEF HeartbeatStops
      <3> QED
        BY <3>1, <3>2, <2>0, <1>1
    <2> QED
      BY <1>3, <2>1, <2>2, <2>3, <2>4, <2>5 DEF Work
  <1>4. ASSUME NEW p \in Procs, NEW k \in Keys, NEW source \in Sources,
               Queue(p, k, source) \/ QueueClosed(p, k, source)
        PROVE  /\ ops' \in [Ops -> Op \cup {NoOp}]
               /\ \A i \in Ops : Moves(ops[i], ops'[i])
    <2> DEFINE row(o) == Stored(o, k, source)
    <2>1. ASSUME NEW o \in Created(k, source)
          PROVE  /\ o \in Ops /\ Moves(ops[o], row(o))
                 /\ row(o).status = "queued" => Moves(ops[o], CancelledOp(row(o)))
      <3>1. o \in Ops /\ row(o) \in Op /\ (row(o) = ops[o] \/ ops[o] = NoOp)
        BY <2>1, <1>0, CreatedRow
      <3>2. Moves(ops[o], row(o)) /\ Moves(row(o), CancelledOp(row(o)))
        BY <3>1, <1>0, MovesUpdated, Distinct DEF Moves, NoOp, Terminal, Results
      <3>3. ops[o] = NoOp => Moves(ops[o], CancelledOp(row(o)))
        BY <3>1, <3>2, UpdatedRow, Distinct
        DEF Moves, NoOp, Terminal, Results, Active, CancelledOp, Op
      <3> QED
        BY <3>1, <3>2, <3>3
    <2>2. CASE Queue(p, k, source)
      <3> HIDE DEF row
      <3>1. PICK o \in Created(k, source) : ops' = [ops EXCEPT ![o] = row(o)]
        BY <2>2 DEF Queue, row
      <3> QED
        BY <3>1, <2>1, <1>1
    <2>3. CASE QueueClosed(p, k, source)
      <3> HIDE DEF row
      <3>1. PICK o \in Created(k, source) : ops' = [ops EXCEPT ![o] =
                    IF row(o).status = "queued" THEN CancelledOp(row(o)) ELSE row(o)]
        BY <2>3 DEF QueueClosed, row
      <3> QED
        BY <3>1, <2>1, <1>1
    <2> QED
      BY <1>4, <2>2, <2>3
  <1>5. ASSUME NEW p \in Procs, NEW o \in Ops, Cancel(p, o)
        PROVE  /\ ops' \in [Ops -> Op \cup {NoOp}]
               /\ \A i \in Ops : Moves(ops[i], ops'[i])
    <2>1. ops[o] \in Op /\ ops[o].status \in Active
      BY <1>5, <1>0, Distinct DEF Cancel, IsActive, NoOp, Active
    <2>2. /\ Moves(ops[o], CancelledOp(ops[o]))
          /\ Moves(ops[o], [ops[o] EXCEPT !.status = "cancel_requested"])
      BY <2>1, <1>0, MovesUpdated, MovesMarked
    <2> QED
      BY <2>2, <1>1, <1>5 DEF Cancel
  <1>6. ASSUME NEW p \in Procs, Shutdown(p) \/ Start(p)
        PROVE  /\ ops' \in [Ops -> Op \cup {NoOp}]
               /\ \A i \in Ops : Moves(ops[i], ops'[i])
    <2>1. \A o \in Ops : Moves(ops[o], CancelledOp(ops[o]))
      BY <1>0, MovesUpdated
    <2>2. \A o \in Ops : IsActive(o) => Moves(ops[o], [ops[o] EXCEPT !.status = "interrupted"])
      BY <1>0, MovesMarked, Distinct DEF IsActive, NoOp, Active
    <2>3. \A o \in Ops : ops[o] \in Op \cup {NoOp} /\ Moves(ops[o], ops[o])
      BY <1>0
    <2>4. CASE Shutdown(p)
      <3> DEFINE row(o) == IF tasks[<<p, o>>].pc # "none" THEN CancelledOp(ops[o]) ELSE ops[o]
      <3>1. ops' = [o \in Ops |-> row(o)]
        BY <2>4 DEF Shutdown
      <3>2. \A o \in Ops : Moves(ops[o], row(o))
        BY <2>1, <2>3
      <3> HIDE DEF row
      <3> QED
        BY <3>1, <3>2 DEF Moves
    <2>5. CASE Start(p)
      <3> DEFINE row(o) == IF IsActive(o) THEN [ops[o] EXCEPT !.status = "interrupted"]
                           ELSE ops[o]
      <3>1. ops' = ops \/ ops' = [o \in Ops |-> row(o)]
        BY <2>5 DEF Start
      <3>2. \A o \in Ops : Moves(ops[o], row(o))
        BY <2>2, <2>3
      <3> HIDE DEF row
      <3> QED
        BY <3>1, <3>2, <1>2 DEF Moves
    <2> QED
      BY <1>6, <2>4, <2>5
  <1>7. CASE \E p \in Procs : Crash(p)
    BY <1>2, <1>7 DEF Crash
  <1>8. CASE Tick
    BY <1>2, <1>8 DEF Tick, store
  <1> QED
    BY <1>3, <1>4, <1>5, <1>6, <1>7, <1>8 DEF Next
-----------------------------------------------------------------------------
(* Types                                                                    *)

LEMMA InitType == Init => TypeOK
  BY ProbeConstants
  DEF Init, TypeOK, Times, Ops, Task, NoTask, Runs, Nobody

LEMMA LeaseTyped ==
    ASSUME TypeOK
    PROVE  /\ \A run \in Runs :
                /\ Released(run) \in [holder : Runs \cup {Nobody, Ghost},
                                     expires : 0 .. MaxTime + LeaseTime]
                /\ [holder |-> run, expires |-> clock + LeaseTime]
                     \in [holder : Runs \cup {Nobody, Ghost}, expires : 0 .. MaxTime + LeaseTime]
                /\ [tasks EXCEPT ![run] = NoTask] \in [Runs -> Task]
           /\ [lease EXCEPT !.holder = Nobody] \in [holder : Runs \cup {Nobody, Ghost},
                                                    expires : 0 .. MaxTime + LeaseTime]
           /\ [lease EXCEPT !.holder = Ghost] \in [holder : Runs \cup {Nobody, Ghost},
                                                   expires : 0 .. MaxTime + LeaseTime]
           /\ [lease EXCEPT !.expires = clock + LeaseTime]
                \in [holder : Runs \cup {Nobody, Ghost}, expires : 0 .. MaxTime + LeaseTime]
           /\ [holder |-> Nobody, expires |-> 0]
                \in [holder : Runs \cup {Nobody, Ghost}, expires : 0 .. MaxTime + LeaseTime]
  BY ProbeConstants DEF TypeOK, Released, Task, NoTask, Times

LEMMA NextType ==
    ASSUME TypeOK, [Next]_vars
    PROVE  TypeOK'
  <1> USE DEF TypeOK
  <1>0. CASE UNCHANGED vars
    BY <1>0 DEF vars, store
  <1>1. ASSUME Next PROVE ops' \in [Ops -> Op \cup {NoOp}]
    BY <1>1, OpsMove
  <1>2. ASSUME NEW run \in Runs, Work(run) \/ Heartbeat(run) PROVE TypeOK'
    <2>0. ops' \in [Ops -> Op \cup {NoOp}] /\ run[2] \in Ops
      BY <1>1, <1>2 DEF Next, Runs
    <2>1. CASE TakeLock(run)
      BY <2>0, <2>1 DEF TakeLock, store, Task
    <2>2. CASE Begin(run)
      BY <2>0, <2>2, LeaseTyped, ProbeConstants DEF Begin, Task, Times
    <2>3. CASE BeginMoot(run)
      BY <2>0, <2>3, LeaseTyped DEF BeginMoot, EndTask
    <2>4. CASE NoLease(run)
      BY <2>0, <2>4, LeaseTyped DEF NoLease, EndTask
    <2>5. ASSUME NEW result \in Results, Answer(run, result) PROVE TypeOK'
      <3>1. Proves(ops[run[2]], result) => ops[run[2]].key \in Keys
        BY <2>0, Distinct DEF Proves, Op, NoOp, Active
      <3>2. facts' \in [Keys -> Ops \cup {0}] /\ verified' \subseteq Ops
        BY <2>0, <2>5, <3>1 DEF Answer
      <3> QED
        BY <2>0, <2>5, <3>2, LeaseTyped DEF Answer, EndTask
    <2>6. CASE HeartbeatStops(run)
      BY <2>0, <2>6, LeaseTyped DEF HeartbeatStops, EndTask
    <2>7. CASE Heartbeat(run)
      BY <2>0, <2>7, LeaseTyped DEF Heartbeat
    <2> QED
      BY <1>2, <2>1, <2>2, <2>3, <2>4, <2>5, <2>6, <2>7 DEF Work
  <1>3. ASSUME NEW p \in Procs, NEW k \in Keys, NEW source \in Sources,
               Queue(p, k, source) \/ QueueClosed(p, k, source)
        PROVE  TypeOK'
    <2>0. ops' \in [Ops -> Op \cup {NoOp}]
      BY <1>1, <1>3 DEF Next
    <2>1. CASE Queue(p, k, source)
      <3>1. PICK o \in Created(k, source) :
                tasks' = tasks \/ tasks' = [tasks EXCEPT ![<<p, o>>].pc = "waiting"]
        BY <2>1 DEF Queue
      <3>2. tasks' \in [Runs -> Task]
        <4>1. <<p, o>> \in Runs
          BY CreatedRow DEF Runs
        <4>2. tasks[<<p, o>>] \in Task
          BY <4>1
        <4>3. [tasks[<<p, o>>] EXCEPT !.pc = "waiting"] \in Task
          BY <4>2 DEF Task
        <4> HIDE DEF TypeOK
        <4>4. tasks \in [Runs -> Task]
          BY DEF TypeOK
        <4> QED
          BY <3>1, <4>1, <4>3, <4>4
      <3> QED
        BY <2>0, <2>1, <3>2 DEF Queue
    <2>2. CASE QueueClosed(p, k, source)
      BY <2>0, <2>2 DEF QueueClosed
    <2> QED
      BY <1>3, <2>1, <2>2
  <1>4. ASSUME NEW p \in Procs, NEW o \in Ops, Cancel(p, o) PROVE TypeOK'
    <2>1. ops' \in [Ops -> Op \cup {NoOp}] /\ <<p, o>> \in Runs
      BY <1>1, <1>4 DEF Next, Runs
    <2> QED
      BY <2>1, <1>4, LeaseTyped DEF Cancel, EndTask
  <1>5. ASSUME NEW p \in Procs, Shutdown(p) \/ Crash(p) \/ Start(p) PROVE TypeOK'
    <2>1. ops' \in [Ops -> Op \cup {NoOp}]
      BY <1>1, <1>5 DEF Next
    <2>2. [run \in Runs |-> IF run[1] = p THEN NoTask ELSE tasks[run]] \in [Runs -> Task]
      BY ProbeConstants DEF NoTask, Task, Times
    <2>3. CASE Shutdown(p)
      BY <2>1, <2>2, <2>3, LeaseTyped DEF Shutdown
    <2>4. CASE Crash(p)
      BY <2>1, <2>2, <2>4, LeaseTyped, ProbeConstants DEF Crash
    <2>5. CASE Start(p)
      BY <2>1, <2>5 DEF Start
    <2> QED
      BY <1>5, <2>3, <2>4, <2>5
  <1>6. CASE Tick
    BY <1>6, ProbeConstants DEF Tick, store, Times
  <1> QED
    BY <1>0, <1>2, <1>3, <1>4, <1>5, <1>6 DEF Next

(* The store, the lease, the processes and their tasks are always well      *)
(* typed: no error code or answer of a provider becomes a status.           *)
THEOREM TypeCorrect == Spec => []TypeOK
  BY InitType, NextType, PTL DEF Spec
-----------------------------------------------------------------------------
(* What is over stays as it is and a request to cancel is never answered by *)
(* a result, whichever process stores it (finish, cancel, recover).         *)
THEOREM StatusesOnPath == Spec => StatusPath
  <1> DEFINE Path == \A o \in Ops :
                        /\ ops[o].status \in Terminal => ops'[o] = ops[o]
                        /\ ops[o].status = "cancel_requested" =>
                             ops'[o].status \in {"cancel_requested", "cancelled", "interrupted"}
  <1>1. TypeOK /\ Next => Path
    BY OpsMove DEF Moves
  <1>2. TypeOK /\ [Next]_vars => [Path]_vars
    BY <1>1
  <1>3. Spec => [][Path]_vars
    BY <1>2, TypeCorrect, PTL DEF Spec
  <1> QED
    BY <1>3 DEF StatusPath
-----------------------------------------------------------------------------
(* One call for each operation: what is queued has not been called.         *)
CallInv ==
    \A o \in Ops :
        /\ calls[o] <= 1
        /\ ops[o].status \in {"none", "queued"} => calls[o] = 0

LEMMA CallsKept ==
    ASSUME TypeOK, CallInv, [Next]_vars
    PROVE  CallInv'
  <1> USE DEF TypeOK
  <1>1. CASE UNCHANGED vars
    BY <1>1 DEF CallInv, vars, store
  <1>2. CASE Next /\ UNCHANGED calls
    <2>1. \A o \in Ops : Moves(ops[o], ops'[o])
      BY <1>2, OpsMove
    <2>2. \A o \in Ops : ops'[o].status \in {"none", "queued"} =>
                           ops[o].status \in {"none", "queued"}
      BY <2>1, Distinct DEF Moves, NoOp
    <2> QED
      BY <1>2, <2>2 DEF CallInv
  <1>3. CASE \E run \in Runs : Begin(run)
    BY <1>3 DEF Begin, Begins, CallInv, Runs, Op, NoOp
  <1> QED
    BY <1>1, <1>2, <1>3 DEF Next, Work, Tick, TakeLock, BeginMoot, NoLease, Answer, Heartbeat,
       HeartbeatStops, Queue, QueueClosed, Cancel, Shutdown, Crash, Start

(* The provider is called at most once for an operation, however many       *)
(* processes have a task for it.                                            *)
THEOREM ProviderCalledOnce == Spec => []CalledOnce
  <1>1. Init => CallInv
    BY DEF Init, CallInv
  <1>2. CallInv => CalledOnce
    BY DEF CallInv, CalledOnce
  <1> QED
    BY <1>1, <1>2, TypeCorrect, CallsKept, PTL DEF Spec
-----------------------------------------------------------------------------
LEMMA JoinsKept ==
    ASSUME TypeOK, JoinsActive, [Next]_vars
    PROVE  JoinsActive'
  <1> USE DEF TypeOK
  <1> DEFINE NewOnly(n) == \A o \in Ops \ {n} : IsActive(o)' => IsActive(o)
  <1>1. CASE UNCHANGED vars
    BY <1>1 DEF JoinsActive, IsActive, vars, store
  <1>2. ASSUME Next, \A o \in Ops : IsActive(o)' => IsActive(o)
        PROVE  JoinsActive'
    <2>1. \A o \in Ops : IsActive(o) => ops'[o].key = ops[o].key
      BY <1>2, OpsMove, Distinct DEF Moves, IsActive, NoOp, Active
    <2> QED
      BY <1>2, <2>1 DEF JoinsActive
  <1>3. ASSUME NEW p \in Procs, NEW k \in Keys, NEW source \in Sources, Queue(p, k, source)
        PROVE  JoinsActive'
    <2>1. PICK o \in Created(k, source) : ops' = [ops EXCEPT ![o] = Stored(o, k, source)]
      BY <1>3 DEF Queue
    <2>2. CASE ops[o] \in Op
      BY <2>1, <2>2, <1>2, <1>3, CreatedRow DEF Next, IsActive
    <2>3. CASE ops[o] = NoOp
      BY <2>1, <2>3, CreatedRow DEF JoinsActive, IsActive, Joined, Joinable
    <2> QED
      BY <2>1, <2>2, <2>3, CreatedRow
  <1>4. ASSUME NEW p \in Procs, NEW k \in Keys, NEW source \in Sources,
               QueueClosed(p, k, source)
        PROVE  JoinsActive'
    <2> DEFINE row(o) == Stored(o, k, source)
    <2>1. PICK o \in Created(k, source) : ops' = [ops EXCEPT ![o] =
                    IF row(o).status = "queued" THEN CancelledOp(row(o)) ELSE row(o)]
      BY <1>4 DEF QueueClosed
    <2>2. o \in Ops /\ row(o) \in Op /\ (ops[o] \in Op => row(o) = ops[o])
          /\ (ops[o] = NoOp => row(o).status = "queued")
      BY <2>1, CreatedRow
    <2>3. row(o).status = "queued" => CancelledOp(row(o)).status \notin Active
      BY <2>2, UpdatedRow DEF Active, Results
    <2> HIDE DEF row
    <2>4. \A i \in Ops : IsActive(i)' => IsActive(i)
      BY <2>1, <2>2, <2>3 DEF IsActive
    <2> QED
      BY <2>4, <1>2, <1>4 DEF Next
  <1>5. ASSUME NEW run \in Runs, Work(run) \/ Heartbeat(run)
        PROVE  JoinsActive'
    <2>1. Next /\ run[2] \in Ops
      BY <1>5 DEF Next, Runs
    <2>2. \A row \in Op \cup {NoOp} : \A result \in Results :
              /\ Finished(row, result).status \in Active => row.status \in Active
              /\ CancelledOp(row).status \in Active => row.status \in Active
      BY UpdatedRow DEF Active, NoOp
    <2>3. "inconclusive" \in Results
      BY DEF Results
    <2>4. \A o \in Ops : IsActive(o)' => IsActive(o)
      <3>1. CASE UNCHANGED ops
        BY <3>1 DEF IsActive
      <3>2. CASE Begin(run)
        BY <3>2, <2>1 DEF Begin, Begins, IsActive, Active
      <3>3. CASE NoLease(run) \/ HeartbeatStops(run)
        <4> DEFINE row == ops[run[2]]
        <4>1. /\ Finished(row, "inconclusive").status \in Active => row.status \in Active
              /\ CancelledOp(row).status \in Active => row.status \in Active
          BY <2>1, <2>2, <2>3
        <4>2. \/ ops' = [ops EXCEPT ![run[2]] = Finished(row, "inconclusive")]
              \/ ops' = [ops EXCEPT ![run[2]] = CancelledOp(row)]
          BY <3>3 DEF NoLease, HeartbeatStops
        <4> QED
          BY <4>1, <4>2, <2>1 DEF IsActive
      <3>4. CASE \E result \in Results : Answer(run, result)
        <4> PICK result \in Results : Answer(run, result)
          BY <3>4
        <4>1. ops' = [ops EXCEPT ![run[2]] = Finished(@, result)]
          BY DEF Answer
        <4>2. Finished(ops[run[2]], result).status \in Active => ops[run[2]].status \in Active
          BY <2>1, <2>2
        <4> QED
          BY <4>1, <4>2, <2>1 DEF IsActive
      <3> QED
        BY <1>5, <3>1, <3>2, <3>3, <3>4 DEF Work, Heartbeat, TakeLock, BeginMoot, store
    <2> QED
      BY <2>1, <2>4, <1>2
  <1>6. ASSUME NEW p \in Procs, Shutdown(p) \/ Crash(p) \/ Start(p)
                                \/ \E o \in Ops : Cancel(p, o)
        PROVE  JoinsActive'
    <2>1. \A row \in Op \cup {NoOp} : CancelledOp(row).status \in Active => row.status \in Active
      BY UpdatedRow DEF Active, NoOp, Results
    <2>2. \A o \in Ops : IsActive(o)' => IsActive(o)
      <3>1. CASE UNCHANGED ops
        BY <3>1 DEF IsActive
      <3>2. CASE Shutdown(p)
        BY <3>2, <2>1 DEF Shutdown, IsActive
      <3>3. CASE Start(p)
        BY <3>3 DEF Start, IsActive
      <3>4. ASSUME NEW o \in Ops, Cancel(p, o)
            PROVE  \A i \in Ops : IsActive(i)' => IsActive(i)
        BY <3>4 DEF Cancel, IsActive
      <3> QED
        BY <1>6, <3>1, <3>2, <3>3, <3>4 DEF Crash
    <2> QED
      BY <2>2, <1>2, <1>6 DEF Next
  <1>7. CASE Tick
    BY <1>7, <1>2 DEF Tick, store, IsActive, Next
  <1> QED
    BY <1>1, <1>3, <1>4, <1>5, <1>6, <1>7 DEF Next

(* Requests for a key join its active operation: there are never two.       *)
THEOREM RequestsJoin == Spec => []JoinsActive
  <1>1. Init => JoinsActive
    BY DEF Init, JoinsActive, IsActive, NoOp, Active
  <1> QED
    BY <1>1, TypeCorrect, JoinsKept, PTL DEF Spec
-----------------------------------------------------------------------------
(* One call at a time: who probes holds the lease, and it lives.            *)
Probing(run) == tasks[run].pc = "probing"
LeaseInv == \A run \in Runs : Probing(run) => lease.holder = run /\ lease.expires >= clock

LEMMA LeaseKept ==
    ASSUME TypeOK, LeaseInv, [Next]_vars
    PROVE  LeaseInv'
  <1> USE DEF LeaseInv, Probing
  <1>0. /\ clock \in Int /\ lease.expires \in Int /\ LeaseTime \in Nat /\ MaxTime \in Nat
        /\ tasks \in [Runs -> Task]
        /\ lease \in [holder : Runs \cup {Nobody, Ghost}, expires : 0 .. MaxTime + LeaseTime]
    BY ProbeConstants DEF TypeOK, Times
  <1>1. CASE UNCHANGED vars
    BY <1>1 DEF vars, store
  <1>2. ASSUME NEW run \in Runs, TakeLock(run) PROVE LeaseInv'
    BY <1>0, <1>2 DEF TakeLock, store
  <1>3. ASSUME NEW run \in Runs, Begin(run) \/ BeginMoot(run) PROVE LeaseInv'
    <2>1. \A r \in Runs : r # run => ~ Probing(r)
      BY <1>3, <1>0, Distinct DEF Begin, BeginMoot, LeaseFree
    <2>2. CASE Begin(run)
      BY <2>1, <2>2, <1>0 DEF Begin
    <2>3. CASE BeginMoot(run)
      BY <2>1, <2>3, <1>0 DEF BeginMoot, EndTask, NoTask
    <2> QED
      BY <1>3, <2>2, <2>3
  <1>4. ASSUME NEW run \in Runs, NoLease(run) PROVE LeaseInv'
    BY <1>4, <1>0 DEF NoLease, EndTask, NoTask
  <1>5. ASSUME NEW run \in Runs,
               HeartbeatStops(run) \/ \E result \in Results : Answer(run, result)
        PROVE  LeaseInv'
    <2>1. /\ lease' = Released(run) /\ tasks' = [tasks EXCEPT ![run] = NoTask]
          /\ clock' = clock
      BY <1>5 DEF HeartbeatStops, Answer, EndTask
    <2> QED
      BY <2>1, <1>0 DEF Released, NoTask
  <1>6. ASSUME NEW run \in Runs, Heartbeat(run) PROVE LeaseInv'
    BY <1>6, <1>0 DEF Heartbeat
  <1>7. ASSUME NEW p \in Procs, NEW k \in Keys, NEW source \in Sources,
               Queue(p, k, source) \/ QueueClosed(p, k, source)
        PROVE  LeaseInv'
    <2>1. \A run \in Runs : tasks'[run].pc = "probing" => tasks[run].pc = "probing"
      <3>1. CASE Queue(p, k, source)
        <4>1. PICK o \in Created(k, source) :
                  tasks' = tasks \/ tasks' = [tasks EXCEPT ![<<p, o>>].pc = "waiting"]
          BY <3>1 DEF Queue
        <4>2. ASSUME NEW run \in Runs, tasks'[run].pc = "probing"
              PROVE  tasks[run].pc = "probing"
          <5>1. CASE run = <<p, o>>
            BY <4>1, <4>2, <5>1, <1>0 DEF Task
          <5>2. CASE run # <<p, o>>
            BY <4>1, <4>2, <5>2, <1>0
          <5> QED
            BY <5>1, <5>2
        <4> QED
          BY <4>2
      <3>2. CASE QueueClosed(p, k, source)
        BY <3>2 DEF QueueClosed
      <3> QED
        BY <1>7, <3>1, <3>2
    <2> QED
      BY <1>7, <2>1 DEF Queue, QueueClosed
  <1>8. ASSUME NEW p \in Procs, NEW o \in Ops, Cancel(p, o) PROVE LeaseInv'
    <2>1. /\ lease' = Released(<<p, o>>) /\ tasks' = [tasks EXCEPT ![<<p, o>>] = NoTask]
          /\ clock' = clock /\ <<p, o>> \in Runs
      BY <1>8 DEF Cancel, EndTask, Runs
    <2> QED
      BY <2>1, <1>0 DEF Released, NoTask
  <1>9. ASSUME NEW p \in Procs, Shutdown(p) \/ Crash(p) PROVE LeaseInv'
    <2>1. /\ tasks' = [run \in Runs |-> IF run[1] = p THEN NoTask ELSE tasks[run]]
          /\ clock' = clock
          /\ \/ lease' = lease
             \/ /\ lease'.expires = lease.expires
                /\ \E o \in Ops : lease.holder = <<p, o>>
      BY <1>9, <1>0 DEF Shutdown, Crash
    <2>2. \A run \in Runs : Probing(run)' => Probing(run) /\ run[1] # p
      BY <2>1 DEF NoTask
    <2>3. \A run \in Runs : Probing(run)' => lease' = lease
      BY <2>1, <2>2
    <2> QED
      BY <2>1, <2>2, <2>3
  <1>10. ASSUME NEW p \in Procs, Start(p) PROVE LeaseInv'
    BY <1>10 DEF Start
  <1>11. CASE Tick
    BY <1>11, <1>0 DEF Tick, HeartbeatDue, store
  <1> QED
    BY <1>1, <1>2, <1>3, <1>4, <1>5, <1>6, <1>7, <1>8, <1>9, <1>10, <1>11 DEF Next, Work

(* At most one provider call at a time across all processes, however they   *)
(* crash, restart, renew and lose the lease.                                *)
THEOREM OneProbeAtATime == Spec => []OneProbe
  <1>1. Init => LeaseInv
    BY DEF Init, LeaseInv, Probing, NoTask
  <1>2. LeaseInv => OneProbe
    <2> SUFFICES ASSUME LeaseInv PROVE OneProbe
      OBVIOUS
    <2> DEFINE S == {run \in Runs : tasks[run].pc = "probing"}
    <2>1. S \subseteq {lease.holder}
      BY DEF LeaseInv, Probing
    <2>2. IsFiniteSet({lease.holder}) /\ Cardinality({lease.holder}) = 1
      BY FS_Singleton
    <2>3. Cardinality(S) <= 1
      BY <2>1, <2>2, FS_Subset
    <2> QED
      BY <2>3 DEF OneProbe
  <1> QED
    BY <1>1, <1>2, TypeCorrect, LeaseKept, PTL DEF Spec
-----------------------------------------------------------------------------
LEMMA FactsKept ==
    ASSUME TypeOK, FactsVerified, [Next]_vars
    PROVE  FactsVerified'
  <1>1. CASE UNCHANGED vars
    BY <1>1 DEF FactsVerified, vars, store
  <1>2. ASSUME Next, NEW k \in Keys, facts[k] # 0
        PROVE  facts[k] \in verified' /\ ops'[facts[k]].status = "succeeded"
               /\ ops'[facts[k]].key = k
    <2>1. facts[k] \in Ops /\ facts[k] \in verified /\ ops[facts[k]].status = "succeeded"
          /\ ops[facts[k]].key = k
      BY <1>2 DEF FactsVerified, TypeOK
    <2>2. ops'[facts[k]] = ops[facts[k]]
      BY <1>2, <2>1, OpsMove DEF Moves, Terminal, Results
    <2>3. verified \subseteq verified'
      BY <1>2 DEF Next, Work, Tick, TakeLock, Begin, BeginMoot, NoLease, Answer, Heartbeat,
         HeartbeatStops, Queue, QueueClosed, Cancel, Shutdown, Crash, Start
    <2> QED
      BY <2>1, <2>2, <2>3
  <1>3. CASE Next /\ UNCHANGED facts
    BY <1>2, <1>3 DEF FactsVerified
  <1>4. ASSUME NEW run \in Runs, NEW result \in Results, Answer(run, result)
        PROVE  FactsVerified'
    <2> DEFINE o == run[2]
    <2>1. o \in Ops /\ Next
      BY <1>4 DEF Runs, Next, Work
    <2>2. CASE ~ Proves(ops[o], result)
      BY <2>1, <2>2, <1>2, <1>4 DEF FactsVerified, Answer
    <2>3. CASE Proves(ops[o], result)
      <3>1. ops[o] \in Op /\ Finished(ops[o], result).status = "succeeded"
        BY <2>1, <2>3, Distinct DEF Proves, TypeOK, NoOp, Active
      <3>2. result = "succeeded" /\ Finished(ops[o], result).key = ops[o].key
        BY <3>1, <2>3, UpdatedRow DEF Proves
      <3>3. /\ facts' = [facts EXCEPT ![ops[o].key] = o] /\ verified' = verified \cup {o}
            /\ ops' = [ops EXCEPT ![o] = Finished(ops[o], result)]
        BY <1>4, <2>3, <3>2 DEF Answer
      <3>4. ops'[o].status = "succeeded" /\ ops'[o].key = ops[o].key
        BY <2>1, <3>1, <3>2, <3>3 DEF TypeOK
      <3>5. ASSUME NEW k \in Keys, facts'[k] # 0
            PROVE  facts'[k] \in verified' /\ ops'[facts'[k]].status = "succeeded"
                   /\ ops'[facts'[k]].key = k
        <4>1. CASE k = ops[o].key
          BY <4>1, <3>3, <3>4 DEF TypeOK
        <4>2. CASE k # ops[o].key
          BY <4>2, <3>3, <3>5, <1>2, <2>1 DEF TypeOK
        <4> QED
          BY <4>1, <4>2
      <3> QED
        BY <3>5 DEF FactsVerified
    <2> QED
      BY <2>2, <2>3
  <1> QED
    BY <1>1, <1>3, <1>4 DEF Next, Work, Tick, TakeLock, Begin, BeginMoot, NoLease, Heartbeat,
       HeartbeatStops, Queue, QueueClosed, Cancel, Shutdown, Crash, Start, store

(* A recorded fact is the verified answer of an operation that succeeded    *)
(* and was not cancelled while the provider was asked.                      *)
THEOREM FactsAreVerified == Spec => []FactsVerified
  <1>1. Init => FactsVerified
    BY DEF Init, FactsVerified
  <1> QED
    BY <1>1, TypeCorrect, FactsKept, PTL DEF Spec
=============================================================================
