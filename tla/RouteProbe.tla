----------------------------- MODULE RouteProbe -----------------------------
(***************************************************************************)
(* Capability probes of model routes, core/route_probe_service.py: a store *)
(* of operations shared by every process of a data directory, and one      *)
(* service per process.                                                    *)
(*                                                                         *)
(* A process queues a probe of a key (a route and a capability), which     *)
(* joins an active one or starts a task.  A task waits for the run lock of *)
(* its process, then for the global lease, and calls the provider under a  *)
(* heartbeat that renews the lease.  An action is a stretch of code        *)
(* between two awaits; processes interleave, crash, shut down and start    *)
(* again.  A heartbeat is never late by a whole lease (a tick of the clock *)
(* waits for it): a process whose event loop stalls that long is not       *)
(* modelled.                                                               *)
(*                                                                         *)
(* Abstracted: one probe version and one day; results are succeeded,       *)
(* failed or inconclusive; rows finished months ago are not pruned; a      *)
(* cancelled task ends at once.                                            *)
(***************************************************************************)
EXTENDS Integers, FiniteSets

CONSTANTS
    Procs, Keys,
    MaxOps,       \* bound on the operations created
    LeaseTime,    \* the 600 seconds of a lease, in ticks
    Patience,     \* the 600 tries for a lease, in ticks
    MaxCrashes,   \* bound on the crashes
    MaxTime       \* bound on the clock

ASSUME ProbeConstants ==
    /\ MaxOps \in Nat \ {0} /\ LeaseTime \in Nat \ {0} /\ Patience \in Nat
    /\ MaxCrashes \in Nat /\ MaxTime \in Nat
    /\ IsFiniteSet(Procs)

Ops     == 1 .. MaxOps
Times   == 0 .. MaxTime
Runs    == Procs \X Ops      \* the task of a process for an operation
Nobody  == <<>>
Ghost   == <<"dead">>        \* the task of a process that has crashed
Sources == {"manual", "daily"}

VARIABLES
    clock,
    ops,       \* table route_probe_operations
    facts,     \* table route_probe_facts: the operation last verified for each key
    lease,     \* table route_probe_leases: the "global" row
    procs,     \* what each process is doing
    tasks,     \* the service's tasks
    calls,     \* how often the provider was called for each operation
    verified,  \* the operations whose provider gave a verified answer
    crashes

store == <<ops, facts, lease>>
vars  == <<clock, store, procs, tasks, calls, verified, crashes>>
-----------------------------------------------------------------------------
Active   == {"queued", "running", "cancel_requested"}
Results  == {"succeeded", "failed", "inconclusive"}
Terminal == Results \cup {"cancelled", "interrupted"}
NoOp     == [status |-> "none"]
Op       == [status : Active \cup Terminal, key : Keys, source : Sources]
Task     == [pc : {"none", "waiting", "leasing", "probing"}, since : Times]
NoTask   == [pc |-> "none", since |-> 0]

TypeOK ==
    /\ clock \in Times
    /\ ops \in [Ops -> Op \cup {NoOp}]
    /\ facts \in [Keys -> Ops \cup {0}]
    /\ lease \in [holder : Runs \cup {Nobody, Ghost}, expires : 0 .. MaxTime + LeaseTime]
    /\ procs \in [Procs -> {"up", "closed", "down"}]
    /\ tasks \in [Runs -> Task]
    /\ calls \in [Ops -> Nat]
    /\ verified \subseteq Ops
    /\ crashes \in 0 .. MaxCrashes

Init ==
    /\ clock = 0
    /\ ops = [o \in Ops |-> NoOp]
    /\ facts = [k \in Keys |-> 0]
    /\ lease = [holder |-> Nobody, expires |-> 0]
    /\ procs = [p \in Procs |-> "up"]
    /\ tasks = [run \in Runs |-> NoTask]
    /\ calls = [o \in Ops |-> 0]
    /\ verified = {}
    /\ crashes = 0
-----------------------------------------------------------------------------
(* RouteProbeStore                                                          *)

IsActive(o) == ops[o].status \in Active

\* Mutant: a join looks for what waits, not for what runs.
JoinableQueued(o, k) == ops[o].status = "queued" /\ ops[o].key = k
Joinable(o, k) == IsActive(o) /\ ops[o].key = k

Daily(k)   == {o \in Ops : ops[o] # NoOp /\ ops[o].key = k /\ ops[o].source = "daily"}
Joined(k)  == {o \in Ops : Joinable(o, k)}
Unused     == {o \in Ops : ops[o] = NoOp}

\* create: the day's operation, an active one of the key, or a new one.
Created(k, source) ==
    IF source = "daily" /\ Daily(k) # {} THEN Daily(k)
    ELSE IF Joined(k) # {} THEN {o \in Joined(k) : \A i \in Joined(k) : o <= i}
    ELSE {o \in Unused : \A i \in Unused : o <= i}

Stored(o, k, source) ==
    IF ops[o] = NoOp THEN [status |-> "queued", key |-> k, source |-> source] ELSE ops[o]

\* Mutant: what is over is finished again.
FinishedAgain(row, result) ==
    [row EXCEPT !.status = IF @ = "cancel_requested" THEN "cancelled" ELSE result]
Finished(row, result) ==
    IF row.status \in Active
    THEN [row EXCEPT !.status = IF @ = "cancel_requested" THEN "cancelled" ELSE result]
    ELSE row

\* Mutant: the request is stored, but nobody finishes the operation.
CancelledNever(row) ==
    IF row.status \in Active THEN [row EXCEPT !.status = "cancel_requested"] ELSE row
\* store.cancel followed by store.finish
CancelledOp(row) == IF row.status \in Active THEN [row EXCEPT !.status = "cancelled"] ELSE row

\* Mutant: a verified answer is a fact though its operation was cancelled.
ProvesAnyway(row, result) == result = "succeeded" /\ row.status \in Active
Proves(row, result) ==
    row.status \in Active /\ Finished(row, result).status = "succeeded"

\* Mutant: the lease is taken whoever holds it.
LeaseFreeAlways(run) == TRUE
LeaseFree(run) == lease.holder = Nobody \/ lease.expires < clock \/ lease.holder = run

Released(run) == IF lease.holder = run THEN [lease EXCEPT !.holder = Nobody] ELSE lease
-----------------------------------------------------------------------------
(* RouteProbeService                                                        *)

EndTask(run) == tasks' = [tasks EXCEPT ![run] = NoTask]

Queue(p, k, source) ==
    /\ procs[p] = "up"
    /\ \E o \in Created(k, source) :
        /\ ops' = [ops EXCEPT ![o] = Stored(o, k, source)]
        /\ tasks' = IF ops'[o].status = "queued" /\ tasks[<<p, o>>].pc = "none"
                    THEN [tasks EXCEPT ![<<p, o>>].pc = "waiting"] ELSE tasks
    /\ UNCHANGED <<clock, facts, lease, procs, calls, verified, crashes>>

\* After shutdown: whatever waits is cancelled.
QueueClosed(p, k, source) ==
    /\ procs[p] = "closed"
    /\ \E o \in Created(k, source) :
        LET row == Stored(o, k, source) IN
        ops' = [ops EXCEPT ![o] = IF row.status = "queued" THEN CancelledOp(row) ELSE row]
    /\ UNCHANGED <<clock, facts, lease, procs, tasks, calls, verified, crashes>>

\* The lock of the process: one of its tasks at a time goes on.
TakeLock(run) ==
    /\ tasks[run].pc = "waiting"
    /\ \A o \in Ops : tasks[<<run[1], o>>].pc \notin {"leasing", "probing"}
    /\ tasks' = [tasks EXCEPT ![run] = [pc |-> "leasing", since |-> clock]]
    /\ UNCHANGED <<clock, store, procs, calls, verified, crashes>>

\* Mutant: any active operation may be begun.
BeginsActive(o) == IsActive(o)
Begins(o) == ops[o].status = "queued"

\* The lease is acquired, the operation begun and the provider called.
Begin(run) ==
    /\ tasks[run].pc = "leasing" /\ LeaseFree(run)
    /\ Begins(run[2])
    /\ lease' = [holder |-> run, expires |-> clock + LeaseTime]
    /\ ops' = [ops EXCEPT ![run[2]].status = "running"]
    /\ tasks' = [tasks EXCEPT ![run] = [pc |-> "probing", since |-> 0]]
    /\ calls' = [calls EXCEPT ![run[2]] = @ + 1]
    /\ UNCHANGED <<clock, facts, procs, verified, crashes>>

\* Another process has begun, cancelled or interrupted it: the task just returns.
BeginMoot(run) ==
    /\ tasks[run].pc = "leasing" /\ LeaseFree(run)
    /\ ~ Begins(run[2])
    /\ lease' = [holder |-> Nobody, expires |-> 0]
    /\ EndTask(run)
    /\ UNCHANGED <<clock, ops, facts, procs, calls, verified, crashes>>

NoLease(run) ==
    /\ tasks[run].pc = "leasing" /\ ~ LeaseFree(run)
    /\ clock - tasks[run].since >= Patience
    /\ ops' = [ops EXCEPT ![run[2]] = Finished(@, "inconclusive")]
    /\ EndTask(run)
    /\ UNCHANGED <<clock, facts, lease, procs, calls, verified, crashes>>

\* The provider answers or raises, or its time is over ("failed").
Answer(run, result) ==
    LET o == run[2] IN
    /\ tasks[run].pc = "probing"
    /\ ops' = [ops EXCEPT ![o] = Finished(@, result)]
    /\ facts' = IF Proves(ops[o], result) THEN [facts EXCEPT ![ops[o].key] = o] ELSE facts
    /\ verified' = IF result = "succeeded" THEN verified \cup {o} ELSE verified
    /\ lease' = Released(run)
    /\ EndTask(run)
    /\ UNCHANGED <<clock, procs, calls, crashes>>

Renewable(run) == lease.holder = run /\ lease.expires > clock

Heartbeat(run) ==
    /\ tasks[run].pc = "probing"
    /\ ops[run[2]].status # "cancel_requested" /\ Renewable(run)
    /\ lease' = [lease EXCEPT !.expires = clock + LeaseTime]
    /\ UNCHANGED <<clock, ops, facts, procs, tasks, calls, verified, crashes>>

\* The heartbeat finds a request to cancel, or no lease: the call is cancelled.
HeartbeatStops(run) ==
    /\ tasks[run].pc = "probing"
    /\ ops[run[2]].status = "cancel_requested" \/ ~ Renewable(run)
    /\ ops' = [ops EXCEPT ![run[2]] = CancelledOp(@)]
    /\ lease' = Released(run)
    /\ EndTask(run)
    /\ UNCHANGED <<clock, facts, procs, calls, verified, crashes>>

\* service.cancel: the request is stored; a task of this process is cancelled.
Cancel(p, o) ==
    LET mine == tasks[<<p, o>>].pc # "none" IN
    /\ procs[p] = "up" /\ IsActive(o)
    /\ ops' = [ops EXCEPT ![o] =
            IF mine THEN CancelledOp(@) ELSE [@ EXCEPT !.status = "cancel_requested"]]
    /\ lease' = Released(<<p, o>>)
    /\ EndTask(<<p, o>>)
    /\ UNCHANGED <<clock, facts, procs, calls, verified, crashes>>

Shutdown(p) ==
    LET mine == {o \in Ops : tasks[<<p, o>>].pc # "none"} IN
    /\ procs[p] = "up"
    /\ procs' = [procs EXCEPT ![p] = "closed"]
    /\ ops' = [o \in Ops |-> IF o \in mine THEN CancelledOp(ops[o]) ELSE ops[o]]
    /\ lease' = IF \E o \in mine : lease.holder = <<p, o>>
                THEN [lease EXCEPT !.holder = Nobody] ELSE lease
    /\ tasks' = [run \in Runs |-> IF run[1] = p THEN NoTask ELSE tasks[run]]
    /\ UNCHANGED <<clock, facts, calls, verified, crashes>>

Crash(p) ==
    /\ procs[p] # "down" /\ crashes < MaxCrashes
    /\ crashes' = crashes + 1
    /\ procs' = [procs EXCEPT ![p] = "down"]
    /\ lease' = IF \E o \in Ops : lease.holder = <<p, o>>
                THEN [lease EXCEPT !.holder = Ghost] ELSE lease
    /\ tasks' = [run \in Runs |-> IF run[1] = p THEN NoTask ELSE tasks[run]]
    /\ UNCHANGED <<clock, ops, facts, calls, verified>>

\* get_route_probe_service in a new process, with recover_interrupted: while a lease
\* lives nothing is recovered.
Start(p) ==
    /\ procs[p] # "up"
    /\ procs' = [procs EXCEPT ![p] = "up"]
    /\ ops' = IF lease.holder # Nobody /\ lease.expires > clock THEN ops
              ELSE [o \in Ops |-> IF IsActive(o)
                                  THEN [ops[o] EXCEPT !.status = "interrupted"] ELSE ops[o]]
    /\ UNCHANGED <<clock, facts, lease, tasks, calls, verified, crashes>>

HeartbeatDue ==
    \E run \in Runs : /\ tasks[run].pc = "probing" /\ lease.holder = run
                      /\ lease.expires <= clock + 1

Tick ==
    /\ clock < MaxTime /\ ~ HeartbeatDue
    /\ clock' = clock + 1
    /\ UNCHANGED <<store, procs, tasks, calls, verified, crashes>>

Work(run) ==
    \/ TakeLock(run) \/ Begin(run) \/ BeginMoot(run) \/ NoLease(run)
    \/ \E result \in Results : Answer(run, result)
    \/ HeartbeatStops(run)

Next ==
    \/ Tick
    \/ \E run \in Runs : Work(run) \/ Heartbeat(run)
    \/ \E p \in Procs :
        \/ \E k \in Keys, source \in Sources : Queue(p, k, source) \/ QueueClosed(p, k, source)
        \/ \E o \in Ops : Cancel(p, o)
        \/ Shutdown(p) \/ Crash(p) \/ Start(p)

Spec == Init /\ [][Next]_vars

\* A task of a process that is up goes on: the lock, the lease and the provider answer
\* it, each within its limit; processes that end are started again; time passes.
Fairness ==
    /\ \A run \in Runs : WF_vars(Work(run))
    /\ \A p \in Procs : WF_vars(Start(p))
    /\ WF_vars(Tick)

FairSpec == Spec /\ Fairness
-----------------------------------------------------------------------------
(* One provider call at a time across the processes, through crashes,       *)
(* restarts and heartbeats that find a cancelled operation (_run).          *)
OneProbe == Cardinality({run \in Runs : tasks[run].pc = "probing"}) <= 1

(* The provider is called at most once for an operation, though two         *)
(* processes may have a task for it (begin).                                *)
CalledOnce == \A o \in Ops : calls[o] <= 1

(* Requests for a key join the active operation of the key, whichever       *)
(* process and source they come from: there are never two (create).         *)
JoinsActive ==
    \A i, o \in Ops : IsActive(i) /\ IsActive(o) /\ ops[i].key = ops[o].key => i = o

(* What is over stays as it is, and a request to cancel is never answered   *)
(* by a result (finish, and its callers in other processes).                *)
StatusPath ==
    [][\A o \in Ops :
         /\ ops[o].status \in Terminal => ops'[o] = ops[o]
         /\ ops[o].status = "cancel_requested" =>
                ops'[o].status \in {"cancel_requested", "cancelled", "interrupted"}]_vars

(* A fact is the verified answer of an operation that succeeded.            *)
FactsVerified ==
    \A k \in Keys : facts[k] # 0 =>
        /\ facts[k] \in verified
        /\ ops[facts[k]].status = "succeeded" /\ ops[facts[k]].key = k

(* "No old running task hangs": every operation comes to an end.            *)
Concludes == \A o \in Ops : IsActive(o) ~> ~ IsActive(o)
=============================================================================
