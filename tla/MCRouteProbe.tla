---------------------------- MODULE MCRouteProbe ----------------------------
(* Small instances of RouteProbe.                                           *)
EXTENDS RouteProbe, TLC

CONSTANTS p1, p2, k1, k2

\* Which part of the instance a behaviour explores: one key and two processes, of which
\* one may crash; or no crash, two keys, so that two tasks may want the lease at once,
\* and requests of one source.  Processes are alike, and so are keys: the first is
\* the one that crashes, or that the first operation is of.
VARIABLE scene

InScene ==
    CASE scene = "wide" ->
            /\ procs[p2] # "down"
            /\ \A o \in Ops : ops[o] # NoOp => ops[o].key = k1
      [] scene = "calm" ->
            /\ crashes = 0
            /\ \A o \in Ops : ops[o] # NoOp => ops[o].source = "manual"
            /\ ops[1] # NoOp => ops[1].key = k1
      [] scene = "any" -> TRUE

ScenesInit == Init /\ scene \in {"wide", "calm"}
ScenesNext == Next /\ UNCHANGED scene /\ InScene'
ScenesSpec == ScenesInit /\ [][ScenesNext]_<<vars, scene>> /\ Fairness

AnyInit == Init /\ scene = "any"
AnySpec == AnyInit /\ [][ScenesNext]_<<vars, scene>> /\ Fairness

\* Queued, or begun and not over.
Underway(o) == ops[o].status = "queued" \/ (IsActive(o) /\ calls[o] > 0)

(* Without crashes every probe ends, also one that another process asks to  *)
(* cancel once it is begun: the provider, its time, the heartbeat and a     *)
(* shutdown each end it.  The exception is a probe that another process     *)
(* asks to cancel before it is begun: its task then finds nothing to begin  *)
(* and returns, and the row stays cancel_requested until a process starts   *)
(* again (_run, cancel).                                                    *)
CalmConcludes == scene = "calm" => \A o \in Ops : Underway(o) ~> ~ Underway(o)
=============================================================================
