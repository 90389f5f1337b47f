------------------------------ MODULE MCHarness ------------------------------
(***************************************************************************)
(* The message bus and the readiness probe on small instances.  They share *)
(* no variable: a behaviour of this run is one of the two, chosen in the   *)
(* initial state (focus), while the other keeps its initial state.         *)
(***************************************************************************)
EXTENDS MCMessageBus

CONSTANTS Probes, Backends, TTL, SweepMax, SameModule, None

VARIABLES
    focus,
    gate, reachable, down, cache, left, lock, pc, seen, sweeping, flipped, answer

R == INSTANCE HealthReady

rdvars == <<gate, reachable, down, cache, left, lock, pc, seen, sweeping, flipped, answer>>

ASSUME HarnessAssumption == R!HealthAssumption

-----------------------------------------------------------------------------
HarnessInit ==
    /\ focus \in {"bus", "ready"}
    /\ Init
    /\ R!Init

HarnessNext ==
    \/ focus = "bus" /\ Next /\ UNCHANGED <<focus, rdvars>>
    \/ focus = "ready" /\ R!Next /\ UNCHANGED <<focus, vars>>

(* The fairness of each component, while it is the one that runs.          *)
HarnessFairness ==
    /\ WF_vars(focus = "bus" /\ Receive)
    /\ \A m \in Msgs : WF_vars(focus = "bus" /\ ProcessEnds(m))
    /\ \A m \in SendMsgs :
          /\ WF_vars(focus = "bus" /\ (PutResumes(m) \/ SendTimesOut(m)))
          /\ WF_vars(focus = "bus" /\ SendReturns(m))
    /\ \A p \in Probes :
          /\ SF_rdvars(focus = "ready" /\ R!Enter(p))
          /\ WF_rdvars(focus = "ready" /\ R!Finish(p))
          /\ \A b \in Backends : WF_rdvars(focus = "ready" /\ R!ProbeBackend(p, b))

HarnessSpec ==
    /\ HarnessInit
    /\ [][HarnessNext]_<<focus, vars, rdvars>>
    /\ HarnessFairness

-----------------------------------------------------------------------------
(* The variables of the bus and of the probe keep to their types.          *)
HarnessTypes == TypeOK /\ R!TypeOK

(* Concurrent probes share one sweep, and a backend that is gone is never  *)
(* reported healthy for longer than a sweep and a TTL (main.py,            *)
(* health_ready).                                                          *)
HealthFresh == R!NoRedundantSweep /\ R!StaleBounded

(* Every send and every readiness probe that waits for the sweep lock gets *)
(* its answer (bus.py, send; main.py, health_ready).                       *)
HarnessProgress == SendEnds /\ R!ProbeAnswered
=============================================================================
