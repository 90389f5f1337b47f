----------------------------- MODULE HealthReady -----------------------------
(***************************************************************************)
(* harness/main.py, health_ready: the readiness probe, its short-lived     *)
(* cache of the backend sweep (#542, #703) and the single-flight lock; and *)
(* invalidate_health_ready_cache as harness/backends/a2a.py calls it when  *)
(* a circuit opens.                                                        *)
(*                                                                         *)
(* The harness is started as a script (Dockerfile CMD "python3 main.py"),  *)
(* so the handler's globals belong to module __main__, while a2a.py's      *)
(* "from main import ..." loads the file a second time as module main.     *)
(* SameModule says whether the two are one module.                         *)
(***************************************************************************)
EXTENDS Naturals, FiniteSetsExt

CONSTANTS
    Probes,       \* concurrent readiness requests
    Backends,     \* configured backends with a URL
    TTL,          \* HEALTH_READY_CACHE_TTL, in ticks
    SweepMax,     \* bound on a sweep: the httpx timeouts of _probe, in ticks
    SameModule,   \* FALSE for the deployed entry point
    None          \* no value

HealthAssumption ==
    /\ TTL \in Nat \ {0}
    /\ SweepMax \in Nat
    /\ SameModule \in BOOLEAN
    /\ None \notin Probes \cup BOOLEAN

VARIABLES
    gate,        \* _ready, a config that is not stale, and some backend
    reachable,   \* external: which backends would answer /health/ready
    down,        \* history: ticks for which a backend has been unreachable
    cache,       \* _health_ready_cache: a status code or None
    left,        \* ticks until _health_ready_expires
    lock,        \* holder of _health_ready_lock, or None
    pc,          \* "idle" or "waiting" for the lock; the holder is sweeping
    seen,        \* results of the sweep in progress
    sweeping,    \* ticks the sweep has taken
    flipped,     \* history: a circuit opened since the last sweep began
    answer       \* history: what the last probe to be answered was told, and when

vars == <<gate, reachable, down, cache, left, lock, pc, seen, sweeping, flipped, answer>>

DownCap == TTL + SweepMax + 1   \* bound: longer outages are alike

Answers == [code : {200, 503}, down : 0..DownCap, late : BOOLEAN]

TypeOK ==
    /\ gate \in BOOLEAN
    /\ reachable \in [Backends -> BOOLEAN]
    /\ down \in [Backends -> 0..DownCap]
    /\ cache \in {None, 200, 503}
    /\ left \in 0..TTL
    /\ lock \in Probes \cup {None}
    /\ pc \in [Probes -> {"idle", "waiting", "sweeping"}]
    /\ seen \in [Backends -> {TRUE, FALSE, None}]
    /\ sweeping \in 0..SweepMax
    /\ flipped \in BOOLEAN
    /\ answer \in Answers \cup {None}

Init ==
    /\ gate = FALSE
    /\ reachable = [b \in Backends |-> TRUE]
    /\ down = [b \in Backends |-> 0]
    /\ cache = None
    /\ left = 0
    /\ lock = None
    /\ pc = [p \in Probes |-> "idle"]
    /\ seen = [b \in Backends |-> None]
    /\ sweeping = 0
    /\ flipped = FALSE
    /\ answer = None

-----------------------------------------------------------------------------
ValidForever == cache # None /\ left >= 0     \* mutant: <= for <
Valid == cache # None /\ left > 0

Outage == Max({down[b] : b \in Backends} \cup {0})

Reply(code, late) == answer' = [code |-> code, down |-> Outage, late |-> late]

\* The three early returns, then the cache, then the queue for the lock.
Arrive(p) ==
    /\ pc[p] = "idle"
    /\ \/ ~gate /\ Reply(503, FALSE) /\ UNCHANGED pc
       \/ gate /\ Valid /\ Reply(cache, flipped) /\ UNCHANGED pc
       \/ gate /\ ~Valid /\ pc' = [pc EXCEPT ![p] = "waiting"] /\ UNCHANGED answer
    /\ UNCHANGED <<gate, reachable, down, cache, left, lock, seen, sweeping, flipped>>

Begin(p) ==
    /\ lock' = p
    /\ pc' = [pc EXCEPT ![p] = "sweeping"]
    /\ seen' = [b \in Backends |-> None]
    /\ sweeping' = 0
    /\ flipped' = FALSE
    /\ UNCHANGED <<gate, reachable, down, cache, left, answer>>

\* Mutant of Enter: no second look at the cache under the lock.
EnterUnchecked(p) ==
    /\ pc[p] = "waiting"
    /\ lock = None
    /\ Begin(p)

\* The lock is free: look at the cache again, then sweep.
Enter(p) ==
    /\ pc[p] = "waiting"
    /\ lock = None
    /\ IF Valid
         THEN /\ Reply(cache, flipped)
              /\ pc' = [pc EXCEPT ![p] = "idle"]
              /\ UNCHANGED <<gate, reachable, down, cache, left, lock, seen,
                             sweeping, flipped>>
         ELSE Begin(p)

\* _probe of one backend; a reachable one may still be too slow.
ProbeBackend(p, b) ==
    /\ lock = p
    /\ seen[b] = None
    /\ \E ok \in {reachable[b], FALSE} : seen' = [seen EXCEPT ![b] = ok]
    /\ UNCHANGED <<gate, reachable, down, cache, left, lock, pc, sweeping, flipped, answer>>

StoreLonger(code) == cache' = code /\ left' = TTL + 1    \* mutant
Store(code) == cache' = code /\ left' = TTL

\* Mutant of Finish: an exit path that keeps the lock.
FinishHolding(p) ==
    /\ lock = p
    /\ \A b \in Backends : seen[b] # None
    /\ LET code == IF \A b \in Backends : seen[b] THEN 200 ELSE 503
       IN  Store(code) /\ Reply(code, FALSE)
    /\ pc' = [pc EXCEPT ![p] = "idle"]
    /\ UNCHANGED <<gate, reachable, down, lock, seen, sweeping, flipped>>

\* gather returns: store the outcome with a new expiry, release, answer.
Finish(p) ==
    /\ lock = p
    /\ \A b \in Backends : seen[b] # None
    /\ LET code == IF \A b \in Backends : seen[b] THEN 200 ELSE 503
       IN  Store(code) /\ Reply(code, FALSE)
    /\ lock' = None
    /\ pc' = [pc EXCEPT ![p] = "idle"]
    /\ UNCHANGED <<gate, reachable, down, seen, sweeping, flipped>>

\* invalidate_health_ready_cache, on the globals of the module it is loaded in.
Invalidate ==
    IF SameModule THEN cache' = None /\ left' = 0 ELSE UNCHANGED <<cache, left>>

\* A2A calls to an unreachable backend fail until its circuit opens.
CircuitOpens(b) ==
    /\ ~reachable[b]
    /\ flipped' = TRUE
    /\ Invalidate
    /\ UNCHANGED <<gate, reachable, down, lock, pc, seen, sweeping, answer>>

BackendFlips(b) ==
    /\ reachable' = [reachable EXCEPT ![b] = ~@]
    /\ down' = [down EXCEPT ![b] = 0]
    /\ UNCHANGED <<gate, cache, left, lock, pc, seen, sweeping, flipped, answer>>

GateFlips ==
    /\ gate' = ~gate
    /\ UNCHANGED <<reachable, down, cache, left, lock, pc, seen, sweeping, flipped, answer>>

Tick ==
    /\ lock # None => sweeping < SweepMax
    /\ sweeping' = IF lock # None THEN sweeping + 1 ELSE sweeping
    /\ left' = IF left > 0 THEN left - 1 ELSE 0
    /\ down' = [b \in Backends |->
                  IF reachable[b] \/ down[b] = DownCap THEN down[b] ELSE down[b] + 1]
    /\ UNCHANGED <<gate, reachable, cache, lock, pc, seen, flipped, answer>>

Next ==
    \/ \E p \in Probes :
          Arrive(p) \/ Enter(p) \/ Finish(p) \/ \E b \in Backends : ProbeBackend(p, b)
    \/ \E b \in Backends : CircuitOpens(b) \/ BackendFlips(b)
    \/ GateFlips
    \/ Tick

Spec == Init /\ [][Next]_vars

(* httpx timeouts end every request of a sweep; the lock is then released. *)
Fairness ==
    \A p \in Probes :
        /\ SF_vars(Enter(p))
        /\ WF_vars(Finish(p))
        /\ \A b \in Backends : WF_vars(ProbeBackend(p, b))

LiveSpec == Spec /\ Fairness

-----------------------------------------------------------------------------
(* N concurrent probes collapse into one sweep: a sweep is never under way *)
(* while the cache holds an answer that has not expired.                   *)
NoRedundantSweep == lock # None => ~Valid

(* How long a dead backend can masquerade as healthy: "ready" is never     *)
(* answered once a backend has been unreachable for a sweep and a TTL.     *)
StaleBounded ==
    answer # None /\ answer.code = 200 => answer.down < TTL + SweepMax

(* A circuit that opens "surfaces on the very next readiness probe rather  *)
(* than waiting out the TTL": no probe is told "ready" on the strength of  *)
(* a sweep that began before it.                                           *)
FlipSurfaces ==
    answer # None /\ answer.code = 200 => ~answer.late

(* Every probe that waits for the lock is answered.                        *)
ProbeAnswered == \A p \in Probes : []<>(pc[p] = "idle")
=============================================================================
