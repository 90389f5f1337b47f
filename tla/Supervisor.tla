----------------------------- MODULE Supervisor -----------------------------
(***************************************************************************)
(* The restart loop every long-running harness task runs under             *)
(* (harness/executor.py, _guarded) and the readiness flag it drives for    *)
(* the one critical task, bus_worker (harness/main.py, _guarded and        *)
(* _set_ready_when_started).                                               *)
(*                                                                         *)
(* Time advances in ticks; a timer that is due fires before the next tick, *)
(* two timers due at the same tick fire in either order.                   *)
(***************************************************************************)
EXTENDS Naturals

CONSTANTS
    Delay,         \* restart_delay, in ticks
    MaxRestarts    \* WORKER_MAX_RESTARTS

ASSUME SupervisorAssumption ==
    /\ Delay \in Nat \ {0}
    /\ MaxRestarts \in Nat \ {0}

VARIABLES
    phase,      \* "running" coro_fn, "sleeping" before a restart, "exited"
    age,        \* ticks since _attempt_start, saturating at AgeCap
    slept,      \* ticks spent in the restart sleep
    restarts,   \* consecutive_restarts, saturating at MaxRestarts + 1
    watchdog,   \* _recovery_watchdog: "none", "armed" or "done"
    started,    \* server.started was observed
    ready       \* main._ready

vars == <<phase, age, slept, restarts, watchdog, started, ready>>

Stable == 3 * Delay            \* the streak reset and the watchdog threshold
AgeCap == Stable + Delay + 1   \* bound: older attempts behave alike

Saturate(n, cap) == IF n > cap THEN cap ELSE n

TypeOK ==
    /\ phase \in {"running", "sleeping", "exited"}
    /\ age \in 0..AgeCap
    /\ slept \in 0..Delay
    /\ restarts \in 0..MaxRestarts + 1
    /\ watchdog \in {"none", "armed", "done"}
    /\ started \in BOOLEAN
    /\ ready \in BOOLEAN

Init ==
    /\ phase = "running"
    /\ age = 0
    /\ slept = 0
    /\ restarts = 0
    /\ watchdog = "none"
    /\ started = FALSE
    /\ ready = FALSE

-----------------------------------------------------------------------------
WatchdogDue == watchdog = "armed" /\ age >= Stable
SleepOverLate == phase = "sleeping" /\ slept > Delay    \* mutant
SleepOver == phase = "sleeping" /\ slept >= Delay

\* The watchdog runs from the start of the attempt and is cancelled by the
\* finally clause, which a crashing attempt reaches only after the sleep.
Tick ==
    /\ phase # "exited" \/ watchdog = "armed"
    /\ ~WatchdogDue
    /\ ~SleepOver
    /\ age' = Saturate(age + 1, AgeCap)
    /\ slept' = IF phase = "sleeping" THEN slept + 1 ELSE slept
    /\ UNCHANGED <<phase, restarts, watchdog, started, ready>>

\* _recovery_watch: sleep(restart_delay * 3), then _on_recovered.
WatchdogFires ==
    /\ WatchdogDue
    /\ watchdog' = "done"
    /\ ready' = TRUE
    /\ UNCHANGED <<phase, age, slept, restarts, started>>

\* Mutant of Streak: the rule before #1367, reset after one restart_delay.
StreakAfterOneDelay == IF age >= Delay THEN 1 ELSE restarts + 1

\* consecutive_restarts after a crash of the current attempt.
Streak == IF age >= Stable THEN 1 ELSE restarts + 1

\* coro_fn raises: count, report, and begin the restart sleep.
Crash ==
    /\ phase = "running"
    /\ phase' = "sleeping"
    /\ slept' = 0
    /\ restarts' = Saturate(Streak, MaxRestarts + 1)
    /\ ready' = IF Streak >= MaxRestarts THEN FALSE ELSE ready
    /\ UNCHANGED <<age, watchdog, started>>

\* Mutant of Watch: no timer (before #1311, on_recovered waited for a crash).
WatchNever == "none"

\* The next attempt arms a watchdog when it continues a streak.
Watch == IF restarts > 0 THEN "armed" ELSE "none"

\* The sleep ends, finally cancels the old watchdog, the loop starts over.
Restart ==
    /\ SleepOver
    /\ phase' = "running"
    /\ age' = 0
    /\ slept' = 0
    /\ watchdog' = Watch
    /\ UNCHANGED <<restarts, started, ready>>

\* Mutant of CancelWatchdog: finally is reached on crashes only (before #1345).
KeepWatchdog == UNCHANGED watchdog

\* finally: cancel a watchdog that is not done.
CancelWatchdog == watchdog' = IF watchdog = "armed" THEN "none" ELSE watchdog

\* coro_fn returns, or the task is cancelled while it runs or sleeps.
Exit ==
    /\ phase # "exited"
    /\ phase' = "exited"
    /\ CancelWatchdog
    /\ UNCHANGED <<age, slept, restarts, started, ready>>

\* _set_ready_when_started, once.
SetReady ==
    /\ ~started
    /\ started' = TRUE
    /\ ready' = TRUE
    /\ UNCHANGED <<phase, age, slept, restarts, watchdog>>

Next == Tick \/ WatchdogFires \/ Crash \/ Restart \/ Exit \/ SetReady

Spec == Init /\ [][Next]_vars

(* Timers expire and the server starts; a worker need not crash or exit.   *)
Fairness ==
    /\ WF_vars(Tick)
    /\ WF_vars(WatchdogFires)
    /\ WF_vars(Restart)
    /\ WF_vars(SetReady)

LiveSpec == Spec /\ Fairness

-----------------------------------------------------------------------------
(* A worker that has run past the stability threshold is not left marked   *)
(* not ready (#1311): healing needs no further crash to be noticed.        *)
StableMeansReady ==
    phase = "running" /\ age > Stable /\ started => ready

(* Once the supervised task is gone for good, nothing it left behind turns *)
(* the agent ready again (#1345).                                          *)
NoLateRecovery ==
    [][phase = "exited" /\ started => ready' = ready]_vars

(* A worker that keeps crashing, each time before it has run for two       *)
(* restart delays, ends up marked not ready and stays so (#1367).          *)
CrashLoopIsVisible ==
    ( /\ []<>(phase = "sleeping")
      /\ <>[](phase = "running" => age < 2 * Delay) )
    => <>[]~ready
=============================================================================
