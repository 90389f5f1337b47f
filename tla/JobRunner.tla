------------------------------ MODULE JobRunner ------------------------------
(***************************************************************************)
(* harness/jobs.py: the registry of scheduled jobs (JobRunner), a job's    *)
(* cron loop (run_job) and one fire of it (_execute_job), together with    *)
(* the ad-hoc endpoint of harness/main.py that fires the same job through  *)
(* _execute_job outside its schedule.                                      *)
(*                                                                         *)
(* A job file that is parsed anew becomes a new JobItem; an item is a path *)
(* and a generation.  A fire is one call of _execute_job: the item's cron  *)
(* loop makes at most one at a time, each ad-hoc request makes its own.    *)
(***************************************************************************)
EXTENDS Naturals, FiniteSetsExt

CONSTANTS
    Paths,        \* job files
    AdHocs,       \* ad-hoc requests per item (bound)
    MaxGen,       \* bound on how often a file is parsed
    MaxFires,     \* JOBS_MAX_CONCURRENT, the semaphore's initial value
    None

ASSUME JobAssumption ==
    /\ MaxGen \in Nat \ {0}
    /\ MaxFires \in Nat \ {0}
    /\ "cron" \notin AdHocs

Items == Paths \X (1..MaxGen)

\* None is not an item and not a pair the watcher may hold.
ASSUME NoneAssumption ==
    None \notin Items /\ None \notin Items \X (Items \cup {None})

Slots == {"cron"} \cup AdHocs
Fires == Items \X Slots

VARIABLES
    reg,          \* JobRunner._items
    gen,          \* how often a path has been parsed
    cron,         \* the task of an item: "none", "sleeping", "firing",
                  \*   "cancelled" (cancel() called, not yet delivered)
    running,      \* JobItem.running
    fire,         \* a fire: "off", "queued" (no permit yet), "sending", "draining"
    permits,      \* the semaphore
    checkpoint,   \* paths with a .running.json file
    watcher,      \* <<new item, old item whose task is awaited>> while
                  \*   _register is suspended, else None
    dropped       \* history: items whose file was removed

vars == <<reg, gen, cron, running, fire, permits, checkpoint, watcher, dropped>>

TypeOK ==
    /\ reg \in [Paths -> Items \cup {None}]
    /\ gen \in [Paths -> 0..MaxGen]
    /\ cron \in [Items -> {"none", "sleeping", "firing", "cancelled"}]
    /\ running \in [Items -> BOOLEAN]
    /\ fire \in [Fires -> {"off", "queued", "sending", "draining"}]
    /\ permits \in 0..MaxFires
    /\ checkpoint \in SUBSET Paths
    /\ watcher \in (Items \X (Items \cup {None})) \cup {None}
    /\ dropped \in SUBSET Items

Init ==
    /\ reg = [p \in Paths |-> None]
    /\ gen = [p \in Paths |-> 0]
    /\ cron = [i \in Items |-> "none"]
    /\ running = [i \in Items |-> FALSE]
    /\ fire = [f \in Fires |-> "off"]
    /\ permits = MaxFires
    /\ checkpoint = {}
    /\ watcher = None
    /\ dropped = {}

Item(f) == f[1]
PathOf(f) == f[1][1]
CronFire(i) == <<i, "cron">>
Active(f) == fire[f] \in {"sending", "draining"}

-----------------------------------------------------------------------------
(* _execute_job *)

\* Mutant of Start: the permit is not taken.
StartUngated(f) ==
    /\ running' = [running EXCEPT ![Item(f)] = TRUE]
    /\ checkpoint' = checkpoint \cup {PathOf(f)}
    /\ fire' = [fire EXCEPT ![f] = "sending"]
    /\ UNCHANGED permits

\* A permit is there: from acquire() to the await of bus.send.
Start(f) ==
    /\ permits' = permits - 1
    /\ running' = [running EXCEPT ![Item(f)] = TRUE]
    /\ checkpoint' = checkpoint \cup {PathOf(f)}
    /\ fire' = [fire EXCEPT ![f] = "sending"]

\* A fire that waited for a permit, or an ad-hoc task that had not run yet.
Begin(f) ==
    /\ fire[f] = "queued"
    /\ f = CronFire(Item(f)) => cron[Item(f)] = "firing"
    /\ permits > 0
    /\ Start(f)
    /\ UNCHANGED <<reg, gen, cron, watcher, dropped>>

\* Mutant of Cleanup: the permit is not given back.
CleanupKeepsPermit(f) ==
    /\ fire' = [fire EXCEPT ![f] = "off"]
    /\ running' = [running EXCEPT ![Item(f)] = FALSE]
    /\ checkpoint' = checkpoint \ {PathOf(f)}
    /\ UNCHANGED permits

\* The finally clause.
Cleanup(f) ==
    /\ fire' = [fire EXCEPT ![f] = "off"]
    /\ running' = [running EXCEPT ![Item(f)] = FALSE]
    /\ permits' = permits + 1
    /\ checkpoint' = checkpoint \ {PathOf(f)}

\* bus.send returns or raises; the cron loop goes back to sleep, a run-once
\* job's task is over.
SendEnds(f) ==
    /\ fire[f] = "sending"
    /\ f = CronFire(Item(f)) => cron[Item(f)] = "firing"
    /\ Cleanup(f)
    /\ IF f = CronFire(Item(f))
         THEN \E next \in {"sleeping", "none"} : cron' = [cron EXCEPT ![Item(f)] = next]
         ELSE UNCHANGED cron
    /\ UNCHANGED <<reg, gen, watcher, dropped>>

\* Mutant of DrainEnds: the CancelledError is not raised again.
DrainSwallowsCancel(f) ==
    /\ fire[f] = "draining"
    /\ Cleanup(f)
    /\ cron' = IF f = CronFire(Item(f)) THEN [cron EXCEPT ![Item(f)] = "sleeping"] ELSE cron
    /\ UNCHANGED <<reg, gen, watcher, dropped>>

\* The drain after a cancellation: bus.send ends or the drain timeout abandons
\* it; either way finally runs and the cancelled task is over.
DrainEnds(f) ==
    /\ fire[f] = "draining"
    /\ Cleanup(f)
    /\ cron' = IF f = CronFire(Item(f)) THEN [cron EXCEPT ![Item(f)] = "none"] ELSE cron
    /\ UNCHANGED <<reg, gen, watcher, dropped>>

-----------------------------------------------------------------------------
(* run_job *)

\* The next tick: skipped while the item is running, otherwise a fire that
\* takes a permit without suspending when there is one.
CronTick(i) ==
    /\ cron[i] = "sleeping"
    /\ ~running[i]
    /\ cron' = [cron EXCEPT ![i] = "firing"]
    /\ IF permits > 0
         THEN Start(CronFire(i))
         ELSE /\ fire' = [fire EXCEPT ![CronFire(i)] = "queued"]
              /\ UNCHANGED <<running, permits, checkpoint>>
    /\ UNCHANGED <<reg, gen, watcher, dropped>>

\* A cancellation reaches the task where it is suspended.
Cancelled(i) ==
    /\ cron[i] = "cancelled"
    /\ fire[CronFire(i)] # "draining"
    /\ IF fire[CronFire(i)] = "sending"
         THEN /\ fire' = [fire EXCEPT ![CronFire(i)] = "draining"]
              /\ UNCHANGED cron
         ELSE /\ fire' = [fire EXCEPT ![CronFire(i)] = "off"]
              /\ cron' = [cron EXCEPT ![i] = "none"]
    /\ UNCHANGED <<reg, gen, running, permits, checkpoint, watcher, dropped>>

-----------------------------------------------------------------------------
(* JobRunner *)

\* Mutant of Unregister: the old task is not cancelled.
UnregisterKeepsTask(p) ==
    /\ reg' = [reg EXCEPT ![p] = None]
    /\ UNCHANGED cron

\* _unregister: pop the item and cancel its task.
Unregister(p) ==
    /\ reg' = [reg EXCEPT ![p] = None]
    /\ cron' = IF reg[p] # None /\ cron[reg[p]] # "none"
                 THEN [cron EXCEPT ![reg[p]] = "cancelled"]
                 ELSE cron

\* A file was created or modified and parsed: _register up to the await of the
\* cancelled task.  The watcher handles one change at a time.
Change(p) ==
    /\ watcher = None
    /\ gen[p] < MaxGen
    /\ gen' = [gen EXCEPT ![p] = @ + 1]
    /\ watcher' = <<<<p, gen[p] + 1>>, reg[p]>>
    /\ Unregister(p)
    /\ UNCHANGED <<running, fire, permits, checkpoint, dropped>>

\* Mutant of Awaited: the new task is created at once.
AwaitedNothing(old) == TRUE

\* gather(cancelled): the task _unregister returned, if any.
Awaited(old) == old # None => cron[old] = "none"

\* The rest of _register: list the item, and schedule it when it is enabled.
Registered(i) ==
    /\ watcher # None
    /\ watcher[1] = i
    /\ Awaited(watcher[2])
    /\ watcher' = None
    /\ reg' = [reg EXCEPT ![i[1]] = i]
    /\ \E enabled \in BOOLEAN :
          cron' = IF enabled THEN [cron EXCEPT ![i] = "sleeping"] ELSE cron
    /\ UNCHANGED <<gen, running, fire, permits, checkpoint, dropped>>

\* A file was removed: _unregister, and nobody awaits the cancelled task.
Delete(p) ==
    /\ watcher = None
    /\ reg[p] # None
    /\ Unregister(p)
    /\ dropped' = dropped \cup {reg[p]}
    /\ UNCHANGED <<gen, running, fire, permits, checkpoint, watcher>>

-----------------------------------------------------------------------------
\* jobs_run_handler: 404 and 409 leave no trace, nor does a request that
\* track_background sheds; otherwise _execute_job is scheduled as a background
\* task that has not run when 202 is answered.
AdHocRun(f) ==
    /\ f[2] \in AdHocs
    /\ fire[f] = "off"
    /\ reg[PathOf(f)] = Item(f)
    /\ ~running[Item(f)]
    /\ fire' = [fire EXCEPT ![f] = "queued"]
    /\ UNCHANGED <<reg, gen, cron, running, permits, checkpoint, watcher, dropped>>

\* track_background's timeout cancels the task where it is suspended.
AdHocTimesOut(f) ==
    /\ f[2] \in AdHocs
    /\ fire[f] \in {"queued", "sending"}
    /\ fire' = [fire EXCEPT ![f] = IF @ = "sending" THEN "draining" ELSE "off"]
    /\ UNCHANGED <<reg, gen, cron, running, permits, checkpoint, watcher, dropped>>

Next ==
    \/ \E f \in Fires : Begin(f) \/ SendEnds(f) \/ DrainEnds(f)
                         \/ AdHocRun(f) \/ AdHocTimesOut(f)
    \/ \E i \in Items : CronTick(i) \/ Cancelled(i) \/ Registered(i)
    \/ \E p \in Paths : Change(p) \/ Delete(p)

Spec == Init /\ [][Next]_vars

(* The event loop runs ready tasks; bus.send and the drain are bounded;    *)
(* asyncio.Semaphore wakes its waiters first in, first out.                *)
Fairness ==
    /\ \A f \in Fires : SF_vars(Begin(f)) /\ WF_vars(SendEnds(f)) /\ WF_vars(DrainEnds(f))
    /\ \A i \in Items : WF_vars(Cancelled(i)) /\ WF_vars(Registered(i))

LiveSpec == Spec /\ Fairness

-----------------------------------------------------------------------------
(* Permits are conserved: each is free or held by one fire between its     *)
(* acquire and its finally, through errors, cancellations and drains.      *)
PermitsConserved ==
    permits + Cardinality({f \in Fires : Active(f)}) = MaxFires

(* A job file never has two live schedules: an item whose loop is asleep   *)
(* or firing is the registered one.                                        *)
NoOrphanSchedule ==
    \A i \in Items : cron[i] \in {"sleeping", "firing"} => reg[i[1]] = i

(* The scheduled fires of one job never overlap, not even across a hot     *)
(* reload: _register waits for the task it replaces.  Only a file that is  *)
(* removed and created again escapes, for nobody awaits the removed task.  *)
NoOverlap ==
    \A i, j \in Items \ dropped :
        Active(CronFire(i)) /\ Active(CronFire(j)) /\ i[1] = j[1] => i = j

(* "409 if the job is already running": the flag the endpoint and the cron *)
(* loop consult is set while a fire of the item is under way.              *)
RunningFlagTruthful == \A f \in Fires : Active(f) => running[Item(f)]

(* A fire that was scheduled ends: started, or dropped with its schedule.  *)
FireEnds == \A f \in Fires : []<>(fire[f] = "off")

(* A hot reload completes: the watcher is not held up for ever by the task *)
(* it cancelled.                                                           *)
ReloadCompletes == []<>(watcher = None)

(* What a fire may rely on, whatever the order of ticks, reloads, removals *)
(* and ad-hoc runs: permits are conserved, a file has one live schedule    *)
(* and its scheduled fires do not overlap (jobs.py, _execute_job).         *)
JobsSafe == PermitsConserved /\ NoOrphanSchedule /\ NoOverlap

(* Fires end and hot reloads complete (jobs.py, run_job and _register).    *)
JobsProgress == FireEnds /\ ReloadCompletes
=============================================================================
