-------------------------------- MODULE Tasks --------------------------------
(***************************************************************************)
(* harness/tasks.py: tasks that run once or in a daily window (TaskRunner, *)
(* run_task), and the ad-hoc endpoint of harness/main.py, which starts a   *)
(* second run_task for the registered item.                                *)
(*                                                                         *)
(* One task file.  Time is counted in slots of a day; parsing the file     *)
(* again makes a new item (a generation).  A loop is one run_task: the one *)
(* an item is scheduled with, or one an ad-hoc request started.  A sleep   *)
(* ends within the slot it is due in.  Daylight saving is left out.        *)
(***************************************************************************)
EXTENDS Integers, FiniteSetsExt

CONSTANTS
    SlotsPerDay,
    Horizon,      \* bound on the clock
    TaskFiles,    \* contents the file may have: records as in Parse
    TaskGens,     \* bound on how often the file is parsed
    TaskCap,      \* TASKS_MAX_CONCURRENT; 0 is no limit
    Unset         \* None

\* window-start is a time of day.
TaskAssumption ==
    /\ SlotsPerDay \in Nat \ {0} /\ Horizon \in Nat /\ TaskGens \in Nat
    /\ Unset \notin Int
    /\ \A f \in TaskFiles :
          (f.opens \in 0..(SlotsPerDay - 1) \/ f.opens = Unset) /\ f.gap \in Nat

VARIABLES
    now,          \* the clock, in slots
    item,         \* the TaskItem of a generation
    treg,         \* TaskRunner._items: the registered generation, 0 for none
    tgen,
    tpc,          \* where a loop is
    wake,         \* when a sleeping loop wakes
    trunning,     \* TaskItem.running
    tpermits,     \* the semaphore
    mark,         \* the .running.json checkpoint exists
    twatch,       \* the watcher: idle, or what it does once a task is over
    fired,        \* history: the opening a loop last fired for
    again,        \* history: a loop fired twice for one opening
    swept         \* history: somebody else than the run that wrote it may have
                  \*   removed the checkpoint

taskvars == <<now, item, treg, tgen, tpc, wake, trunning, tpermits, mark, twatch,
              fired, again, swept>>

Gens == 1..TaskGens
Loops == Gens \X {"sched", "adhoc"}
Gen(l) == l[1]
Never == Horizon + SlotsPerDay * 2

Day(t) == t \div SlotsPerDay
Slot(t) == t % SlotsPerDay

-----------------------------------------------------------------------------
(* parse_task_file.  A file says: enabled, valid (time zone, days and       *)
(* window-start parse), days, until (the end date), opens (window-start),   *)
(* lasts (window-duration), repeat (loop), gap (loop-gap).                  *)

Disabled == [armed |-> FALSE, opens |-> Unset, closes |-> Unset, repeat |-> FALSE,
             gap |-> 0, days |-> {}, until |-> Unset]

\* window-start, window-duration and loop, as the item keeps them.
ParseWindow(f) ==
    [armed |-> TRUE, opens |-> f.opens,
     closes |-> IF f.lasts = Unset THEN Unset ELSE Slot(f.opens + f.lasts),
     repeat |-> f.repeat /\ f.lasts # Unset,
     gap |-> f.gap, days |-> f.days, until |-> f.until]

\* Unset for a file that is rejected: the registration it had stays.
Parse(f) ==
    CASE ~f.enabled                            -> Disabled
      [] ~f.valid                              -> Unset
      [] f.lasts # Unset /\ f.opens = Unset    -> Unset
      [] OTHER                                 -> ParseWindow(f)

-----------------------------------------------------------------------------
(* The window. *)

DayMatches(i, d) == d \in i.days /\ (i.until # Unset => d <= i.until)

Spans(i) == i.closes # Unset /\ i.closes < i.opens

InsideWindow(i, t) ==
    /\ DayMatches(i, Day(t))
    /\ IF Spans(i)
         THEN Slot(t) >= i.opens \/ Slot(t) < i.closes
         ELSE Slot(t) >= i.opens /\ (i.closes # Unset => Slot(t) < i.closes)

\* Mutant of FirstDay: today never counts.
FirstDayTomorrow(i, t) == Day(t) + 1

\* _next_window_open: the first day looked at.  In the early-morning tail of a
\* window that spans midnight, and from window-start on, it is tomorrow.
FirstDay(i, t) ==
    IF (Spans(i) /\ Slot(t) < i.closes) \/ Slot(t) >= i.opens THEN Day(t) + 1 ELSE Day(t)

\* Mutant of NextWindowOpen: today's opening is taken although it is past.
NextWindowOpenToday(i, t) ==
    LET ds == {d \in Day(t)..Day(Never) : DayMatches(i, d)}
    IN  IF ds = {} THEN Unset ELSE Min(ds) * SlotsPerDay + i.opens

NextWindowOpen(i, t) ==
    LET ds == {d \in FirstDay(i, t)..Day(Never) : DayMatches(i, d)}
    IN  IF ds = {} THEN Unset ELSE Min(ds) * SlotsPerDay + i.opens

\* The latest opening at or before t: what a fire at t is for.
OpeningOf(i, t) ==
    IF Slot(t) >= i.opens THEN Day(t) * SlotsPerDay + i.opens
                          ELSE (Day(t) - 1) * SlotsPerDay + i.opens

-----------------------------------------------------------------------------
TaskInit ==
    /\ now = 0
    /\ item = [g \in Gens |-> Disabled]
    /\ treg = 0
    /\ tgen = 0
    /\ tpc = [l \in Loops |-> "off"]
    /\ wake = [l \in Loops |-> 0]
    /\ trunning = [g \in Gens |-> FALSE]
    /\ tpermits = TaskCap
    /\ mark = FALSE
    /\ twatch = [does |-> "idle", awaits |-> 0]
    /\ fired = [l \in Loops |-> -Horizon]
    /\ again = FALSE
    /\ swept = FALSE

Holding(l) == tpc[l] \in {"sending", "gap", "draining"}
Limited == TaskCap > 0

\* The loop passes the running check at time t and has its permit: it is
\* marked running, writes the checkpoint and sends.
Fire(l) ==
    /\ tpc' = [tpc EXCEPT ![l] = "sending"]
    /\ trunning' = [trunning EXCEPT ![Gen(l)] = TRUE]
    /\ tpermits' = IF Limited THEN tpermits - 1 ELSE tpermits
    /\ mark' = TRUE
    /\ fired' = IF item[Gen(l)].opens = Unset THEN fired
                ELSE [fired EXCEPT ![l] = OpeningOf(item[Gen(l)], now)]
    /\ wake' = [wake EXCEPT ![l] = 0]
    /\ again' = (again \/ (/\ item[Gen(l)].opens # Unset
                           /\ tpc[l] = "asleep"
                           /\ fired[l] = OpeningOf(item[Gen(l)], now)))

Queue(l) ==
    /\ tpc' = [tpc EXCEPT ![l] = "queued"]
    /\ UNCHANGED <<trunning, tpermits, mark, fired, again, wake>>

\* acquire() suspends only when no permit is there.
FireOrQueue(l) == IF Limited /\ tpermits = 0 THEN Queue(l) ELSE Fire(l)

\* Back to the top of the outer loop: sleep until the next window, or end when
\* there is none.
Sleep(l) ==
    LET open == NextWindowOpen(item[Gen(l)], now)
    IN  IF open = Unset
          THEN tpc' = [tpc EXCEPT ![l] = "off"] /\ wake' = [wake EXCEPT ![l] = 0]
          ELSE /\ tpc' = [tpc EXCEPT ![l] = "asleep"]
               /\ wake' = [wake EXCEPT ![l] = open]

\* The first steps of run_task: once, or at once inside the window, or asleep.
\* A stale checkpoint is removed and changes nothing else.
Start(l) ==
    LET i == item[Gen(l)]
    IN  /\ tpc[l] = "new"
        /\ IF i.opens = Unset \/ (InsideWindow(i, now) /\ ~trunning[Gen(l)])
             THEN FireOrQueue(l)
             ELSE /\ Sleep(l)
                  /\ mark' = FALSE
                  /\ UNCHANGED <<trunning, tpermits, fired, again>>
        /\ UNCHANGED <<now, item, treg, tgen, twatch, swept>>

\* The window opens; a run of the item that is still going makes this one skip
\* to the next window.
Opens(l) ==
    /\ tpc[l] = "asleep"
    /\ wake[l] = now
    /\ IF trunning[Gen(l)]
         THEN Sleep(l) /\ UNCHANGED <<trunning, tpermits, mark, fired, again>>
         ELSE FireOrQueue(l)
    /\ UNCHANGED <<now, item, treg, tgen, twatch, swept>>

Granted(l) ==
    /\ tpc[l] = "queued"
    /\ tpermits > 0
    /\ Fire(l)
    /\ UNCHANGED <<now, item, treg, tgen, twatch, swept>>

\* The finally clause of a fire.
CleanUp(l) ==
    /\ trunning' = [trunning EXCEPT ![Gen(l)] = FALSE]
    /\ tpermits' = IF Limited THEN tpermits + 1 ELSE tpermits
    /\ mark' = FALSE

\* bus.send ends.  A looping task goes on after its gap, unless the send failed,
\* the answer holds the done-when text, or the window has closed.
SendEnds(l) ==
    LET i == item[Gen(l)]
    IN  /\ tpc[l] = "sending"
        /\ \/ /\ i.repeat
              /\ InsideWindow(i, now)
              /\ tpc' = [tpc EXCEPT ![l] = "gap"]
              /\ wake' = [wake EXCEPT ![l] = now + i.gap]
              /\ UNCHANGED <<trunning, tpermits, mark>>
           \/ /\ CleanUp(l)
              /\ IF i.opens = Unset THEN tpc' = [tpc EXCEPT ![l] = "off"] /\ UNCHANGED wake
                                    ELSE Sleep(l)
        /\ UNCHANGED <<now, item, treg, tgen, twatch, fired, again, swept>>

\* The gap is over: another iteration, or the window has closed meanwhile.
GapOver(l) ==
    /\ tpc[l] = "gap"
    /\ wake[l] <= now
    /\ IF InsideWindow(item[Gen(l)], now)
         THEN /\ tpc' = [tpc EXCEPT ![l] = "sending"]
              /\ wake' = [wake EXCEPT ![l] = 0]
              /\ UNCHANGED <<trunning, tpermits, mark>>
         ELSE CleanUp(l) /\ Sleep(l)
    /\ UNCHANGED <<now, item, treg, tgen, twatch, fired, again, swept>>

\* A cancelled loop that was sending waits, for a bounded time, for the send.
Drained(l) ==
    /\ tpc[l] = "draining"
    /\ CleanUp(l)
    /\ tpc' = [tpc EXCEPT ![l] = "off"]
    /\ UNCHANGED <<now, item, treg, tgen, twatch, wake, fired, again, swept>>

-----------------------------------------------------------------------------
(* TaskRunner *)

\* task.cancel(): a sending loop drains, a loop in its gap runs its finally
\* clause, any other is simply over.
Cancel(l) ==
    CASE tpc[l] = "sending" -> /\ tpc' = [tpc EXCEPT ![l] = "draining"]
                               /\ UNCHANGED <<trunning, tpermits, mark>>
      [] tpc[l] = "gap"     -> tpc' = [tpc EXCEPT ![l] = "off"] /\ CleanUp(l)
      [] tpc[l] = "draining" -> UNCHANGED <<tpc, trunning, tpermits, mark>>
      [] OTHER              -> /\ tpc' = [tpc EXCEPT ![l] = "off"]
                               /\ UNCHANGED <<trunning, tpermits, mark>>

Unregister ==
    /\ treg' = 0
    /\ IF treg = 0 THEN UNCHANGED <<tpc, trunning, tpermits, mark>>
                   ELSE Cancel(<<treg, "sched">>)

\* The file was created or changed: _register up to the await of the old task.
Change(f) ==
    /\ twatch.does = "idle"
    /\ Parse(f) # Unset
    /\ tgen < TaskGens
    /\ tgen' = tgen + 1
    /\ item' = [item EXCEPT ![tgen + 1] = Parse(f)]
    /\ twatch' = [does |-> "register", awaits |-> treg]
    /\ Unregister
    /\ UNCHANGED <<now, wake, fired, again, swept>>

\* Mutant of AwaitOver: the cancelled task is not awaited.
AwaitNothing == TRUE

AwaitOver == twatch.awaits # 0 => tpc[<<twatch.awaits, "sched">>] = "off"

\* The rest of _register: list the item and, if it is enabled, start its loop.
Registered ==
    /\ twatch.does = "register"
    /\ AwaitOver
    /\ treg' = tgen
    /\ twatch' = [does |-> "idle", awaits |-> 0]
    /\ tpc' = IF item[tgen].armed THEN [tpc EXCEPT ![<<tgen, "sched">>] = "new"] ELSE tpc
    /\ UNCHANGED <<now, item, tgen, wake, trunning, tpermits, mark, fired, again, swept>>

\* The file was removed: nobody awaits the cancelled task.
Delete ==
    /\ twatch.does = "idle"
    /\ treg # 0
    /\ Unregister
    /\ swept' = TRUE
    /\ UNCHANGED <<now, item, tgen, twatch, wake, fired, again>>

\* The directory went away and came back: _cleanup, then _scan, which removes
\* every checkpoint before it registers the files.
WatcherExits ==
    /\ twatch.does = "idle"
    /\ Unregister
    /\ twatch' = [does |-> "scan", awaits |-> treg]
    /\ UNCHANGED <<now, item, tgen, wake, fired, again, swept>>

Scan ==
    /\ twatch.does = "scan"
    /\ AwaitOver
    /\ twatch' = [does |-> "idle", awaits |-> 0]
    /\ mark' = FALSE
    /\ swept' = (swept \/ \E l \in Loops : Holding(l))
    /\ UNCHANGED <<now, item, treg, tgen, tpc, wake, trunning, tpermits, fired, again>>

\* tasks_run_handler: 404 and 409, else a run_task of its own, which has not
\* begun when 202 is answered (one at a time here).  A disabled item has no window and runs once.
AdHoc ==
    /\ treg # 0
    /\ ~trunning[treg]
    /\ \A g \in Gens : tpc[<<g, "adhoc">>] = "off"
    /\ tpc' = [tpc EXCEPT ![<<treg, "adhoc">>] = "new"]
    /\ swept' = TRUE
    /\ UNCHANGED <<now, item, treg, tgen, twatch, wake, trunning, tpermits, mark, fired, again>>

\* track_background's timeout.
AdHocTimesOut(l) ==
    /\ l[2] = "adhoc"
    /\ tpc[l] \notin {"off", "draining"}
    /\ Cancel(l)
    /\ UNCHANGED <<now, item, treg, tgen, twatch, wake, fired, again, swept>>

Due(l) == tpc[l] = "new" \/ (tpc[l] = "asleep" /\ wake[l] = now)
Tick ==
    /\ now < Horizon
    /\ \A l \in Loops : ~Due(l)
    /\ now' = now + 1
    /\ UNCHANGED <<item, treg, tgen, tpc, wake, trunning, tpermits, mark, twatch, fired, again, swept>>

TaskNext ==
    \/ \E l \in Loops : \/ Start(l) \/ Opens(l) \/ Granted(l) \/ SendEnds(l)
                        \/ GapOver(l) \/ Drained(l) \/ AdHocTimesOut(l)
    \/ \E f \in TaskFiles : Change(f)
    \/ Registered
    \/ Delete
    \/ WatcherExits
    \/ Scan
    \/ AdHoc
    \/ Tick

TaskSpec == TaskInit /\ [][TaskNext]_taskvars

-----------------------------------------------------------------------------
TaskTypeOK ==
    /\ now \in 0..Horizon
    /\ treg \in 0..tgen /\ tgen \in 0..TaskGens
    /\ tpc \in [Loops -> {"off", "new", "asleep", "queued", "sending", "gap", "draining"}]
    /\ wake \in [Loops -> 0..Never]
    /\ trunning \in [Gens -> BOOLEAN]
    /\ tpermits \in 0..TaskCap
    /\ mark \in BOOLEAN
    /\ twatch \in [does : {"idle", "register", "scan"}, awaits : 0..TaskGens]

(* One run of run_task wakes at most once for an opening of the window,    *)
(* whether it fired at once because it started inside the window, skipped, *)
(* or looped: the next opening it sleeps for is a later one.               *)
OncePerWindow == ~again

(* The checkpoint file is there as long as a fire of the task is under     *)
(* way, across reloads, so that an interrupted run can be told after a     *)
(* restart.  Excepted: the file was removed or the directory swept during  *)
(* a fire, or an ad-hoc request started a second run_task, which takes the *)
(* checkpoint of the first for a stale one and which no reload awaits.     *)
CheckpointCoversRun ==
    ~swept => \A l \in Loops : tpc[l] \in {"sending", "gap"} => mark

(* No window is missed: a sleeping loop wakes at the first opening of an   *)
(* eligible day after the moment it went to sleep, for windows that close  *)
(* on the day they open.                                                   *)
Earliest(i, t) ==
    \A o \in (now + 1)..(t - 1) :
        ~(Slot(o) = i.opens /\ DayMatches(i, Day(o)))
NoWindowMissed ==
    \A l \in Loops :
        /\ tpc[l] = "asleep"
        /\ ~Spans(item[Gen(l)])
        => Earliest(item[Gen(l)], wake[l])

(* The same for every window: "so that we schedule the next opening        *)
(* (tonight)" says the comment on windows that span midnight.              *)
OpensTonight == \A l \in Loops : tpc[l] = "asleep" => Earliest(item[Gen(l)], wake[l])
=============================================================================
