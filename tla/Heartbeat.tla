------------------------------ MODULE Heartbeat ------------------------------
(***************************************************************************)
(* harness/heartbeat.py: the cron loop of HEARTBEAT.md (_run_loop), the    *)
(* watcher that replaces it when the file changes (heartbeat_runner,       *)
(* _stop_and_join), and the ad-hoc endpoint of harness/main.py.            *)
(*                                                                         *)
(* A cron expression is a period in ticks.  The wall clock may step back;  *)
(* a sleep is measured by the monotonic clock.  Loops are numbered in the  *)
(* order they are created; all of them share one stop_event.               *)
(***************************************************************************)
EXTENDS Naturals, FiniteSetsExt

CONSTANTS
    HbFiles,      \* contents of HEARTBEAT.md: [load: on | off | raises, every: period]
    HbEnds,       \* bound on how often the watch ends
    HbEdits,      \* bound on the edits of the file
    HbClock,      \* bound on the wall clock
    HbSkews       \* bound on the steps back

(* A schedule has a period.  The bounds are numbers.                       *)
HeartbeatAssumption ==
    /\ \A f \in HbFiles : f.load = "on" => f.every \in Nat \ {0}
    /\ HbEnds \in Nat /\ HbEdits \in Nat /\ HbClock \in Nat

VARIABLES
    hbfile,       \* HEARTBEAT.md
    clock,        \* wall clock
    hb,           \* the loops: at, every (schedule), last (last_scheduled),
                  \*   left (ticks until the sleep is over)
    cur,          \* loop_task, 0 for None
    born,         \* loops created so far
    stopEvent,
    hbwatch,      \* the watcher: watching, join, rejoin, rest (the ten seconds)
    pending,      \* the watcher has a change to handle
    slot,         \* the bus holds a message of kind "heartbeat": its loop, or adhoc
    hbReady,      \* backends_ready
    edits, ends, skews,
    missed,       \* history: the file changed while nobody watched it, and was not read since
    crashed,      \* history: the current loop raised
    double        \* history: a loop sent twice for one tick of its schedule

hbvars == <<hbfile, clock, hb, cur, born, stopEvent, hbwatch, pending, slot, hbReady,
            edits, ends, skews, missed, crashed, double>>

LoopIds == 1..(1 + HbEdits + HbEnds)
Unborn == [at |-> "none", every |-> 0, last |-> 0, left |-> 0]

\* A loop as it is created: it waits for the backends first.
Warm(every) == [at |-> "warm", every |-> every, last |-> 0, left |-> 0]

\* croniter(schedule, anchor).get_next
GetNext(every, anchor) == ((anchor \div every) + 1) * every

\* Mutant of Anchor: the wall clock alone.
AnchorNow(l) == clock

\* Never before the tick scheduled last, even if the clock stepped back.
Anchor(l) == Max({clock, hb[l].last})

\* The loop returns or dies.
Ends(l) == [hb EXCEPT ![l] = [at |-> "over", every |-> hb[l].every, last |-> 0, left |-> 0]]

\* The top of the loop: sleep until the next tick, or leave when stopped.
Schedule(l) ==
    LET next == GetNext(hb[l].every, Anchor(l))
    IN  IF stopEvent THEN Ends(l)
        ELSE [hb EXCEPT ![l] = [at |-> "asleep", every |-> hb[l].every, last |-> next,
                                left |-> IF next > clock THEN next - clock ELSE 0]]

HbInit ==
    /\ hbfile \in HbFiles
    /\ clock = 0
    /\ born = IF hbfile.load = "on" THEN 1 ELSE 0
    /\ cur = born
    /\ hb = [l \in LoopIds |-> IF l <= born THEN Warm(hbfile.every) ELSE Unborn]
    /\ stopEvent = FALSE
    /\ hbwatch = "rest"
    /\ pending = FALSE
    /\ slot = "free"
    /\ hbReady = FALSE
    /\ edits = 0 /\ ends = 0 /\ skews = 0
    /\ missed = FALSE /\ crashed = FALSE /\ double = FALSE

-----------------------------------------------------------------------------
(* _run_loop *)

BackendsReady == /\ ~hbReady
                 /\ hbReady' = TRUE
                 /\ UNCHANGED <<hbfile, clock, hb, cur, born, stopEvent, hbwatch, pending, slot,
                                edits, ends, skews, missed, crashed, double>>

Warmed(l) ==
    /\ hb[l].at = "warm"
    /\ hbReady
    /\ hb' = Schedule(l)
    /\ UNCHANGED <<hbfile, clock, cur, born, stopEvent, hbwatch, pending, slot, hbReady,
                   edits, ends, skews, missed, crashed, double>>

\* Mutant of StopSeen: the loop is not woken from its wait for the answer.
StopSeenIdle(l) ==
    /\ stopEvent
    /\ hb[l].at \in {"warm", "asleep"}
    /\ hb' = Ends(l)
    /\ UNCHANGED <<hbfile, clock, cur, born, stopEvent, hbwatch, pending, slot, hbReady,
                   edits, ends, skews, missed, crashed, double>>

\* stop_event ends the wait for the backends, the sleep and the wait for the
\* answer, or _stop_and_join cancels the loop: the message is left to the bus.
StopSeen(l) ==
    /\ stopEvent
    /\ hb[l].at \in {"warm", "asleep", "sending"}
    /\ hb' = Ends(l)
    /\ UNCHANGED <<hbfile, clock, cur, born, stopEvent, hbwatch, pending, slot, hbReady,
                   edits, ends, skews, missed, crashed, double>>

\* The sleep is over: the file is read again, and the message is sent unless
\* the file is off or unreadable or a heartbeat is still on the bus.
Wakes(l) ==
    /\ hb[l].at = "asleep"
    /\ hb[l].left = 0
    /\ ~stopEvent
    /\ \/ /\ hbfile.load # "on" \/ slot # "free"
          /\ hb' = Schedule(l)
          /\ UNCHANGED <<slot, crashed, double>>
       \/ /\ hbfile.load = "on" /\ slot = "free"
          /\ hb' = [hb EXCEPT ![l].at = "sending"]
          /\ slot' = "loop"
          /\ UNCHANGED <<crashed, double>>
       \/ /\ hbfile.load = "on"      \* resolving the prompt raises: the loop dies
          /\ hb' = Ends(l)
          /\ crashed' = TRUE
          /\ UNCHANGED <<slot, double>>
    /\ UNCHANGED <<hbfile, clock, cur, born, stopEvent, hbwatch, pending, hbReady,
                   edits, ends, skews, missed>>

\* The answer, or an error: the loop goes on with its schedule.
Answered(l) ==
    /\ hb[l].at = "sending"
    /\ slot # "loop"
    /\ hb' = Schedule(l)
    /\ double' = (double \/ (~stopEvent /\ hb[l].last = GetNext(hb[l].every, Anchor(l))))
    /\ UNCHANGED <<hbfile, clock, cur, born, stopEvent, hbwatch, pending, slot, hbReady,
                   edits, ends, skews, missed, crashed>>

\* The bus worker is done with the message.
BusDone ==
    /\ slot # "free"
    /\ slot' = "free"
    /\ UNCHANGED <<hbfile, clock, hb, cur, born, stopEvent, hbwatch, pending, hbReady,
                   edits, ends, skews, missed, crashed, double>>

\* heartbeat_run_handler: 503 before the backends are ready, 404 for a file that
\* is off, 409 while a heartbeat is on the bus.
AdHoc ==
    /\ hbReady
    /\ hbfile.load = "on"
    /\ slot = "free"
    /\ slot' = "adhoc"
    /\ UNCHANGED <<hbfile, clock, hb, cur, born, stopEvent, hbwatch, pending, hbReady,
                   edits, ends, skews, missed, crashed, double>>

-----------------------------------------------------------------------------
(* heartbeat_runner *)

Alive(l) == hb[l].at \in {"warm", "asleep", "sending"}

\* load_heartbeat and a new loop, if the file is on; n is the watcher's next place.
Reload(n) ==
    /\ hbwatch' = n
    /\ crashed' = FALSE /\ missed' = FALSE
    /\ IF hbfile.load = "on"
         THEN /\ born' = born + 1
              /\ cur' = born + 1
              /\ hb' = [hb EXCEPT ![born + 1] = Warm(hbfile.every)]
         ELSE cur' = 0 /\ UNCHANGED <<born, hb>>

\* A change of HEARTBEAT.md, or the end of the watch: tell the loop to stop and
\* join it, or go on at once when there is none.
StopAndJoin(n) ==
    IF cur # 0 /\ Alive(cur)
      THEN /\ stopEvent' = TRUE
           /\ hbwatch' = IF n = "watching" THEN "join" ELSE "rejoin"
           /\ pending' = FALSE
           /\ UNCHANGED <<cur, born, hb, crashed, missed>>
      ELSE /\ pending' = FALSE
           /\ Reload(n)
           /\ UNCHANGED stopEvent

Changed ==
    /\ hbwatch = "watching" /\ pending
    /\ StopAndJoin("watching")
    /\ UNCHANGED <<hbfile, clock, slot, hbReady, edits, ends, skews, double>>

WatchEnds ==
    /\ hbwatch = "watching"
    /\ ends < HbEnds
    /\ ends' = ends + 1
    /\ StopAndJoin("rest")
    /\ UNCHANGED <<hbfile, clock, slot, hbReady, edits, skews, double>>

\* Mutant of ClearStop: the event stays set.
ClearStopNot == UNCHANGED stopEvent

ClearStop == stopEvent' = FALSE

\* The loop is over, by itself or cancelled after HEARTBEAT_STOP_JOIN_TIMEOUT.
Joined ==
    /\ hbwatch \in {"join", "rejoin"}
    /\ ~Alive(cur)
    /\ ClearStop
    /\ Reload(IF hbwatch = "join" THEN "watching" ELSE "rest")
    /\ UNCHANGED <<hbfile, clock, pending, slot, hbReady, edits, ends, skews, double>>

\* The first look at the directory, and every one after ten seconds of rest.
Watch ==
    /\ hbwatch = "rest"
    /\ hbwatch' = "watching"
    /\ UNCHANGED <<hbfile, clock, hb, cur, born, stopEvent, pending, slot, hbReady,
                   edits, ends, skews, missed, crashed, double>>

-----------------------------------------------------------------------------
\* The file changes; awatch tells of it only while it watches.
Edit ==
    /\ edits < HbEdits
    /\ edits' = edits + 1
    /\ \E f \in HbFiles : f # hbfile /\ hbfile' = f
    /\ IF hbwatch = "rest" THEN missed' = TRUE /\ UNCHANGED pending
                           ELSE pending' = TRUE /\ UNCHANGED missed
    /\ UNCHANGED <<clock, hb, cur, born, stopEvent, hbwatch, slot, hbReady, ends, skews, crashed, double>>

Passes(back) ==
    /\ \A l \in LoopIds : hb[l].at = "asleep" => hb[l].left > 0
    /\ hb' = [l \in LoopIds |-> IF hb[l].at = "asleep" THEN [hb[l] EXCEPT !.left = @ - 1] ELSE hb[l]]
    /\ IF back THEN /\ skews < HbSkews /\ clock > 0
                    /\ skews' = skews + 1 /\ clock' = clock - 1
               ELSE clock < HbClock /\ clock' = clock + 1 /\ UNCHANGED skews
    /\ UNCHANGED <<hbfile, cur, born, stopEvent, hbwatch, pending, slot, hbReady,
                   edits, ends, missed, crashed, double>>

HbNext ==
    \/ BackendsReady
    \/ \E l \in LoopIds : Warmed(l) \/ StopSeen(l) \/ Wakes(l) \/ Answered(l)
    \/ BusDone
    \/ AdHoc
    \/ Changed
    \/ WatchEnds
    \/ Joined
    \/ Watch
    \/ Edit
    \/ \E back \in BOOLEAN : Passes(back)

\* The event loop runs ready tasks; the wait in _stop_and_join is bounded.
HbFairness ==
    /\ WF_hbvars(Changed) /\ WF_hbvars(Joined) /\ WF_hbvars(Watch)
    /\ \A l \in LoopIds : WF_hbvars(StopSeen(l))

HbSpec == HbInit /\ [][HbNext]_hbvars /\ HbFairness

-----------------------------------------------------------------------------
HbTypeOK ==
    /\ hbfile \in HbFiles
    /\ clock \in 0..HbClock
    /\ cur \in 0..born /\ born \in 0..Cardinality(LoopIds)
    /\ \A l \in LoopIds : hb[l].at \in {"none", "warm", "asleep", "sending", "over"}
    /\ hbwatch \in {"watching", "join", "rejoin", "rest"}
    /\ slot \in {"free", "loop", "adhoc"}

(* While the watcher is at rest and knows the file, the heartbeat beats as *)
(* the file says: exactly one loop is alive and has the file's schedule,   *)
(* or none if the file is off.  An old loop is never left behind, and a    *)
(* new one does not inherit the old one's stop request.                    *)
BeatsAsTheFileSays ==
    hbwatch \in {"watching", "rest"} /\ ~pending /\ ~missed /\ ~crashed =>
        {hb[l].every : l \in {k \in LoopIds : Alive(k)}} =
            (IF hbfile.load = "on" THEN {hbfile.every} ELSE {})

(* A loop never sends twice for one tick of its schedule, although the     *)
(* wall clock may step back between two iterations (#659).                 *)
TickOnce == ~double

(* A change of the file is handled: a heartbeat that hangs on the bus does *)
(* not hold up the reload.                                                 *)
ChangeHandled == []<>~pending
=============================================================================
