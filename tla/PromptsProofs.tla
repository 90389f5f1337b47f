---------------------------- MODULE PromptsProofs ----------------------------
(* Proofs about the components MCPrompts composes: the supervisor for      *)
(* every restart delay and limit, the heartbeat for any contents of        *)
(* HEARTBEAT.md, prompt execution for any requests, configurations and     *)
(* caps.                                                                   *)
EXTENDS MCPrompts, LoopProofs

-----------------------------------------------------------------------------
(* The inductive invariant.  StableMeansReady needs the timer: a worker    *)
(* that runs while the agent is not ready is being watched, because a      *)
(* streak was counted before the restart, and an armed watchdog never sees *)
(* an age beyond Stable, because it fires first.                           *)
CrashCounted == phase = "sleeping" => restarts >= 1
NotReadyIsWatched == phase = "running" /\ started /\ ~ready => watchdog = "armed"
ArmedIsYoung == watchdog = "armed" => age <= Stable
ExitedIsUnwatched == phase = "exited" => watchdog # "armed"

WatchInv ==
    TypeOK /\ CrashCounted /\ NotReadyIsWatched /\ ArmedIsYoung /\ ExitedIsUnwatched

LEMMA Thresholds ==
    Stable \in Nat /\ AgeCap \in Nat /\ Stable < AgeCap /\ Delay \in Nat /\ MaxRestarts \in Nat
BY SupervisorAssumption DEF Stable, AgeCap

LEMMA WatchInvInit == Init => WatchInv
<1> SUFFICES ASSUME Init PROVE WatchInv
  OBVIOUS
<1>1. started \in BOOLEAN /\ ready \in BOOLEAN
  BY Zenon DEF Init
<1>2. TypeOK
  BY <1>1, Thresholds DEF Init, TypeOK
<1>3. NotReadyIsWatched
  BY Zenon DEF Init, NotReadyIsWatched
<1> QED BY <1>2, <1>3 DEF Init, WatchInv, CrashCounted, ArmedIsYoung, ExitedIsUnwatched

LEMMA WatchInvStep == WatchInv /\ [Next]_vars => WatchInv'
<1> SUFFICES ASSUME WatchInv, [Next]_vars PROVE WatchInv'
  OBVIOUS
<1> USE Thresholds
<1>0. TypeOK /\ CrashCounted /\ NotReadyIsWatched /\ ArmedIsYoung /\ ExitedIsUnwatched
  BY DEF WatchInv
<1>1. CASE Tick
  <2>1. /\ age' \in 0..AgeCap /\ (watchdog = "armed" => age' <= Stable)
        /\ slept' \in 0..Delay
    BY <1>0, <1>1 DEF Tick, TypeOK, WatchdogDue, SleepOver, Saturate
  <2>2. UNCHANGED <<phase, restarts, watchdog, started, ready>>
    BY <1>1 DEF Tick
  <2> QED BY <1>0, <2>1, <2>2
          DEF WatchInv, TypeOK, CrashCounted, NotReadyIsWatched, ArmedIsYoung, ExitedIsUnwatched
<1>2. CASE WatchdogFires
  <2>1. watchdog' = "done" /\ UNCHANGED <<phase, age, slept, restarts, started>>
    BY <1>2 DEF WatchdogFires
  <2>2. ready' \in BOOLEAN /\ NotReadyIsWatched'
    BY <1>2, Zenon DEF WatchdogFires, NotReadyIsWatched
  <2> QED BY <1>0, <2>1, <2>2
          DEF WatchInv, TypeOK, CrashCounted, ArmedIsYoung, ExitedIsUnwatched
<1>3. CASE Crash
  <2>1. /\ phase' = "sleeping" /\ slept' = 0
        /\ restarts' \in 0..MaxRestarts + 1 /\ restarts' >= 1
        /\ UNCHANGED <<age, watchdog, started>>
    BY <1>0, <1>3 DEF Crash, TypeOK, Streak, Saturate
  <2>2. ready' \in BOOLEAN
    BY <1>0, <1>3, Zenon DEF Crash, TypeOK
  <2> QED BY <1>0, <2>1, <2>2
          DEF WatchInv, TypeOK, CrashCounted, NotReadyIsWatched, ArmedIsYoung, ExitedIsUnwatched
<1>4. CASE Restart
  <2>1. /\ phase' = "running" /\ age' = 0 /\ slept' = 0 /\ watchdog' = "armed"
        /\ UNCHANGED <<restarts, started, ready>>
    BY <1>0, <1>4 DEF Restart, SleepOver, Watch, CrashCounted, TypeOK
  <2> QED BY <1>0, <2>1
          DEF WatchInv, TypeOK, CrashCounted, NotReadyIsWatched, ArmedIsYoung, ExitedIsUnwatched
<1>5. CASE Exit
  <2>1. /\ phase' = "exited" /\ watchdog' # "armed" /\ watchdog' \in {"none", "armed", "done"}
        /\ UNCHANGED <<age, slept, restarts, started, ready>>
    BY <1>0, <1>5 DEF Exit, CancelWatchdog, TypeOK
  <2> QED BY <1>0, <2>1
          DEF WatchInv, TypeOK, CrashCounted, NotReadyIsWatched, ArmedIsYoung, ExitedIsUnwatched
<1>6. CASE SetReady
  <2>1. UNCHANGED <<phase, age, slept, restarts, watchdog>>
    BY <1>6 DEF SetReady
  <2>2. started' \in BOOLEAN /\ ready' \in BOOLEAN /\ NotReadyIsWatched'
    BY <1>6, Zenon DEF SetReady, NotReadyIsWatched
  <2> QED BY <1>0, <2>1, <2>2
          DEF WatchInv, TypeOK, CrashCounted, ArmedIsYoung, ExitedIsUnwatched
<1>7. CASE UNCHANGED vars
  BY <1>0, <1>7
  DEF vars, WatchInv, TypeOK, CrashCounted, NotReadyIsWatched, ArmedIsYoung, ExitedIsUnwatched
<1> QED BY <1>1, <1>2, <1>3, <1>4, <1>5, <1>6, <1>7 DEF Next

LEMMA WatchInvHolds == Spec => []WatchInv
BY WatchInvInit, WatchInvStep, PTL DEF Spec

-----------------------------------------------------------------------------
(* _guarded's counters and timers stay within their bounds.                *)
THEOREM SupervisorTypeCorrect == Spec => []TypeOK
<1>1. WatchInv => TypeOK
  BY DEF WatchInv
<1> QED BY <1>1, WatchInvHolds, PTL

LEMMA WatchInvSafe == WatchInv => StableMeansReady
BY Thresholds DEF WatchInv, TypeOK, NotReadyIsWatched, ArmedIsYoung, StableMeansReady

(* For every delay and limit, a worker that has run past three restart     *)
(* delays is not left marked not ready (#1311): _recovery_watch was armed  *)
(* when it was restarted and has fired.                                    *)
THEOREM StableMeansReadyHolds == Spec => []StableMeansReady
BY WatchInvSafe, WatchInvHolds, PTL

(* Once the supervised task is gone, no step turns the agent ready or not  *)
(* ready: the finally clause has cancelled the watchdog (#1345).           *)
THEOREM NoLateRecoveryHolds == Spec => NoLateRecovery
<1>1. WatchInv /\ [Next]_vars => [phase = "exited" /\ started => ready' = ready]_vars
  <2> SUFFICES ASSUME WatchInv, [Next]_vars, phase = "exited", started PROVE ready' = ready
    OBVIOUS
  <2>1. watchdog # "armed"
    BY DEF WatchInv, ExitedIsUnwatched
  <2> QED
    BY <2>1 DEF Next, Tick, WatchdogFires, WatchdogDue, Crash, Restart, SleepOver, Exit,
                SetReady, vars
<1> QED BY <1>1, WatchInvHolds, PTL DEF Spec, NoLateRecovery

-----------------------------------------------------------------------------
(* The heartbeat, for any contents of HEARTBEAT.md, any edits, ends of the *)
(* watch and steps of the clock.                                           *)
Loops == [at : {"none", "warm", "asleep", "sending", "over"}, every : Nat, last : Nat, left : Nat]
Going == {"warm", "asleep", "sending"}
Bit(b) == IF b THEN 1 ELSE 0

BeatTypes ==
    /\ hbfile \in HbFiles
    /\ clock \in 0..HbClock
    /\ hb \in [B!LoopIds -> Loops]
    /\ born \in Nat /\ cur \in 0..born
    /\ edits \in 0..HbEdits /\ ends \in 0..HbEnds
    /\ hbwatch \in {"watching", "join", "rejoin", "rest"}
    /\ slot \in {"free", "loop", "adhoc"}
BeatFlags ==
    stopEvent \in BOOLEAN /\ pending \in BOOLEAN /\ missed \in BOOLEAN /\ crashed \in BOOLEAN

(* Every reload is paid for by an edit or by an end of the watch, so that  *)
(* there is a number left for the next loop.                               *)
Joining == hbwatch \in {"join", "rejoin"}
NumbersLeft == born + Bit(pending) + Bit(Joining) <= 1 + edits + ends

(* The loop that is alive is the current one, and has a period.            *)
OneLoop ==
    /\ \A l \in B!LoopIds : hb[l].at \in Going => l = cur /\ hb[l].every # 0
    /\ \A l \in B!LoopIds : l > born => hb[l].at = "none"

(* The event is set exactly while the watcher joins a loop, so a new loop  *)
(* never sees the old one's stop request.                                  *)
StopOnlyToJoin ==
    /\ stopEvent <=> Joining
    /\ Joining => cur # 0
    /\ ~Joining /\ ~crashed /\ cur # 0 => hb[cur].at \in Going

(* What the watcher knows of the file is what the current loop follows.    *)
KnownIsFollowed ==
    ~Joining /\ ~pending /\ ~missed =>
        IF hbfile.load = "on" THEN cur # 0 /\ hb[cur].every = hbfile.every ELSE cur = 0

BeatInv ==
    /\ BeatTypes /\ BeatFlags
    /\ NumbersLeft /\ OneLoop /\ StopOnlyToJoin /\ KnownIsFollowed
    /\ ~double

LEMMA HeartbeatBounds ==
    /\ HbEdits \in Nat /\ HbEnds \in Nat /\ HbClock \in Nat
    /\ \A f \in HbFiles : f.load = "on" => f.every \in Nat \ {0}
    /\ B!LoopIds = 1..(1 + HbEdits + HbEnds)
BY PromptsAssumption DEF B!HeartbeatAssumption, B!LoopIds

LEMMA LoopNumbers ==
    ASSUME BeatTypes, NumbersLeft
    PROVE  /\ born <= 1 + HbEdits + HbEnds
           /\ cur # 0 => cur \in B!LoopIds
           /\ pending \/ Joining \/ ends < HbEnds => born + 1 \in B!LoopIds
<1>1. born \in Nat /\ edits \in Nat /\ ends \in Nat /\ edits <= HbEdits /\ ends <= HbEnds /\ cur \in 0..born
  BY HeartbeatBounds DEF BeatTypes
<1>2. born <= 1 + edits + ends /\ (pending \/ Joining => born + 1 <= 1 + edits + ends)
  BY <1>1 DEF NumbersLeft, Bit
<1> QED BY <1>1, <1>2, HeartbeatBounds

(* croniter's next tick is after the anchor, and the anchor is never       *)
(* before the tick scheduled last.                                         *)
LEMMA NextIsLater ==
    ASSUME NEW e \in Nat \ {0}, NEW a \in Nat
    PROVE  B!GetNext(e, a) \in Nat /\ B!GetNext(e, a) > a
<1>1. a \div e \in Int
  OBVIOUS
<1>2. a \div e >= 0
  OBVIOUS
<1>3. a < ((a \div e) + 1) * e
  OBVIOUS
<1>4. PICK d \in Nat : d = a \div e
  BY <1>1, <1>2
<1>5. (d + 1) * e \in Nat
  OBVIOUS
<1> QED BY <1>3, <1>4, <1>5 DEF B!GetNext

LEMMA MaxOfTwo ==
    ASSUME NEW a \in Nat, NEW b \in Nat
    PROVE  B!Max({a, b}) \in Nat /\ B!Max({a, b}) >= a /\ B!Max({a, b}) >= b
<1>1. \E x \in {a, b} : \A y \in {a, b} : x >= y
  <2>1. CASE a >= b
    BY <2>1
  <2>2. CASE b >= a
    BY <2>2
  <2> QED BY <2>1, <2>2
<1>2. PICK m : m = CHOOSE x \in {a, b} : \A y \in {a, b} : x >= y
  OBVIOUS
<1>3. m \in {a, b} /\ \A y \in {a, b} : m >= y
  BY <1>1, <1>2
<1> QED BY <1>2, <1>3 DEF B!Max

LEMMA TickIsNew ==
    ASSUME BeatInv, NEW l \in B!LoopIds, hb[l].at \in Going
    PROVE  /\ B!GetNext(hb[l].every, B!Anchor(l)) \in Nat
           /\ B!GetNext(hb[l].every, B!Anchor(l)) > hb[l].last
<1>1. hb[l].every \in Nat \ {0} /\ hb[l].last \in Nat /\ clock \in Nat
  BY HeartbeatBounds DEF BeatInv, BeatTypes, OneLoop, Loops
<1>2. PICK a : a = B!Anchor(l)
  OBVIOUS
<1>3. a \in Nat /\ a >= hb[l].last
  BY <1>1, <1>2, MaxOfTwo DEF B!Anchor
<1>4. PICK n : n = B!GetNext(hb[l].every, a)
  OBVIOUS
<1>5. n \in Nat /\ n > a
  BY <1>1, <1>3, <1>4, NextIsLater
<1> QED BY <1>1, <1>2, <1>3, <1>4, <1>5

LEMMA BeatInvInit == B!HbInit => BeatInv
<1> SUFFICES ASSUME B!HbInit PROVE BeatInv
  OBVIOUS
<1>1. stopEvent = FALSE /\ pending = FALSE /\ missed = FALSE /\ crashed = FALSE /\ double = FALSE
  BY DEF B!HbInit
<1>2. /\ hbfile \in HbFiles /\ clock = 0 /\ edits = 0 /\ ends = 0 /\ hbwatch = "rest" /\ slot = "free"
      /\ born = (IF hbfile.load = "on" THEN 1 ELSE 0) /\ cur = born
  BY DEF B!HbInit
<1>3. hb = [l \in B!LoopIds |->
              IF l <= born THEN [at |-> "warm", every |-> hbfile.every, last |-> 0, left |-> 0]
              ELSE [at |-> "none", every |-> 0, last |-> 0, left |-> 0]]
  BY DEF B!HbInit, B!Unborn, B!Warm
<1>4. 1 \in B!LoopIds /\ \A l \in B!LoopIds : l \in Nat \ {0}
  BY HeartbeatBounds
<1>5. hb \in [B!LoopIds -> Loops]
  <2> SUFFICES ASSUME NEW l \in B!LoopIds PROVE hb[l] \in Loops
    BY <1>3
  <2> QED BY <1>2, <1>3, <1>4, HeartbeatBounds DEF Loops
<1>6. BeatTypes
  BY <1>2, <1>5, HeartbeatBounds DEF BeatTypes
<1>10. BeatFlags
  BY <1>1, Zenon DEF BeatFlags
<1>7. OneLoop
  <2> SUFFICES ASSUME NEW l \in B!LoopIds
               PROVE  /\ hb[l].at \in Going => l = cur /\ hb[l].every # 0
                      /\ l > born => hb[l].at = "none"
    BY DEF OneLoop
  <2> QED BY <1>2, <1>3, <1>4, HeartbeatBounds DEF Going
<1>8. StopOnlyToJoin /\ KnownIsFollowed
  BY <1>1, <1>2, <1>3, <1>4 DEF StopOnlyToJoin, KnownIsFollowed, Joining, Going
<1>9. NumbersLeft
  BY <1>1, <1>2 DEF NumbersLeft, Joining, Bit
<1> QED BY <1>1, <1>6, <1>7, <1>8, <1>9, <1>10 DEF BeatInv

(* A step of the loop that is alive: it goes on with its schedule, or ends *)
(* because it was told to or has raised.                                   *)
LEMMA LoopMoves ==
    ASSUME BeatInv, NEW l \in B!LoopIds, NEW x \in Loops, hb[l].at \in Going,
           hb' = [hb EXCEPT ![l] = x], x.every = hb[l].every,
           x.at \in Going \/ (x.at = "over" /\ (stopEvent \/ crashed')),
           crashed => crashed', crashed' \in BOOLEAN,
           slot' \in {"free", "loop", "adhoc"}, ~double',
           UNCHANGED <<hbfile, clock, cur, born, stopEvent, hbwatch, pending, edits, ends, missed>>
    PROVE  BeatInv'
<1> USE DEF BeatInv
<1>1. hb' \in [B!LoopIds -> Loops] /\ hb'[l] = x /\ \A k \in B!LoopIds \ {l} : hb'[k] = hb[k]
  BY DEF BeatTypes
<1>2. l = cur /\ hb[l].every # 0 /\ ~(l > born) /\ cur # 0
  BY HeartbeatBounds DEF OneLoop, Going
<1>3. BeatTypes' /\ BeatFlags'
  <2>1. BeatTypes'
    BY <1>1 DEF BeatTypes
  <2>2. BeatFlags'
    BY Zenon DEF BeatFlags
  <2> QED BY <2>1, <2>2
<1>4. OneLoop'
  BY <1>1, <1>2 DEF OneLoop
<1>5. NumbersLeft'
  BY DEF NumbersLeft, Joining, Bit
<1>6. KnownIsFollowed'
  BY <1>1, <1>2 DEF KnownIsFollowed, Joining
<1>7. StopOnlyToJoin'
  BY <1>1, <1>2 DEF StopOnlyToJoin, Joining
<1> QED BY <1>3, <1>4, <1>5, <1>6, <1>7

(* What the top of the loop makes of it.                                   *)
LEMMA ScheduleFits ==
    ASSUME BeatInv, NEW l \in B!LoopIds, hb[l].at \in Going
    PROVE  \E x \in Loops : /\ B!Schedule(l) = [hb EXCEPT ![l] = x]
                            /\ x.every = hb[l].every
                            /\ x.at \in Going \/ (x.at = "over" /\ stopEvent)
<1>1. PICK n : n = B!GetNext(hb[l].every, B!Anchor(l))
  OBVIOUS
<1>2. n \in Nat /\ hb[l].every \in Nat /\ clock \in Nat
  BY <1>1, TickIsNew, HeartbeatBounds DEF BeatInv, BeatTypes, Loops
<1>3. CASE stopEvent
  <2>1. [at |-> "over", every |-> hb[l].every, last |-> 0, left |-> 0] \in Loops
    BY <1>2 DEF Loops
  <2>2. B!Schedule(l) = [hb EXCEPT ![l] = [at |-> "over", every |-> hb[l].every, last |-> 0, left |-> 0]]
    BY <1>3 DEF B!Schedule, B!Ends
  <2> QED BY <1>3, <2>1, <2>2
<1>4. CASE ~stopEvent
  <2>0. (IF n > clock THEN n - clock ELSE 0) \in Nat
    BY <1>2
  <2>1. PICK k \in Nat : k = IF n > clock THEN n - clock ELSE 0
    BY <2>0
  <2>2. [at |-> "asleep", every |-> hb[l].every, last |-> n, left |-> k] \in Loops
    BY <1>2 DEF Loops
  <2>3. B!Schedule(l) = [hb EXCEPT ![l] = [at |-> "asleep", every |-> hb[l].every, last |-> n, left |-> k]]
    BY <1>1, <1>4, <2>1 DEF B!Schedule
  <2> QED BY <2>2, <2>3 DEF Going
<1> QED BY <1>3, <1>4

LEMMA OneLess ==
    /\ \A x, y, z \in Nat : \A b \in {0, 1} : x + 1 + b <= 1 + y + z => x + b + 0 <= 1 + y + z
    /\ \A x \in Nat : x + 0 + 1 = x + 1 /\ x + 1 + 0 = x + 1
OBVIOUS

(* Nothing is alive, the event is clear again: the file is read and its    *)
(* loop started.                                                           *)
LEMMA ReloadFits ==
    ASSUME BeatInv, NEW n \in {"watching", "rest"}, B!Reload(n), born + 1 \in B!LoopIds,
           cur # 0 => hb[cur].at \notin Going,
           stopEvent' = FALSE, pending' \in BOOLEAN, ends' \in 0..HbEnds,
           born + 1 + Bit(pending') <= 1 + edits + ends',
           UNCHANGED <<hbfile, clock, slot, edits, double>>
    PROVE  BeatInv'
<1> USE DEF BeatInv
<1>1. \A l \in B!LoopIds : hb[l].at \notin Going
  BY HeartbeatBounds DEF OneLoop
<1>2. hbwatch' = n /\ crashed' = FALSE /\ missed' = FALSE /\ ~Joining'
  BY DEF B!Reload, Joining
<1>5. BeatFlags'
  BY <1>2, Zenon DEF BeatFlags
<1>6. edits \in Nat /\ ends' \in Nat /\ born \in Nat
  BY HeartbeatBounds DEF BeatTypes
<1>3. CASE hbfile.load = "on"
  <2>1. PICK x : x = [at |-> "warm", every |-> hbfile.every, last |-> 0, left |-> 0]
    OBVIOUS
  <2>2. born' = born + 1 /\ cur' = born + 1 /\ hb' = [hb EXCEPT ![born + 1] = x]
    BY <1>3, <2>1 DEF B!Reload, B!Warm
  <2>3. x \in Loops /\ x.at \in Going /\ x.every = hbfile.every /\ x.every # 0
    BY <1>3, <2>1, HeartbeatBounds DEF Loops, Going, BeatTypes
  <2>4. /\ hb' \in [B!LoopIds -> Loops] /\ hb'[born + 1] = x
        /\ \A k \in B!LoopIds \ {born + 1} : hb'[k] = hb[k]
    BY <2>2, <2>3 DEF BeatTypes
  <2>5. born \in Nat
    BY DEF BeatTypes
  <2>6. BeatTypes'
    BY <1>2, <2>2, <2>4, <2>5 DEF BeatTypes
  <2>7. OneLoop'
    <3>1. \A l \in B!LoopIds : l \in Nat
      BY HeartbeatBounds
    <3> QED BY <1>1, <2>2, <2>3, <2>4, <2>5, <3>1 DEF OneLoop
  <2>8. NumbersLeft'
    BY <1>2, <2>2, <2>5 DEF NumbersLeft, Bit
  <2>9. StopOnlyToJoin' /\ KnownIsFollowed'
    BY <1>2, <1>3, <2>2, <2>3, <2>4, <2>5 DEF StopOnlyToJoin, KnownIsFollowed
  <2> QED BY <1>5, <2>6, <2>7, <2>8, <2>9
<1>4. CASE hbfile.load # "on"
  <2>1. cur' = 0 /\ born' = born /\ hb' = hb /\ born \in Nat
    BY <1>4 DEF B!Reload, BeatTypes
  <2>2. BeatTypes'
    BY <1>2, <2>1 DEF BeatTypes
  <2>3. OneLoop'
    BY <1>1, <2>1 DEF OneLoop
  <2>4. NumbersLeft'
    <3>1. PICK b \in {0, 1} : b = Bit(pending')
      BY DEF Bit
    <3>2. born + 1 + b <= 1 + edits + ends'
      BY <3>1
    <3>3. born + b + 0 <= 1 + edits + ends'
      BY <1>6, <3>2, OneLess
    <3>4. Bit(Joining)' = 0 /\ Bit(pending)' = b
      BY <1>2, <3>1 DEF Bit
    <3> QED BY <2>1, <3>3, <3>4 DEF NumbersLeft
  <2>5. StopOnlyToJoin' /\ KnownIsFollowed'
    BY <1>2, <1>4, <2>1 DEF StopOnlyToJoin, KnownIsFollowed
  <2> QED BY <1>5, <2>2, <2>3, <2>4, <2>5
<1> QED BY <1>3, <1>4

LEMMA LoopSteps ==
    ASSUME BeatInv, NEW l \in B!LoopIds,
           B!Warmed(l) \/ B!StopSeen(l) \/ B!Wakes(l) \/ B!Answered(l)
    PROVE  BeatInv'
<1>0. ~double /\ slot \in {"free", "loop", "adhoc"} /\ hb[l] \in Loops
  BY DEF BeatInv, BeatTypes
<1>1. stopEvent \in BOOLEAN /\ crashed \in BOOLEAN
  BY Zenon DEF BeatInv, BeatFlags
<1>2. PICK gone : gone = [at |-> "over", every |-> hb[l].every, last |-> 0, left |-> 0]
  OBVIOUS
<1>3. gone \in Loops /\ gone.at = "over" /\ gone.every = hb[l].every /\ B!Ends(l) = [hb EXCEPT ![l] = gone]
  BY <1>0, <1>2 DEF Loops, B!Ends
<1>4. CASE B!Warmed(l)
  <2>1. hb[l].at \in Going
    BY <1>4 DEF B!Warmed, Going
  <2>2. PICK x \in Loops : /\ B!Schedule(l) = [hb EXCEPT ![l] = x]
                           /\ x.every = hb[l].every
                           /\ x.at \in Going \/ (x.at = "over" /\ stopEvent)
    BY <2>1, ScheduleFits
  <2>3. hb' = [hb EXCEPT ![l] = x]
    BY <1>4, <2>2 DEF B!Warmed
  <2>4. UNCHANGED <<hbfile, clock, cur, born, stopEvent, hbwatch, pending, slot, edits, ends,
                    missed, crashed, double>>
    BY <1>4 DEF B!Warmed
  <2> QED BY <1>0, <1>1, <2>1, <2>2, <2>3, <2>4, LoopMoves
<1>5. CASE B!StopSeen(l)
  <2>1. hb[l].at \in Going /\ hb' = [hb EXCEPT ![l] = gone] /\ stopEvent
    BY <1>3, <1>5 DEF B!StopSeen, Going
  <2>2. UNCHANGED <<hbfile, clock, cur, born, stopEvent, hbwatch, pending, slot, edits, ends,
                    missed, crashed, double>>
    BY <1>5 DEF B!StopSeen
  <2> QED BY <1>0, <1>1, <1>3, <2>1, <2>2, LoopMoves
<1>6. CASE B!Wakes(l)
  <2>1. hb[l].at = "asleep" /\ hb[l].at \in Going
    BY <1>6 DEF B!Wakes, Going
  <2>2. UNCHANGED <<hbfile, clock, cur, born, stopEvent, hbwatch, pending, edits, ends, missed>>
    BY <1>6 DEF B!Wakes
  <2>3. CASE hb' = B!Schedule(l) /\ UNCHANGED <<slot, crashed, double>>
    <3>1. PICK x \in Loops : /\ B!Schedule(l) = [hb EXCEPT ![l] = x]
                             /\ x.every = hb[l].every
                             /\ x.at \in Going \/ (x.at = "over" /\ stopEvent)
      BY <2>1, ScheduleFits
    <3>2. hb' = [hb EXCEPT ![l] = x]
      BY <2>3, <3>1
    <3> QED BY <1>0, <1>1, <2>1, <2>2, <2>3, <3>1, <3>2, LoopMoves
  <2>4. CASE hb' = [hb EXCEPT ![l].at = "sending"] /\ slot' = "loop" /\ UNCHANGED <<crashed, double>>
    <3>1. PICK x : x = [hb[l] EXCEPT !.at = "sending"]
      OBVIOUS
    <3>2. x \in Loops /\ x.every = hb[l].every /\ x.at \in Going
      BY <1>0, <3>1 DEF Loops, Going
    <3>3. hb' = [hb EXCEPT ![l] = x]
      BY <2>4, <3>1 DEF BeatInv, BeatTypes
    <3> QED BY <1>0, <1>1, <2>1, <2>2, <2>4, <3>2, <3>3, LoopMoves
  <2>5. CASE hb' = B!Ends(l) /\ crashed' = TRUE /\ UNCHANGED <<slot, double>>
    <3>1. hb' = [hb EXCEPT ![l] = gone]
      BY <1>3, <2>5
    <3> QED BY <1>0, <1>1, <1>3, <2>1, <2>2, <2>5, <3>1, LoopMoves
  <2> QED BY <1>6, <2>3, <2>4, <2>5 DEF B!Wakes
<1>7. CASE B!Answered(l)
  <2>1. hb[l].at \in Going
    BY <1>7 DEF B!Answered, Going
  <2>2. PICK x \in Loops : /\ B!Schedule(l) = [hb EXCEPT ![l] = x]
                           /\ x.every = hb[l].every
                           /\ x.at \in Going \/ (x.at = "over" /\ stopEvent)
    BY <2>1, ScheduleFits
  <2>3. hb' = [hb EXCEPT ![l] = x]
    BY <1>7, <2>2 DEF B!Answered
  <2>4. UNCHANGED <<hbfile, clock, cur, born, stopEvent, hbwatch, pending, slot, edits, ends,
                    missed, crashed>>
    BY <1>7 DEF B!Answered
  <2>5. PICK n : n = B!GetNext(hb[l].every, B!Anchor(l))
    OBVIOUS
  <2>6. hb[l].last # n
    BY <1>0, <2>1, <2>5, TickIsNew DEF Loops
  <2>7. double' = (double \/ (~stopEvent /\ hb[l].last = n))
    BY <1>7, <2>5 DEF B!Answered
  <2>8. ~double'
    BY <1>0, <2>6, <2>7, Zenon
  <2> QED BY <1>0, <1>1, <2>1, <2>2, <2>3, <2>4, <2>8, LoopMoves
<1> QED BY <1>4, <1>5, <1>6, <1>7

(* A change of the file or the end of the watch: the loop is stopped and   *)
(* joined, or the file read at once when nothing is alive.                 *)
LEMMA WatcherSteps ==
    ASSUME BeatInv, B!Changed \/ B!WatchEnds \/ B!Joined
    PROVE  BeatInv'
<1> USE DEF BeatInv
<1>0. born \in Nat /\ edits \in Nat /\ ends \in Nat /\ cur \in 0..born
  BY HeartbeatBounds DEF BeatTypes
<1>1. cur # 0 => cur \in B!LoopIds
  BY LoopNumbers
<1>2. ASSUME NEW n \in {"watching", "rest"}, B!StopAndJoin(n), hbwatch = "watching",
             ends' \in 0..HbEnds, born + 1 <= 1 + edits + ends', born + 1 \in B!LoopIds,
             UNCHANGED <<hbfile, clock, slot, edits, double>>
      PROVE  BeatInv'
  <2>1. ~Joining /\ ~stopEvent
    BY <1>2 DEF Joining, StopOnlyToJoin
  <2>2. pending' = FALSE
    BY <1>2 DEF B!StopAndJoin
  <2>3. CASE cur # 0 /\ B!Alive(cur)
    <3>1. /\ stopEvent' = TRUE /\ hbwatch' \in {"join", "rejoin"}
          /\ UNCHANGED <<cur, born, hb, crashed, missed>>
      BY <1>2, <2>3 DEF B!StopAndJoin
    <3>2. Joining'
      BY <3>1 DEF Joining
    <3>3. BeatTypes'
      BY <1>2, <3>1 DEF BeatTypes
    <3>4. BeatFlags'
      BY <2>2, <3>1, Zenon DEF BeatFlags
    <3>5. NumbersLeft'
      <4>1. Bit(pending)' = 0 /\ Bit(Joining)' = 1
        BY <2>2, <3>2 DEF Bit
      <4>2. born + 0 + 1 <= 1 + edits + ends'
        BY <1>0, <1>2, OneLess
      <4> QED BY <1>2, <3>1, <4>1, <4>2 DEF NumbersLeft
    <3>6. OneLoop'
      BY <3>1 DEF OneLoop
    <3>7. StopOnlyToJoin' /\ KnownIsFollowed'
      BY <2>3, <3>1, <3>2 DEF StopOnlyToJoin, KnownIsFollowed
    <3> QED BY <1>2, <3>3, <3>4, <3>5, <3>6, <3>7
  <2>4. CASE ~(cur # 0 /\ B!Alive(cur))
    <3>1. B!Reload(n) /\ stopEvent' = FALSE
      BY <1>2, <2>1, <2>4 DEF B!StopAndJoin, BeatFlags
    <3>2. cur # 0 => hb[cur].at \notin Going
      BY <2>4 DEF B!Alive, Going
    <3>3. born + 1 + Bit(pending') <= 1 + edits + ends'
      <4>1. Bit(pending') = 0
        BY <2>2 DEF Bit
      <4>2. born + 1 + 0 <= 1 + edits + ends'
        BY <1>0, <1>2, OneLess
      <4> QED BY <4>1, <4>2
    <3> QED BY <1>2, <2>2, <3>1, <3>2, <3>3, ReloadFits
  <2> QED BY <2>3, <2>4
<1>3. CASE B!Changed
  <2>1. hbwatch = "watching" /\ pending /\ B!StopAndJoin("watching")
        /\ UNCHANGED <<hbfile, clock, slot, edits, ends, double>>
    BY <1>3 DEF B!Changed
  <2>2. born + 1 <= 1 + edits + ends /\ born + 1 \in B!LoopIds
    BY <1>0, <2>1, LoopNumbers DEF NumbersLeft, Bit, Joining
  <2>3. ends' \in 0..HbEnds
    BY <2>1 DEF BeatTypes
  <2> QED BY <1>2, <2>1, <2>2, <2>3
<1>4. CASE B!WatchEnds
  <2>1. hbwatch = "watching" /\ ends < HbEnds /\ ends' = ends + 1 /\ B!StopAndJoin("rest")
        /\ UNCHANGED <<hbfile, clock, slot, edits, double>>
    BY <1>4 DEF B!WatchEnds
  <2>2. born <= 1 + edits + ends /\ born + 1 \in B!LoopIds
    BY <1>0, <2>1, LoopNumbers DEF NumbersLeft, Bit, Joining
  <2>3. ends' \in 0..HbEnds /\ born + 1 <= 1 + edits + ends'
    BY <1>0, <2>1, <2>2, HeartbeatBounds
  <2> QED BY <1>2, <2>1, <2>2, <2>3
<1>5. CASE B!Joined
  <2>1. Joining /\ ~B!Alive(cur) /\ stopEvent' = FALSE
        /\ UNCHANGED <<hbfile, clock, pending, slot, edits, ends, double>>
    BY <1>5 DEF B!Joined, B!ClearStop, Joining
  <2>2. PICK n \in {"watching", "rest"} : B!Reload(n)
    BY <1>5 DEF B!Joined
  <2>3. cur # 0 => hb[cur].at \notin Going
    BY <2>1 DEF B!Alive, Going
  <2>4. born + 1 \in B!LoopIds
    BY <2>1, LoopNumbers
  <2>5. born + 1 + Bit(pending) <= 1 + edits + ends
    BY <1>0, <2>1 DEF NumbersLeft, Bit
  <2>6. pending' \in BOOLEAN
    BY <2>1, Zenon DEF BeatFlags
  <2>7. ends' \in 0..HbEnds /\ born + 1 + Bit(pending') <= 1 + edits + ends'
    BY <2>1, <2>5 DEF BeatTypes
  <2> QED BY <2>1, <2>2, <2>3, <2>4, <2>6, <2>7, ReloadFits
<1> QED BY <1>3, <1>4, <1>5

LEMMA BeatInvStep == BeatInv /\ [B!HbNext]_hbvars => BeatInv'
<1> SUFFICES ASSUME BeatInv, [B!HbNext]_hbvars PROVE BeatInv'
  OBVIOUS
<1>0. BeatTypes /\ BeatFlags /\ NumbersLeft /\ OneLoop /\ StopOnlyToJoin /\ KnownIsFollowed /\ ~double
  BY DEF BeatInv
<1>1. CASE UNCHANGED <<hbfile, clock, hb, cur, born, stopEvent, pending, edits, ends,
                       missed, crashed, double>>
           /\ (hbwatch' = hbwatch \/ (hbwatch = "rest" /\ hbwatch' = "watching"))
           /\ slot' \in {"free", "loop", "adhoc"}
  <2>1. Joining' = Joining /\ hbwatch' \in {"watching", "join", "rejoin", "rest"}
    BY <1>0, <1>1 DEF Joining, BeatTypes
  <2>2. BeatTypes' /\ NumbersLeft' /\ OneLoop'
    BY <1>0, <1>1, <2>1 DEF BeatTypes, NumbersLeft, OneLoop
  <2>3. BeatFlags'
    BY <1>0, <1>1, Zenon DEF BeatFlags
  <2>4. StopOnlyToJoin' /\ KnownIsFollowed'
    BY <1>0, <1>1, <2>1 DEF StopOnlyToJoin, KnownIsFollowed
  <2> QED BY <1>0, <1>1, <2>2, <2>3, <2>4 DEF BeatInv
<1>2. CASE B!BackendsReady \/ B!BusDone \/ B!AdHoc \/ B!Watch \/ UNCHANGED hbvars
  <2>1. slot \in {"free", "loop", "adhoc"}
    BY <1>0 DEF BeatTypes
  <2> QED BY <1>1, <1>2, <2>1
          DEF B!BackendsReady, B!BusDone, B!AdHoc, B!Watch, hbvars
<1>3. CASE B!Edit
  <2>1. /\ edits < HbEdits /\ edits' = edits + 1 /\ hbfile' \in HbFiles
        /\ UNCHANGED <<clock, hb, cur, born, stopEvent, hbwatch, slot, ends, crashed, double>>
    BY <1>3 DEF B!Edit
  <2>2. /\ (missed' = TRUE /\ pending' = pending) \/ (pending' = TRUE /\ missed' = missed)
        /\ Joining' = Joining
    BY <1>3 DEF B!Edit, Joining
  <2>3. BeatTypes'
    BY <1>0, <2>1, HeartbeatBounds DEF BeatTypes
  <2>4. BeatFlags'
    BY <1>0, <2>1, <2>2, Zenon DEF BeatFlags
  <2>5. NumbersLeft'
    <3>1. born \in Nat /\ edits \in Nat /\ ends \in Nat
      BY <1>0, HeartbeatBounds DEF BeatTypes
    <3>2. PICK i, j, k \in {0, 1} : i = Bit(pending) /\ j = Bit(Joining) /\ k = Bit(pending')
      BY DEF Bit
    <3>3. born + i + j <= 1 + edits + ends
      BY <1>0, <3>2 DEF NumbersLeft
    <3>4. born + k + j <= 1 + (edits + 1) + ends
      BY <3>1, <3>3
    <3>5. Bit(pending)' = k /\ Bit(Joining)' = j
      BY <2>2, <3>2 DEF Bit
    <3> QED BY <2>1, <3>4, <3>5 DEF NumbersLeft
  <2>6. OneLoop' /\ StopOnlyToJoin' /\ KnownIsFollowed'
    BY <1>0, <2>1, <2>2 DEF OneLoop, StopOnlyToJoin, KnownIsFollowed
  <2> QED BY <1>0, <2>1, <2>3, <2>4, <2>5, <2>6 DEF BeatInv
<1>4. CASE \E back \in BOOLEAN : B!Passes(back)
  <2>1. /\ \A l \in B!LoopIds : hb[l].at = "asleep" => hb[l].left > 0
        /\ hb' = [l \in B!LoopIds |-> IF hb[l].at = "asleep" THEN [hb[l] EXCEPT !.left = @ - 1] ELSE hb[l]]
        /\ UNCHANGED <<hbfile, cur, born, stopEvent, hbwatch, pending, slot, edits, ends,
                       missed, crashed, double>>
    BY <1>4 DEF B!Passes
  <2>2. (clock > 0 /\ clock' = clock - 1) \/ (clock < HbClock /\ clock' = clock + 1)
    BY <1>4 DEF B!Passes
  <2>3. clock' \in 0..HbClock
    BY <1>0, <2>2, HeartbeatBounds DEF BeatTypes
  <2>4. \A l \in B!LoopIds : hb'[l] \in Loops /\ hb'[l].at = hb[l].at /\ hb'[l].every = hb[l].every
    <3> SUFFICES ASSUME NEW l \in B!LoopIds
                 PROVE  hb'[l] \in Loops /\ hb'[l].at = hb[l].at /\ hb'[l].every = hb[l].every
      OBVIOUS
    <3>1. hb[l] \in Loops
      BY <1>0 DEF BeatTypes
    <3> QED BY <2>1, <3>1 DEF Loops
  <2>5. cur # 0 => cur \in B!LoopIds
    BY <1>0, LoopNumbers
  <2>6. hb' \in [B!LoopIds -> Loops]
    BY <2>1, <2>4
  <2>7. BeatTypes'
    BY <1>0, <2>1, <2>3, <2>6 DEF BeatTypes
  <2>8. BeatFlags'
    BY <1>0, <2>1, Zenon DEF BeatFlags
  <2>9. NumbersLeft' /\ Joining' = Joining
    BY <1>0, <2>1 DEF NumbersLeft, Joining
  <2>10. OneLoop' /\ StopOnlyToJoin' /\ KnownIsFollowed'
    BY <1>0, <2>1, <2>4, <2>5, <2>9 DEF OneLoop, StopOnlyToJoin, KnownIsFollowed
  <2> QED BY <1>0, <2>1, <2>7, <2>8, <2>9, <2>10 DEF BeatInv
<1> QED BY <1>2, <1>3, <1>4, LoopSteps, WatcherSteps DEF B!HbNext

LEMMA BeatInvSafe == BeatInv => BeatsKept
<1> SUFFICES ASSUME BeatInv PROVE BeatsKept
  OBVIOUS
<1> USE DEF BeatInv
<1>1. \A l \in B!LoopIds : B!Alive(l) <=> hb[l].at \in Going
  BY DEF B!Alive, Going
<1>2. cur # 0 => cur \in B!LoopIds
  BY LoopNumbers
<1>3. \A l \in B!LoopIds : l \in Nat \ {0}
  BY HeartbeatBounds
<1>4. ASSUME hbwatch \in {"watching", "rest"}, ~pending, ~missed, ~crashed
      PROVE  {hb[l].every : l \in {k \in B!LoopIds : B!Alive(k)}} =
                (IF hbfile.load = "on" THEN {hbfile.every} ELSE {})
  <2>1. ~Joining
    BY <1>4 DEF Joining
  <2>2. CASE hbfile.load = "on"
    <3>1. cur # 0 /\ hb[cur].every = hbfile.every /\ hb[cur].at \in Going
      BY <1>4, <2>1, <2>2 DEF KnownIsFollowed, StopOnlyToJoin
    <3>2. {k \in B!LoopIds : B!Alive(k)} = {cur}
      BY <1>1, <1>2, <3>1 DEF OneLoop
    <3> QED BY <2>2, <3>1, <3>2
  <2>3. CASE hbfile.load # "on"
    <3>1. cur = 0
      BY <1>4, <2>1, <2>3 DEF KnownIsFollowed
    <3>2. {k \in B!LoopIds : B!Alive(k)} = {}
      BY <1>1, <1>3, <3>1 DEF OneLoop
    <3> QED BY <2>3, <3>2
  <2> QED BY <2>2, <2>3
<1> QED BY <1>4 DEF BeatsKept, B!BeatsAsTheFileSays, B!TickOnce

(* However edits, stops, beats and steps of the clock interleave, and      *)
(* whatever HEARTBEAT.md holds: at rest exactly one loop beats as the file *)
(* says, and no tick of a schedule is sent twice (heartbeat_runner,        *)
(* _run_loop, #659).                                                       *)
THEOREM BeatsKeptHolds == B!HbInit /\ [][B!HbNext]_hbvars => []BeatsKept
BY BeatInvInit, BeatInvStep, BeatInvSafe, PTL

-----------------------------------------------------------------------------
(* Completions, for any requests, any configuration and any caps: what a   *)
(* frame owes the runners.                                                 *)
Fields == {"in", "stage", "poll", "want", "model", "bid", "gen", "default", "calls", "ok",
           "events", "cut"}
Job(r) == req[r] # X!Idle /\ req[r].in.kind = "job"
Over(r) == req[r] # X!Idle /\ req[r].stage = "done"

Frames ==
    /\ DOMAIN req = Reqs
    /\ \A r \in Reqs : req[r] # X!Idle => DOMAIN req[r] = Fields /\ req[r].stage \in X!Stages

(* A request that is not over has told nobody, and nobody is about to be   *)
(* told of it; one that is over has told once, or will: a bus message      *)
(* always, an A2A call unless it was cut.                                  *)
Counts == told \in [Reqs -> Nat]
Untold(r) == told[r] = 0 /\ r \notin fan
Once(r) == (told[r] = 1 /\ r \notin fan) \/ (told[r] = 0 /\ r \in fan)
Ledger ==
    \A r \in Reqs :
        /\ ~Over(r) => Untold(r)
        /\ Over(r) => Untold(r) \/ Once(r)
        /\ Over(r) /\ (Job(r) \/ ~req[r].cut) => Once(r)

(* The bus worker has one message in hand, and none once it is cancelled.  *)
OneJob ==
    /\ \A q, r \in Reqs : Job(q) /\ ~Over(q) /\ Job(r) /\ ~Over(r) => q = r
    /\ closing # "up" => \A r \in Reqs : Job(r) => Over(r)

(* The drain leaves no fan-out of a bus message behind.                    *)
DrainedOfJobs == closing \notin {"up", "bus"} => \A r \in Reqs : Job(r) => r \notin fan

ToldInv == Frames /\ Counts /\ Ledger /\ OneJob /\ DrainedOfJobs

LEMMA InFlightIsNotOver ==
    \A r \in Reqs : X!InFlight(r) <=> req[r] # X!Idle /\ ~Over(r)
BY DEF X!InFlight, Over

LEMMA FrameIsNotIdle ==
    ASSUME NEW x, x.stage \in X!Stages
    PROVE  x # X!Idle
BY DEF X!Idle, X!Stages

LEMMA ToldInvInit == X!Init => ToldInv
<1> SUFFICES ASSUME X!Init PROVE ToldInv
  OBVIOUS
<1>1. /\ req = [r \in Reqs |-> X!Idle] /\ fan = {} /\ closing = "up"
      /\ told = [r \in Reqs |-> 0]
  BY DEF X!Init
<1>2. \A r \in Reqs : req[r] = X!Idle /\ Untold(r)
  BY <1>1 DEF Untold
<1> QED BY <1>1, <1>2 DEF ToldInv, Frames, Counts, Ledger, OneJob, DrainedOfJobs, Job, Over

(* The frame of r is x now, and the others' are as they were.              *)
LEMMA FrameMoves ==
    ASSUME ToldInv, NEW r \in Reqs, NEW x, DOMAIN x = Fields, x.stage \in X!Stages,
           req' = [req EXCEPT ![r] = x]
    PROVE  /\ Frames'
           /\ req'[r] = x /\ req'[r] # X!Idle
           /\ \A q \in Reqs \ {r} : req'[q] = req[q]
<1>1. DOMAIN req = Reqs
  BY DEF ToldInv, Frames
<1>2. req'[r] = x /\ DOMAIN req' = Reqs /\ \A q \in Reqs \ {r} : req'[q] = req[q]
  BY <1>1
<1>3. x # X!Idle
  BY FrameIsNotIdle
<1> QED BY <1>2, <1>3 DEF ToldInv, Frames

(* A request arrives or goes on, and is not over.                          *)
Begins(r, x) ==
    /\ req[r] = X!Idle /\ closing = "up"
    /\ x.in.kind = "job" => \A q \in Reqs : Job(q) => Over(q)
Carries(r, x) == X!InFlight(r) /\ x.in = req[r].in

LEMMA Stays ==
    ASSUME ToldInv, NEW r \in Reqs, NEW x, DOMAIN x = Fields, x.stage \in X!Stages \ {"done"},
           req' = [req EXCEPT ![r] = x], Begins(r, x) \/ Carries(r, x),
           UNCHANGED <<fan, told, closing>>
    PROVE  ToldInv'
<1>1. /\ Frames' /\ req'[r] = x /\ req'[r] # X!Idle
      /\ \A q \in Reqs \ {r} : req'[q] = req[q]
  BY FrameMoves
<1>2. /\ Over(r)' = FALSE /\ ~Over(r) /\ (Job(r)' <=> x.in.kind = "job")
      /\ \A q \in Reqs \ {r} : Over(q)' = Over(q) /\ Job(q)' = Job(q)
  BY <1>1, InFlightIsNotOver DEF Over, Job, Begins, Carries
<1>3. \A q \in Reqs : Untold(q)' = Untold(q) /\ Once(q)' = Once(q)
  BY DEF Untold, Once
<1>4. Counts' /\ Ledger'
  BY <1>1, <1>2, <1>3 DEF ToldInv, Counts, Ledger
<1>5. OneJob'
  <2>1. CASE Begins(r, x)
    BY <1>2, <2>1 DEF ToldInv, OneJob, Begins
  <2>2. CASE Carries(r, x)
    <3>1. Job(r)' <=> Job(r)
      BY <1>2, <2>2 DEF Carries, X!InFlight, Job
    <3> QED BY <1>2, <3>1 DEF ToldInv, OneJob
  <2> QED BY <2>1, <2>2
<1>6. DrainedOfJobs'
  BY <1>2 DEF ToldInv, DrainedOfJobs, Ledger, Untold
<1> QED BY <1>1, <1>4, <1>5, <1>6 DEF ToldInv

(* A request is over.  When it tells the runners or leaves that to a       *)
(* fan-out, it has told once.                                              *)
LEMMA TellCounts ==
    ASSUME ToldInv, NEW r \in Reqs, Untold(r), X!Tell(r)
    PROVE  /\ Counts' /\ Once(r)'
           /\ \A q \in Reqs \ {r} : Untold(q)' = Untold(q) /\ Once(q)' = Once(q) /\ (q \in fan' <=> q \in fan)
<1>0. told \in [Reqs -> Nat]
  BY DEF ToldInv, Counts
<1>1. CASE told' = [told EXCEPT ![r] = @ + 1] /\ fan' = fan
  BY <1>0, <1>1 DEF Counts, Untold, Once
<1>2. CASE fan' = fan \cup {r} /\ told' = told
  BY <1>0, <1>2 DEF Counts, Untold, Once
<1> QED BY <1>1, <1>2 DEF X!Tell

LEMMA EndsTold ==
    ASSUME ToldInv, NEW r \in Reqs, NEW x, DOMAIN x = Fields, x.stage = "done",
           req' = [req EXCEPT ![r] = x], Begins(r, x) \/ Carries(r, x), X!Tell(r),
           \/ closing' = closing
           \/ /\ closing = "up" /\ closing' = "bus"
              /\ \A q \in Reqs \ {r} : Job(q) => Over(q)
    PROVE  ToldInv'
<1>1. /\ Frames' /\ req'[r] = x /\ req'[r] # X!Idle
      /\ \A q \in Reqs \ {r} : req'[q] = req[q]
  BY FrameMoves DEF X!Stages
<1>2. /\ Over(r)' /\ ~Over(r) /\ (Job(r)' <=> x.in.kind = "job")
      /\ \A q \in Reqs \ {r} : Over(q)' = Over(q) /\ Job(q)' = Job(q)
  BY <1>1, InFlightIsNotOver DEF Over, Job, Begins, Carries
<1>3. Untold(r)
  BY <1>2 DEF ToldInv, Ledger
<1>4. /\ Counts' /\ Once(r)'
      /\ \A q \in Reqs \ {r} : Untold(q)' = Untold(q) /\ Once(q)' = Once(q) /\ (q \in fan' <=> q \in fan)
  BY <1>3, TellCounts
<1>5. Ledger'
  BY <1>1, <1>2, <1>4 DEF ToldInv, Ledger
<1>6. OneJob'
  BY <1>2 DEF ToldInv, OneJob
<1>7. DrainedOfJobs'
  <2>1. ASSUME closing' \notin {"up", "bus"} PROVE x.in.kind # "job"
    <3>1. closing = closing' /\ Carries(r, x)
      BY <2>1 DEF Begins
    <3>2. ~Job(r)
      BY <1>2, <2>1, <3>1 DEF ToldInv, OneJob
    <3> QED BY <3>1, <3>2 DEF Carries, Job, X!InFlight
  <2> QED BY <1>2, <1>4, <2>1 DEF ToldInv, DrainedOfJobs
<1> QED BY <1>1, <1>4, <1>5, <1>6, <1>7 DEF ToldInv

LEMMA EndsUntold ==
    ASSUME ToldInv, NEW r \in Reqs, NEW x, DOMAIN x = Fields, x.stage = "done",
           x.cut, x.in.kind = "a2a", req' = [req EXCEPT ![r] = x], Begins(r, x) \/ Carries(r, x),
           UNCHANGED <<fan, told, closing>>
    PROVE  ToldInv'
<1>1. /\ Frames' /\ req'[r] = x /\ req'[r] # X!Idle
      /\ \A q \in Reqs \ {r} : req'[q] = req[q]
  BY FrameMoves DEF X!Stages
<1>2. /\ Over(r)' /\ ~Over(r) /\ ~Job(r)'
      /\ \A q \in Reqs \ {r} : Over(q)' = Over(q) /\ Job(q)' = Job(q)
  BY <1>1, InFlightIsNotOver DEF Over, Job, Begins, Carries
<1>3. \A q \in Reqs : Untold(q)' = Untold(q) /\ Once(q)' = Once(q)
  BY DEF Untold, Once
<1>4. Counts' /\ Ledger'
  BY <1>1, <1>2, <1>3 DEF ToldInv, Counts, Ledger
<1>5. OneJob' /\ DrainedOfJobs'
  BY <1>2 DEF ToldInv, OneJob, DrainedOfJobs
<1> QED BY <1>1, <1>4, <1>5 DEF ToldInv

(* What the updates of a frame keep of it.                                 *)
LEMMA DoneFrame ==
    ASSUME NEW rec, DOMAIN rec = Fields
    PROVE  /\ DOMAIN X!Done(rec) = Fields /\ X!Done(rec).stage = "done"
           /\ X!Done(rec).in = rec.in /\ X!Done(rec).cut = rec.cut
BY DEF Fields, X!Done

LEMMA EmitFrame ==
    ASSUME NEW rec, NEW e, DOMAIN rec = Fields
    PROVE  /\ DOMAIN X!Emit(rec, e) = Fields
           /\ X!Emit(rec, e).stage = rec.stage /\ X!Emit(rec, e).in = rec.in
BY DEF Fields, X!Emit

LEMMA FreshFrame ==
    ASSUME NEW in
    PROVE  DOMAIN X!Fresh(in) = Fields /\ X!Fresh(in).in = in /\ X!Fresh(in).stage = "start"
BY DEF Fields, X!Fresh

LEMMA StartsAlike ==
    ASSUME NEW r, NEW x, NEW y, x.in = y.in, Begins(r, x) \/ Carries(r, x)
    PROVE  Begins(r, y) \/ Carries(r, y)
BY DEF Begins, Carries

LEMMA FinishFits ==
    ASSUME ToldInv, NEW r \in Reqs, NEW rec, DOMAIN rec = Fields,
           Begins(r, rec) \/ Carries(r, rec), X!Finish(r, rec),
           \/ closing' = closing
           \/ /\ closing = "up" /\ closing' = "bus"
              /\ \A q \in Reqs \ {r} : Job(q) => Over(q)
    PROVE  ToldInv'
<1>1. PICK x : x = X!Done(rec)
  OBVIOUS
<1>2. DOMAIN x = Fields /\ x.stage = "done" /\ x.in = rec.in
  BY <1>1, DoneFrame
<1>3. req' = [req EXCEPT ![r] = x] /\ X!Tell(r)
  BY <1>1 DEF X!Finish
<1>4. Begins(r, x) \/ Carries(r, x)
  BY <1>2, StartsAlike
<1> QED BY <1>2, <1>3, <1>4, EndsTold

LEMMA RaiseFits ==
    ASSUME ToldInv, NEW r \in Reqs, NEW rec, DOMAIN rec = Fields,
           Begins(r, rec) \/ Carries(r, rec), X!Raise(r, rec), closing' = closing
    PROVE  ToldInv'
<1>1. CASE X!Finish(r, rec)
  BY <1>1, FinishFits
<1>2. CASE ~X!Finish(r, rec)
  <2>1. PICK x : x = [rec EXCEPT !.stage = "failing"]
    OBVIOUS
  <2>2. DOMAIN x = Fields /\ x.stage \in X!Stages \ {"done"} /\ x.in = rec.in
    BY <2>1 DEF Fields, X!Stages
  <2>3. req' = [req EXCEPT ![r] = x] /\ UNCHANGED <<fan, told>>
    BY <1>2, <2>1 DEF X!Raise
  <2>4. Begins(r, x) \/ Carries(r, x)
    BY <2>2, StartsAlike
  <2> QED BY <2>2, <2>3, <2>4, Stays
<1> QED BY <1>1, <1>2

LEMMA QueryFits ==
    ASSUME ToldInv, NEW r \in Reqs, NEW rec, NEW calls, DOMAIN rec = Fields,
           Begins(r, rec) \/ Carries(r, rec), X!Query(r, rec, calls), closing' = closing
    PROVE  ToldInv'
<1>1. CASE X!Raise(r, rec)
  BY <1>1, RaiseFits
<1>2. CASE ~X!Raise(r, rec)
  <2>1. PICK x : x = [rec EXCEPT !.stage = "query", !.bid = X!Or(rec.want, conf.default),
                                 !.gen = reloads, !.default = conf.default, !.calls = calls]
    OBVIOUS
  <2>2. DOMAIN x = Fields /\ x.stage \in X!Stages \ {"done"} /\ x.in = rec.in
    BY <2>1 DEF Fields, X!Stages
  <2>3. req' = [req EXCEPT ![r] = x] /\ UNCHANGED <<fan, told>>
    BY <1>2, <2>1 DEF X!Query
  <2>4. Begins(r, x) \/ Carries(r, x)
    BY <2>2, StartsAlike
  <2> QED BY <2>2, <2>3, <2>4, Stays
<1> QED BY <1>1, <1>2

LEMMA Arrivals ==
    ASSUME ToldInv, NEW r \in Reqs, NEW in, X!Arrive(r, in) \/ X!BusArrive(r, in)
    PROVE  ToldInv'
<1>1. PICK rec : rec = X!Fresh(in)
  OBVIOUS
<1>2. DOMAIN rec = Fields /\ rec.in = in /\ rec.stage = "start"
  BY <1>1, FreshFrame
<1>3. CASE X!Arrive(r, in)
  <2>1. /\ closing = "up" /\ req[r] = X!Idle /\ in.kind = "a2a" /\ closing' = closing
    BY <1>3 DEF X!Arrive
  <2>2. Begins(r, rec)
    BY <1>2, <2>1 DEF Begins
  <2>3. CASE /\ req' = [req EXCEPT ![r] = X!Done([X!Emit(rec, "message") EXCEPT !.cut = TRUE])]
             /\ UNCHANGED <<fan, told>>
    <3>1. PICK y : y = X!Emit(rec, "message")
      OBVIOUS
    <3>2. DOMAIN y = Fields /\ y.in = in
      BY <1>2, <3>1, EmitFrame
    <3>3. PICK z : z = [y EXCEPT !.cut = TRUE]
      OBVIOUS
    <3>4. DOMAIN z = Fields /\ z.in = in /\ z.cut = TRUE
      BY <3>2, <3>3 DEF Fields
    <3>5. PICK x : x = X!Done(z)
      OBVIOUS
    <3>6. DOMAIN x = Fields /\ x.in = in /\ x.stage = "done" /\ x.cut = TRUE
      BY <3>4, <3>5, DoneFrame
    <3>7. req' = [req EXCEPT ![r] = x]
      BY <2>3, <3>1, <3>3, <3>5
    <3>8. Begins(r, x) \/ Carries(r, x)
      BY <1>2, <2>2, <3>6, StartsAlike
    <3> QED BY <2>1, <2>3, <3>6, <3>7, <3>8, EndsUntold
  <2>4. CASE X!Query(r, rec, <<>>)
    BY <1>2, <2>1, <2>2, <2>4, QueryFits
  <2>5. CASE req' = [req EXCEPT ![r] = [rec EXCEPT !.stage = "submit"]] /\ UNCHANGED <<fan, told>>
    <3>1. PICK x : x = [rec EXCEPT !.stage = "submit"]
      OBVIOUS
    <3>2. DOMAIN x = Fields /\ x.in = in /\ x.stage \in X!Stages \ {"done"}
      BY <1>2, <3>1 DEF Fields, X!Stages
    <3>3. Begins(r, x) \/ Carries(r, x)
      BY <1>2, <2>2, <3>2, StartsAlike
    <3> QED BY <2>1, <2>5, <3>1, <3>2, <3>3, Stays
  <2> QED BY <1>1, <1>3, <2>3, <2>4, <2>5 DEF X!Arrive
<1>4. CASE X!BusArrive(r, in)
  <2>1. /\ closing = "up" /\ req[r] = X!Idle /\ closing' = closing
        /\ \A q \in Reqs : X!InFlight(q) => req[q].in.kind = "a2a"
    BY <1>4 DEF X!BusArrive
  <2>2. Begins(r, rec)
    BY <2>1, InFlightIsNotOver DEF Begins, Job
  <2>3. PICK calls : X!Query(r, rec, calls)
    BY <1>1, <1>4 DEF X!BusArrive
  <2> QED BY <1>2, <2>1, <2>2, <2>3, QueryFits
<1> QED BY <1>3, <1>4

LEMMA CallSteps ==
    ASSUME ToldInv, NEW r \in Reqs, X!Step(r) \/ X!Cancelled(r)
    PROVE  ToldInv'
<1>1. X!InFlight(r) /\ closing' = closing
  BY DEF X!Step, X!Submitted, X!Dispatch, X!Answered, X!QueryFails, X!Reply, X!ReplyFails,
         X!MarkFailed, X!Voted, X!Cancelled, X!Querying, X!InFlight
<1>2. DOMAIN req[r] = Fields /\ req[r].stage \in X!Stages /\ DOMAIN req = Reqs
  BY <1>1 DEF X!InFlight, ToldInv, Frames
<1>3. ASSUME NEW x, DOMAIN x = Fields, x.in = req[r].in
      PROVE  Begins(r, x) \/ Carries(r, x)
  BY <1>1, <1>3 DEF Carries
<1>4. ASSUME NEW x, DOMAIN x = Fields, x.in = req[r].in, x.stage \in X!Stages \ {"done"},
             req' = [req EXCEPT ![r] = x], UNCHANGED <<fan, told>>
      PROVE  ToldInv'
  BY <1>1, <1>3, <1>4, Stays
<1>5. ASSUME NEW e, NEW rec, rec = X!Emit(req[r], e)
      PROVE  DOMAIN rec = Fields /\ rec.in = req[r].in
  BY <1>2, <1>5, EmitFrame
<1>6. CASE \E ok \in BOOLEAN : X!Submitted(r, ok)
  <2>1. CASE X!Query(r, req[r], <<>>)
    BY <1>1, <1>2, <1>3, <2>1, QueryFits
  <2>2. CASE ~X!Query(r, req[r], <<>>)
    <3>1. PICK y : y = [req[r] EXCEPT !.stage = "start", !.poll = TRUE]
      OBVIOUS
    <3>2. DOMAIN y = Fields /\ y.in = req[r].in /\ y.stage = "start"
      BY <1>2, <3>1 DEF Fields
    <3>3. PICK x : x = X!Emit(y, "submitted")
      OBVIOUS
    <3>4. DOMAIN x = Fields /\ x.in = req[r].in /\ x.stage \in X!Stages \ {"done"}
      BY <3>2, <3>3, EmitFrame DEF X!Stages
    <3>5. req' = [req EXCEPT ![r] = x] /\ UNCHANGED <<fan, told>>
      BY <1>2, <1>6, <2>2, <3>1, <3>3 DEF X!Submitted
    <3> QED BY <1>4, <3>4, <3>5
  <2> QED BY <2>1, <2>2
<1>7. CASE X!Dispatch(r)
  <2>1. PICK rec : rec = X!Emit(req[r], "working")
    OBVIOUS
  <2>2. X!Query(r, rec, <<>>)
    BY <1>7, <2>1 DEF X!Dispatch
  <2>3. DOMAIN rec = Fields /\ (Begins(r, rec) \/ Carries(r, rec))
    BY <1>3, <1>5, <2>1
  <2> QED BY <1>1, <2>2, <2>3, QueryFits
<1>8. CASE X!Answered(r)
  <2>1. CASE req' = [req EXCEPT ![r].stage = "reply", ![r].ok = TRUE] /\ UNCHANGED <<fan, told>>
    <3>1. PICK x : x = [req[r] EXCEPT !.stage = "reply", !.ok = TRUE]
      OBVIOUS
    <3>2. DOMAIN x = Fields /\ x.in = req[r].in /\ x.stage \in X!Stages \ {"done"}
      BY <1>2, <3>1 DEF Fields, X!Stages
    <3>3. req' = [req EXCEPT ![r] = x]
      BY <1>2, <2>1, <3>1
    <3> QED BY <1>4, <2>1, <3>2, <3>3
  <2>2. CASE X!Finish(r, [req[r] EXCEPT !.ok = TRUE])
    <3>1. PICK rec : rec = [req[r] EXCEPT !.ok = TRUE]
      OBVIOUS
    <3>2. DOMAIN rec = Fields /\ rec.in = req[r].in
      BY <1>2, <3>1 DEF Fields
    <3> QED BY <1>1, <1>3, <2>2, <3>1, <3>2, FinishFits
  <2> QED BY <1>8, <2>1, <2>2 DEF X!Answered
<1>9. CASE X!QueryFails(r) \/ X!ReplyFails(r)
  <2>1. X!Raise(r, req[r])
    BY <1>9 DEF X!QueryFails, X!ReplyFails
  <2> QED BY <1>1, <1>2, <1>3, <2>1, RaiseFits
<1>10. CASE X!Reply(r) \/ X!MarkFailed(r)
  <2>1. PICK e : X!Finish(r, X!Emit(req[r], e))
    BY <1>10 DEF X!Reply, X!MarkFailed
  <2>2. PICK rec : rec = X!Emit(req[r], e)
    OBVIOUS
  <2>3. DOMAIN rec = Fields /\ (Begins(r, rec) \/ Carries(r, rec))
    BY <1>3, <1>5, <2>2
  <2> QED BY <1>1, <2>1, <2>2, <2>3, FinishFits
<1>11. ASSUME NEW votes, X!Voted(r, votes) PROVE ToldInv'
  <2>1. CASE req' = [req EXCEPT ![r].stage = "synth"] /\ UNCHANGED <<fan, told>>
    <3>1. PICK x : x = [req[r] EXCEPT !.stage = "synth"]
      OBVIOUS
    <3>2. DOMAIN x = Fields /\ x.in = req[r].in /\ x.stage \in X!Stages \ {"done"}
      BY <1>2, <3>1 DEF Fields, X!Stages
    <3>3. req' = [req EXCEPT ![r] = x]
      BY <1>2, <2>1, <3>1
    <3> QED BY <1>4, <2>1, <3>2, <3>3
  <2>2. CASE \E b : X!Finish(r, [req[r] EXCEPT !.ok = b])
    <3>1. PICK b : X!Finish(r, [req[r] EXCEPT !.ok = b])
      BY <2>2
    <3>2. PICK rec : rec = [req[r] EXCEPT !.ok = b]
      OBVIOUS
    <3>3. DOMAIN rec = Fields /\ rec.in = req[r].in
      BY <1>2, <3>2 DEF Fields
    <3> QED BY <1>1, <1>3, <3>1, <3>2, <3>3, FinishFits
  <2> QED BY <1>11, <2>1, <2>2 DEF X!Voted
<1>12. CASE X!Cancelled(r)
  <2>1. PICK rec : rec = [req[r] EXCEPT !.cut = TRUE]
    OBVIOUS
  <2>2. DOMAIN rec = Fields /\ rec.in = req[r].in /\ rec.cut = TRUE
    BY <1>2, <2>1 DEF Fields
  <2>3. CASE X!Finish(r, rec)
    BY <1>1, <1>3, <2>2, <2>3, FinishFits
  <2>4. CASE ~X!Finish(r, rec)
    <3>1. PICK x : x = X!Done(rec)
      OBVIOUS
    <3>2. DOMAIN x = Fields /\ x.in = req[r].in /\ x.stage = "done" /\ x.cut = TRUE
      BY <2>2, <3>1, DoneFrame
    <3>3. req' = [req EXCEPT ![r] = x] /\ UNCHANGED <<fan, told>> /\ req[r].in.kind = "a2a"
      BY <1>2, <1>12, <2>1, <2>4, <3>1 DEF X!Cancelled
    <3> QED BY <1>1, <1>3, <3>2, <3>3, EndsUntold
  <2> QED BY <2>3, <2>4
<1> QED BY <1>6, <1>7, <1>8, <1>9, <1>10, <1>11, <1>12 DEF X!Step

LEMMA ShutdownSteps ==
    ASSUME ToldInv, X!StopBus \/ X!DrainBackground \/ X!CloseBackends \/ X!Exit
    PROVE  ToldInv'
<1> USE DEF ToldInv
<1>1. CASE X!StopBus
  <2>1. PICK busy : busy = {r \in Reqs : X!InFlight(r) /\ req[r].in.kind = "job"}
    OBVIOUS
  <2>2. \A r \in Reqs : r \in busy <=> Job(r) /\ ~Over(r)
    BY <2>1, InFlightIsNotOver DEF Job
  <2>3. closing = "up" /\ closing' = "bus"
    BY <1>1 DEF X!StopBus
  <2>4. CASE busy = {}
    <3>1. UNCHANGED <<req, fan, told>>
      BY <1>1, <2>1, <2>4 DEF X!StopBus
    <3>2. \A r \in Reqs : /\ Over(r)' = Over(r) /\ Job(r)' = Job(r)
                          /\ Untold(r)' = Untold(r) /\ Once(r)' = Once(r)
      BY <3>1 DEF Over, Job, Untold, Once
    <3> QED BY <2>2, <2>3, <2>4, <3>1, <3>2 DEF Frames, Counts, Ledger, OneJob, DrainedOfJobs
  <2>5. CASE busy # {}
    <3>1. PICK r \in busy : r = CHOOSE b \in busy : TRUE
      BY <2>5
    <3>2. X!Finish(r, [req[r] EXCEPT !.cut = TRUE])
      BY <1>1, <2>1, <2>5, <3>1 DEF X!StopBus
    <3>3. r \in Reqs /\ X!InFlight(r) /\ Job(r) /\ ~Over(r)
      BY <2>1, <2>2, <3>1
    <3>4. DOMAIN req[r] = Fields
      BY <3>3 DEF X!InFlight, Frames
    <3>5. PICK rec : rec = [req[r] EXCEPT !.cut = TRUE]
      OBVIOUS
    <3>6. DOMAIN rec = Fields /\ rec.in = req[r].in
      BY <3>4, <3>5 DEF Fields
    <3>7. Carries(r, rec)
      BY <3>3, <3>6 DEF Carries
    <3>8. \A q \in Reqs \ {r} : Job(q) => Over(q)
      BY <3>3 DEF OneJob
    <3> QED BY <2>3, <3>2, <3>3, <3>5, <3>6, <3>7, <3>8, FinishFits
  <2> QED BY <2>4, <2>5
<1>2. CASE X!DrainBackground \/ X!CloseBackends
  <2>1. /\ UNCHANGED <<req, fan, told>> /\ closing # "up"
        /\ (closing = "bus" /\ fan = {}) \/ (closing = "drained" /\ closing' = "closed")
    BY <1>2 DEF X!DrainBackground, X!CloseBackends
  <2>2. \A r \in Reqs : /\ Over(r)' = Over(r) /\ Job(r)' = Job(r)
                        /\ Untold(r)' = Untold(r) /\ Once(r)' = Once(r)
    BY <2>1 DEF Over, Job, Untold, Once
  <2> QED BY <2>1, <2>2 DEF Frames, Counts, Ledger, OneJob, DrainedOfJobs
<1>3. CASE X!Exit
  <2>1. /\ closing = "closed" /\ closing' = "exit" /\ UNCHANGED <<fan, told>>
        /\ req' = [r \in Reqs |-> IF X!InFlight(r) THEN X!Done([req[r] EXCEPT !.cut = TRUE]) ELSE req[r]]
    BY <1>3 DEF X!Exit
  <2>2. \A r \in Reqs : Untold(r)' = Untold(r) /\ Once(r)' = Once(r)
    BY <2>1 DEF Untold, Once
  <2>3. ASSUME NEW r \in Reqs
        PROVE  IF X!InFlight(r)
                 THEN /\ DOMAIN req'[r] = Fields /\ req'[r].stage = "done" /\ req'[r].cut = TRUE
                      /\ ~Over(r) /\ Over(r)' /\ ~Job(r)'
                 ELSE req'[r] = req[r] /\ Over(r)' = Over(r) /\ Job(r)' = Job(r)
    <3>1. CASE X!InFlight(r)
      <4>1. PICK rec : rec = [req[r] EXCEPT !.cut = TRUE]
        OBVIOUS
      <4>2. DOMAIN req[r] = Fields
        BY <3>1 DEF X!InFlight, Frames
      <4>3. DOMAIN rec = Fields /\ rec.in = req[r].in /\ rec.cut = TRUE
        BY <4>1, <4>2 DEF Fields
      <4>4. req'[r] = X!Done(rec)
        BY <2>1, <3>1, <4>1
      <4>5. DOMAIN req'[r] = Fields /\ req'[r].stage = "done" /\ req'[r].cut = TRUE /\ req'[r].in = req[r].in
        BY <4>3, <4>4, DoneFrame
      <4>6. ~Job(r) /\ ~Over(r)
        BY <2>1, <3>1, InFlightIsNotOver DEF OneJob
      <4>7. req'[r] # X!Idle
        BY <4>5, FrameIsNotIdle DEF X!Stages
      <4> QED BY <3>1, <4>5, <4>6, <4>7 DEF Over, Job, X!InFlight
    <3>2. CASE ~X!InFlight(r)
      BY <2>1, <3>2 DEF Over, Job
    <3> QED BY <3>1, <3>2
  <2>4. Frames'
    BY <2>1, <2>3 DEF Frames, X!Stages
  <2>5. Ledger'
    <3> SUFFICES ASSUME NEW r \in Reqs
                 PROVE  /\ ~Over(r)' => Untold(r)'
                        /\ Over(r)' => Untold(r)' \/ Once(r)'
                        /\ Over(r)' /\ (Job(r)' \/ ~req'[r].cut) => Once(r)'
      BY DEF Ledger
    <3> QED BY <2>2, <2>3 DEF Ledger
  <2>6. OneJob' /\ DrainedOfJobs' /\ Counts'
    BY <2>1, <2>3, InFlightIsNotOver DEF OneJob, DrainedOfJobs, Counts, Over, Job
  <2> QED BY <2>4, <2>5, <2>6
<1> QED BY <1>1, <1>2, <1>3

LEMMA ToldInvStep == ToldInv /\ [X!Next]_exvars => ToldInv'
<1> SUFFICES ASSUME ToldInv, [X!Next]_exvars PROVE ToldInv'
  OBVIOUS
<1>1. CASE UNCHANGED <<req, fan, told, closing>>
  <2>1. \A r \in Reqs : /\ Over(r)' = Over(r) /\ Job(r)' = Job(r)
                        /\ Untold(r)' = Untold(r) /\ Once(r)' = Once(r)
    BY <1>1 DEF Over, Job, Untold, Once
  <2> QED BY <1>1, <2>1 DEF ToldInv, Frames, Counts, Ledger, OneJob, DrainedOfJobs
<1>2. CASE \E file \in ConfigFiles : X!Reload(file)
  BY <1>1, <1>2 DEF X!Reload
<1>3. CASE \E class \in {"normal", "critical"} : X!Spawn(class) \/ X!SpawnedEnds(class)
  BY <1>1, <1>3 DEF X!Spawn, X!SpawnedEnds
<1>4. ASSUME NEW r \in Reqs, X!OnPromptCompleted(r) PROVE ToldInv'
  <2>1. /\ r \in fan /\ fan' = fan \ {r} /\ told' = [told EXCEPT ![r] = @ + 1]
        /\ UNCHANGED <<req, closing>>
    BY <1>4 DEF X!OnPromptCompleted
  <2>2. told \in [Reqs -> Nat]
    BY DEF ToldInv, Counts
  <2>3. /\ told' \in [Reqs -> Nat]
        /\ \A q \in Reqs \ {r} : Untold(q)' = Untold(q) /\ Once(q)' = Once(q)
    BY <2>1, <2>2 DEF Untold, Once
  <2>4. \A q \in Reqs : Over(q)' = Over(q) /\ Job(q)' = Job(q)
    BY <2>1 DEF Over, Job
  <2>5. Over(r) /\ Once(r) /\ told[r] = 0
    BY <2>1 DEF ToldInv, Ledger, Untold, Once
  <2>6. Once(r)'
    BY <2>1, <2>2, <2>5 DEF Once
  <2>7. Frames' /\ Counts' /\ Ledger'
    BY <2>1, <2>3, <2>4, <2>5, <2>6 DEF ToldInv, Frames, Counts, Ledger
  <2>8. OneJob' /\ DrainedOfJobs'
    BY <2>1, <2>4 DEF ToldInv, OneJob, DrainedOfJobs
  <2> QED BY <2>7, <2>8 DEF ToldInv
<1>5. CASE UNCHANGED exvars
  BY <1>1, <1>5 DEF exvars
<1> QED BY <1>2, <1>3, <1>4, <1>5, Arrivals, CallSteps, ShutdownSteps DEF X!Next

LEMMA ToldInvSafe == ToldInv => CompletionsTold
<1> SUFFICES ASSUME ToldInv PROVE CompletionsTold
  OBVIOUS
<1> USE DEF ToldInv
<1>1. X!ToldOnce
  <2> SUFFICES ASSUME NEW r \in Reqs
               PROVE  /\ told[r] + (IF r \in fan THEN 1 ELSE 0) <= 1
                      /\ req[r] # X!Idle /\ req[r].stage = "done" /\ ~req[r].cut =>
                           told[r] + (IF r \in fan THEN 1 ELSE 0) = 1
    BY DEF X!ToldOnce
  <2>1. Untold(r) \/ Once(r)
    BY DEF Ledger
  <2>2. Over(r) /\ ~req[r].cut => Once(r)
    BY DEF Ledger
  <2> QED BY <2>1, <2>2 DEF Untold, Once, Over
<1>2. X!BusTellsBeforeDrain
  <2> SUFFICES ASSUME closing \notin {"up", "bus"}, NEW r \in Reqs, Job(r)
               PROVE  ~X!InFlight(r) /\ told[r] = 1
    BY DEF X!BusTellsBeforeDrain, Job
  <2>1. Over(r) /\ r \notin fan
    BY DEF OneJob, DrainedOfJobs
  <2> QED BY <2>1, InFlightIsNotOver DEF Ledger, Once
<1> QED BY <1>1, <1>2 DEF CompletionsTold

(* For any set of requests and any caps of the background tasks, the       *)
(* runners are told of a completion at most once, exactly once unless the  *)
(* call was cut, and of a bus message before the drain is over: whether    *)
(* the fan-out was tracked or shed, and whichever exit execute or          *)
(* process_bus takes (#1181).                                              *)
THEOREM CompletionsToldHolds == X!Init /\ [][X!Next]_exvars => []CompletionsTold
BY ToldInvInit, ToldInvStep, ToldInvSafe, PTL

-----------------------------------------------------------------------------
(* What a query carries and what a consensus comes to, for any requests,   *)
(* configurations, caps and reloads.                                       *)

(* The registry and its routes name backends and models.                   *)
ConfFits(c) ==
    /\ c.order \in Seq(Nat)
    /\ \A i \in 1..Len(c.order) : c.models[c.order[i]] \in Nat
    /\ c.default \in Nat
    /\ {"default", "a2a", "job"} \subseteq DOMAIN c.routing
    /\ \A f \in DOMAIN c.routing : c.routing[f] \in X!Route

(* A blocking call never waits between resolution and dispatch, so that    *)
(* what it resolved by is in force when it queries, and until a reload.    *)
ModelOf(x, c) ==
    x.model \in {x.in.model, 0, c.models[x.bid]} \cup
        {c.routing[f].model : f \in {g \in DOMAIN c.routing : c.routing[g].agent = x.bid}}
InForce(x, n) == x.stage \in {"query", "synth"} /\ x.calls = <<>> /\ x.gen = n
FrameFits(x, c, n) ==
    /\ x \in X!Frame
    /\ x.gen <= n
    /\ x.stage \in {"submit", "start"} => ~x.in.blocking
    /\ InForce(x, n) /\ x.in.blocking => ModelOf(x, c)

Versions == reloads \in 0..MaxReloads /\ failures \in 0..reloads
FramesFit ==
    /\ DOMAIN req = Reqs
    /\ \A r \in Reqs : req[r] # X!Idle => FrameFits(req[r], conf, reloads)

(* The LRU names each session once.                                        *)
Sessions == {in.session : in \in Inputs}
LruFits == sessions \in Seq(Sessions) /\ KeysApart(sessions) /\ Len(sessions) <= MaxSessions

(* What is tracked is within the caps.                                     *)
Classes == {"normal", "critical"}
Within(f, o) ==
    /\ f + o["normal"] <= BgMax
    /\ f + o["normal"] + o["critical"] <= BgMax \/ f + o["normal"] + o["critical"] <= BgCriticalMax
PoolFits ==
    /\ fan \in SUBSET Reqs /\ IsFiniteSet(fan)
    /\ others \in [Classes -> Nat]
    /\ Within(Cardinality(fan), others)
Rest == running \in SUBSET Reqs /\ told \in [Reqs -> Nat] /\ closing \in {"up", "bus", "drained", "closed", "exit"}

AnswerInv == ConfFits(conf) /\ Versions /\ FramesFit /\ LruFits /\ PoolFits /\ Rest
(* The calls of a consensus are pairs of a backend and a model: each round *)
(* of the two loops keeps to that.                                         *)
Calls == Seq(Nat \X Nat)

LEMMA PairsOf ==
    ASSUME ConfFits(conf), NEW entry, entry.model \in Nat, NEW n \in 1..Len(conf.order)
    PROVE  <<conf.order[n], X!Or(entry.model, conf.models[conf.order[n]])>> \in Nat \X Nat
BY DEF ConfFits, X!Or

LEMMA CallsOfTyped ==
    ASSUME ConfFits(conf), NEW resolved \in Calls, NEW entry, entry.model \in Nat
    PROVE  X!CallsOf(resolved, entry) \in Calls
<1>1. PICK s \in Seq(Nat) : s = conf.order
  BY DEF ConfFits
<1>2. PICK N \in Nat : N = Len(s) /\ DOMAIN s = 1..N
  OBVIOUS
<1>3. PICK Out, start : Out = Calls /\ start = resolved
  OBVIOUS
<1> DEFINE Pair(n) == <<s[n], X!Or(entry.model, conf.models[s[n]])>>
           Step(v, n) == IF s[n] \in entry.match /\ ~X!Contains(v, Pair(n))
                           THEN Append(v, Pair(n)) ELSE v
<1>5. start \in Out
  BY <1>3
<1>6. PICK F : F = [n \in 1..N |-> [v \in Out |-> Step(v, n)]]
  OBVIOUS
<1>7. \A n \in 1..N, v \in Out : F[n][v] = Step(v, n)
  BY <1>6
<1>8. \A n \in 1..N, v \in Out : F[n][v] \in Out
  <2>1. \A n \in 1..N : Pair(n) \in Nat \X Nat
    BY <1>1, <1>2, PairsOf
  <2>2. \A v \in Out, e \in Nat \X Nat : Append(v, e) \in Out
    BY <1>3 DEF Calls
  <2>3. ASSUME NEW n \in 1..N, NEW v \in Out PROVE Step(v, n) \in Out
    <3> HIDE DEF Pair
    <3> QED BY <2>1, <2>2
  <2> HIDE DEF Step
  <2> QED BY <1>7, <2>3
<1>9. PICK g \in [SUBSET (1..N) -> Out] : FoldsLeft(g, N, Out, F, start)
  BY <1>5, <1>8, FoldLeftExists
<1> DEFINE iter[d \in SUBSET (1..N)] == IF d = {} THEN start ELSE Step(iter[d \ {Max(d)}], Max(d))
<1>10. g = [d \in SUBSET (1..N) |-> IF d = {} THEN start ELSE Step(g[d \ {Max(d)}], Max(d))]
  <2>1. \A d \in SUBSET (1..N) : d # {} => Max(d) \in 1..N /\ g[d \ {Max(d)}] \in Out
    BY GreatestUpTo
  <2>2. \A d \in SUBSET (1..N) : g[d] = IF d = {} THEN start ELSE Step(g[d \ {Max(d)}], Max(d))
    <3> HIDE DEF Step
    <3> QED BY <1>7, <1>9, <2>1 DEF FoldsLeft
  <2> QED BY <2>2
<1>11. iter = [d \in SUBSET (1..N) |-> IF d = {} THEN start ELSE Step(iter[d \ {Max(d)}], Max(d))]
  BY <1>10
<1>12. X!CallsOf(resolved, entry) = iter[1..N]
  BY <1>1, <1>2, <1>3 DEF X!CallsOf, X!FoldLeft, X!MapThenFoldSet, X!Max, Max
<1> HIDE DEF iter, Step
<1>13. FoldsLeft(iter, N, Out, F, start)
  <2>1. \A d \in SUBSET (1..N) : d # {} => Max(d) \in 1..N
    BY GreatestUpTo
  <2> QED BY <1>7, <1>11, <2>1 DEF FoldsLeft
<1>14. PICK it : it = iter
  OBVIOUS
<1>15. FoldsLeft(it, N, Out, F, start)
  BY <1>13, <1>14
<1>16. it[1..N] \in Out
  BY <1>5, <1>8, <1>15, FoldLadder
<1> QED BY <1>3, <1>12, <1>14, <1>16

LEMMA ResolveTyped ==
    ASSUME ConfFits(conf), NEW entries \in Seq([match : SUBSET Nat, model : Nat])
    PROVE  X!Resolve(entries) \in Calls
<1>0. PICK Entry : Entry = [match : SUBSET Nat, model : Nat]
  OBVIOUS
<1>1. PICK s \in Seq(Entry) : s = entries
  BY <1>0
<1>2. PICK N \in Nat : N = Len(s) /\ DOMAIN s = 1..N
  OBVIOUS
<1>3. PICK Out, start : Out = Calls /\ start = <<>>
  OBVIOUS
<1> DEFINE Step(v, n) == X!CallsOf(v, s[n])
<1>5. start \in Out
  BY <1>3 DEF Calls
<1>6. PICK F : F = [n \in 1..N |-> [v \in Out |-> Step(v, n)]]
  OBVIOUS
<1>7. \A n \in 1..N, v \in Out : F[n][v] = Step(v, n)
  BY <1>6
<1>8. \A n \in 1..N, v \in Out : F[n][v] \in Out
  <2>1. ASSUME NEW n \in 1..N PROVE s[n].model \in Nat
    <3>1. s[n] \in Entry
      BY <1>2
    <3> QED BY <1>0, <3>1
  <2>2. ASSUME NEW n \in 1..N, NEW v \in Out PROVE Step(v, n) \in Out
    BY <1>3, <2>1, CallsOfTyped
  <2> HIDE DEF Step
  <2> QED BY <1>7, <2>2
<1>9. PICK g \in [SUBSET (1..N) -> Out] : FoldsLeft(g, N, Out, F, start)
  BY <1>5, <1>8, FoldLeftExists
<1> DEFINE iter[d \in SUBSET (1..N)] == IF d = {} THEN start ELSE Step(iter[d \ {Max(d)}], Max(d))
<1>10. g = [d \in SUBSET (1..N) |-> IF d = {} THEN start ELSE Step(g[d \ {Max(d)}], Max(d))]
  <2>1. \A d \in SUBSET (1..N) : d # {} => Max(d) \in 1..N /\ g[d \ {Max(d)}] \in Out
    BY GreatestUpTo
  <2>2. \A d \in SUBSET (1..N) : g[d] = IF d = {} THEN start ELSE Step(g[d \ {Max(d)}], Max(d))
    <3> HIDE DEF Step
    <3> QED BY <1>7, <1>9, <2>1 DEF FoldsLeft
  <2> QED BY <2>2
<1>11. iter = [d \in SUBSET (1..N) |-> IF d = {} THEN start ELSE Step(iter[d \ {Max(d)}], Max(d))]
  BY <1>10
<1>12. X!Resolve(entries) = IF iter[1..N] = <<>> THEN << <<conf.default, 0>> >> ELSE iter[1..N]
  BY <1>1, <1>2, <1>3 DEF X!Resolve, X!FoldLeft, X!MapThenFoldSet, X!Max, Max
<1> HIDE DEF iter, Step
<1>13. FoldsLeft(iter, N, Out, F, start)
  <2>1. \A d \in SUBSET (1..N) : d # {} => Max(d) \in 1..N
    BY GreatestUpTo
  <2> QED BY <1>7, <1>11, <2>1 DEF FoldsLeft
<1>14. PICK it : it = iter
  OBVIOUS
<1>15. FoldsLeft(it, N, Out, F, start)
  BY <1>13, <1>14
<1>16. it[1..N] \in Out
  BY <1>5, <1>8, <1>15, FoldLadder
<1>17. << <<conf.default, 0>> >> \in Calls
  BY DEF ConfFits, Calls
<1> QED BY <1>3, <1>12, <1>14, <1>16, <1>17

-----------------------------------------------------------------------------
(* The vote.                                                               *)

LEMMA SameCardinality == \A T : X!Cardinality(T) = Cardinality(T)
BY Zenon DEF X!Cardinality, Cardinality

(* Among any calls one is first in the order of their names.               *)
LEMMA FirstCall ==
    ASSUME NEW calls \in Calls, NEW up, up \subseteq DOMAIN calls, up # {}
    PROVE  \E i \in up : \A j \in up : X!KeyBefore(calls[i], calls[j])
<1>0. \A i \in up : calls[i] \in Nat \X Nat /\ calls[i][1] \in Nat /\ calls[i][2] \in Nat
  BY DEF Calls
<1>1. PICK A : A = {calls[i][1] : i \in up}
  OBVIOUS
<1>2. A \subseteq Nat /\ A # {}
  BY <1>0, <1>1
<1>3. PICK a \in A : \A y \in A : a <= y
  BY <1>2, LeastNumber
<1>4. PICK M : M = {calls[i][2] : i \in {k \in up : calls[k][1] = a}}
  OBVIOUS
<1>5. M \subseteq Nat /\ M # {}
  BY <1>0, <1>1, <1>3, <1>4
<1>6. PICK m \in M : \A y \in M : m <= y
  BY <1>5, LeastNumber
<1>7. PICK i \in up : calls[i][1] = a /\ calls[i][2] = m
  BY <1>4, <1>6
<1>8. ASSUME NEW j \in up PROVE X!KeyBefore(calls[i], calls[j])
  <2>1. a <= calls[j][1] /\ (calls[j][1] = a => m <= calls[j][2])
    BY <1>1, <1>3, <1>4, <1>6
  <2>2. a \in Nat /\ calls[j][1] \in Nat
    BY <1>0, <1>2
  <2> QED BY <1>7, <2>1, <2>2 DEF X!KeyBefore
<1> QED BY <1>8

LEMMA TwoParts ==
    ASSUME NEW u, NEW v, IsFiniteSet(u), IsFiniteSet(v), u \cap v = {}
    PROVE  /\ IsFiniteSet(u \cup v) /\ Cardinality(u) \in Nat /\ Cardinality(v) \in Nat
           /\ Cardinality(u \cup v) = Cardinality(u) + Cardinality(v)
<1>1. PICK a, b \in Nat : a = Cardinality(u) /\ b = Cardinality(v)
  BY FS_CardinalityType
<1>2. IsFiniteSet(u \cup v) /\ Cardinality(u \cup v) = Cardinality(u) + Cardinality(v) - Cardinality(u \cap v)
  BY FS_Union
<1>3. Cardinality(u \cap v) = 0
  BY FS_EmptySet
<1> QED BY <1>1, <1>2, <1>3

Parted(u, v, w, T) ==
    /\ IsFiniteSet(u) /\ IsFiniteSet(v) /\ IsFiniteSet(w)
    /\ u \cap v = {} /\ (u \cup v) \cap w = {} /\ (u \cup v) \cup w = T

LEMMA ThreeParts ==
    ASSUME NEW u, NEW v, NEW w, NEW T, Parted(u, v, w, T)
    PROVE  /\ Cardinality(u) \in Nat /\ Cardinality(v) \in Nat /\ Cardinality(w) \in Nat
           /\ Cardinality(u) + Cardinality(v) + Cardinality(w) = Cardinality(T)
<1> USE DEF Parted
<1>1. PICK d : d = u \cup v
  OBVIOUS
<1>2. IsFiniteSet(d) /\ Cardinality(d) = Cardinality(u) + Cardinality(v) /\ Cardinality(u) \in Nat /\ Cardinality(v) \in Nat
  BY <1>1, TwoParts
<1>3. Cardinality(d \cup w) = Cardinality(d) + Cardinality(w) /\ Cardinality(w) \in Nat
  BY <1>1, <1>2, TwoParts
<1> QED BY <1>1, <1>2, <1>3

(* Who votes yes, who votes no and who fails are all.                      *)
Cast(n, votes, y, m, f) ==
    /\ y = {i \in 1..n : votes[i] = "yes"} /\ m = {i \in 1..n : votes[i] = "no"}
    /\ f = {i \in 1..n : votes[i] = "fail"}

LEMMA VotesPartition ==
    ASSUME NEW n \in Nat, NEW votes \in [1..n -> {"yes", "no", "fail"}],
           NEW y, NEW m, NEW f, Cast(n, votes, y, m, f)
    PROVE  /\ Cardinality(y) \in Nat /\ Cardinality(m) \in Nat /\ Cardinality(f) \in Nat
           /\ Cardinality(y) + Cardinality(m) + Cardinality(f) = n
<1>1. IsFiniteSet(1..n) /\ Cardinality(1..n) = n
  BY FS_Interval
<1>2. IsFiniteSet(y) /\ IsFiniteSet(m) /\ IsFiniteSet(f)
  <2>1. y \subseteq 1..n /\ m \subseteq 1..n /\ f \subseteq 1..n
    BY DEF Cast
  <2> QED BY <1>1, <2>1, FS_Subset
<1>3. /\ IsFiniteSet(y \cup m) /\ y \cap m = {} /\ (y \cup m) \cap f = {} /\ (y \cup m) \cup f = 1..n
  <2>1. IsFiniteSet(y \cup m)
    BY <1>2, FS_Union
  <2>2. y \cap m = {} /\ (y \cup m) \cap f = {}
    BY DEF Cast
  <2>3. \A i \in 1..n : votes[i] \in {"yes", "no", "fail"}
    OBVIOUS
  <2>4. (y \cup m) \cup f = 1..n
    BY <2>3 DEF Cast
  <2> QED BY <2>1, <2>2, <2>4
<1>4. Parted(y, m, f, 1..n)
  BY <1>2, <1>3 DEF Parted
<1> QED BY <1>1, <1>4, ThreeParts

(* What run_consensus promises of the calls it made.                       *)
MajorityOf(calls, default) ==
    \A votes \in [DOMAIN calls -> {"yes", "no", "fail"}] :
        LET count(v) == X!Cardinality({i \in DOMAIN votes : votes[i] = v})
            verdict  == X!Aggregate(calls, votes, default)
            mine     == {i \in DOMAIN votes : calls[i][1] = default}
        IN  /\ verdict = "error" <=> count("fail") = Len(calls)
            /\ verdict \in {"yes", "no"} => count(verdict) * 2 >= Len(calls) - count("fail")
            /\ count("yes") = count("no") /\ count("yes") > 0 /\ mine # {} /\ votes[X!Min(mine)] # "fail"
                 => verdict = votes[X!Min(mine)]

(* Aggregate, from the counts of failures, free texts, yes and no.         *)
Decided(cf, ct, cy, cm, n, tie) ==
    IF cf = n THEN "error"
    ELSE IF ct > 0 THEN "synthesise"
    ELSE IF cy > cm THEN "yes"
    ELSE IF cm > cy THEN "no"
    ELSE tie

LEMMA SomebodyAnswered ==
    ASSUME NEW n \in Nat, NEW votes \in [1..n -> {"yes", "no", "fail"}],
           NEW y, NEW m, NEW f, Cast(n, votes, y, m, f), Cardinality(f) # n
    PROVE  \E i \in 1..n : votes[i] # "fail"
<1> SUFFICES ASSUME \A i \in 1..n : votes[i] = "fail" PROVE FALSE
  OBVIOUS
<1>1. f = 1..n
  BY DEF Cast
<1>2. Cardinality(1..n) = n
  BY FS_Interval
<1> QED BY <1>1, <1>2

(* Whoever settles a tie has answered it.                                  *)
Split(calls, votes, default, up, mine) ==
    /\ up = {i \in DOMAIN calls : votes[i] # "fail"}
    /\ mine = {i \in DOMAIN calls : calls[i][1] = default}

LEMMA TieIsAnswered ==
    ASSUME NEW calls \in Calls, NEW default, NEW votes \in [DOMAIN calls -> {"yes", "no", "fail"}],
           NEW up, NEW mine, Split(calls, votes, default, up, mine), up # {},
           NEW w, w = X!TieWinner(calls, votes, default)
    PROVE  /\ w \in {"yes", "no"}
           /\ mine # {} /\ X!Min(mine) \in up => w = votes[X!Min(mine)]
<1>1. up \subseteq DOMAIN calls /\ \A i \in up : votes[i] \in {"yes", "no"}
  BY DEF Split
<1>2. PICK c : c = CHOOSE i \in up : \A j \in up : X!KeyBefore(calls[i], calls[j])
  OBVIOUS
<1>3. c \in up
  <2>1. \E i \in up : \A j \in up : X!KeyBefore(calls[i], calls[j])
    BY <1>1, FirstCall
  <2> QED BY <1>2, <2>1
<1>4. w = IF mine # {} /\ X!Min(mine) \in up THEN votes[X!Min(mine)] ELSE votes[c]
  BY <1>2 DEF X!TieWinner, Split
<1> QED BY <1>1, <1>3, <1>4

LEMMA LeastMine ==
    ASSUME NEW mine, mine \subseteq Nat, mine # {}
    PROVE  X!Min(mine) \in mine
<1>1. \E x \in mine : \A y \in mine : x <= y
  BY LeastNumber
<1> QED BY <1>1 DEF X!Min

LEMMA MajorityHolds ==
    ASSUME NEW calls \in Calls, calls # <<>>, NEW default
    PROVE  MajorityOf(calls, default)
<1> SUFFICES ASSUME NEW votes \in [DOMAIN calls -> {"yes", "no", "fail"}]
             PROVE  LET count(v) == X!Cardinality({i \in DOMAIN votes : votes[i] = v})
                        verdict  == X!Aggregate(calls, votes, default)
                        mine     == {i \in DOMAIN votes : calls[i][1] = default}
                    IN  /\ verdict = "error" <=> count("fail") = Len(calls)
                        /\ verdict \in {"yes", "no"} => count(verdict) * 2 >= Len(calls) - count("fail")
                        /\ count("yes") = count("no") /\ count("yes") > 0 /\ mine # {} /\ votes[X!Min(mine)] # "fail"
                             => verdict = votes[X!Min(mine)]
  BY DEF MajorityOf
<1>1. PICK n \in Nat : n = Len(calls) /\ DOMAIN calls = 1..n /\ n > 0
  BY DEF Calls
<1>2. DOMAIN votes = 1..n /\ votes \in [1..n -> {"yes", "no", "fail"}]
  BY <1>1
<1>3. PICK y, m, f, t : /\ y = {i \in 1..n : votes[i] = "yes"} /\ m = {i \in 1..n : votes[i] = "no"}
                        /\ f = {i \in 1..n : votes[i] = "fail"} /\ t = {i \in 1..n : votes[i] = "text"}
  OBVIOUS
<1>4. PICK cy, cm, cf \in Nat : /\ cy = Cardinality(y) /\ cm = Cardinality(m) /\ cf = Cardinality(f)
                                /\ cy + cm + cf = n
  <2>1. /\ Cardinality(y) \in Nat /\ Cardinality(m) \in Nat /\ Cardinality(f) \in Nat
        /\ Cardinality(y) + Cardinality(m) + Cardinality(f) = n
    <3>1. Cast(n, votes, y, m, f)
      BY <1>3 DEF Cast
    <3> QED BY <1>2, <3>1, VotesPartition
  <2> QED BY <2>1
<1>5. Cardinality(t) = 0
  BY <1>2, <1>3, FS_EmptySet
<1>6. PICK w : w = X!TieWinner(calls, votes, default)
  OBVIOUS
<1>7. PICK verdict : verdict = X!Aggregate(calls, votes, default)
  OBVIOUS
<1>8. verdict = IF cf = n THEN "error" ELSE IF cy > cm THEN "yes" ELSE IF cm > cy THEN "no" ELSE w
  <2>1. /\ {i \in DOMAIN calls : votes[i] = "yes"} = y /\ {i \in DOMAIN calls : votes[i] = "no"} = m
        /\ {i \in DOMAIN calls : votes[i] = "fail"} = f /\ {i \in DOMAIN calls : votes[i] = "text"} = t
    BY <1>1, <1>3
  <2>2. /\ X!Cardinality(y) = cy /\ X!Cardinality(m) = cm /\ X!Cardinality(f) = cf
        /\ X!Cardinality(t) = 0
    BY <1>4, <1>5, SameCardinality
  <2>3. verdict = Decided(X!Cardinality({i \in DOMAIN calls : votes[i] = "fail"}),
                          X!Cardinality({i \in DOMAIN calls : votes[i] = "text"}),
                          X!Cardinality({i \in DOMAIN calls : votes[i] = "yes"}),
                          X!Cardinality({i \in DOMAIN calls : votes[i] = "no"}), Len(calls), w)
    BY <1>6, <1>7 DEF X!Aggregate, Decided
  <2>4. verdict = Decided(cf, 0, cy, cm, n, w)
    BY <1>1, <2>1, <2>2, <2>3
  <2> QED BY <2>4 DEF Decided
<1>9. PICK mine : mine = {i \in 1..n : calls[i][1] = default}
  OBVIOUS
<1>10. PICK up : up = {i \in 1..n : votes[i] # "fail"}
  OBVIOUS
<1>11. ASSUME cf # n
       PROVE  /\ w \in {"yes", "no"}
              /\ mine # {} /\ X!Min(mine) \in up => w = votes[X!Min(mine)]
  <2>1. up # {}
    <3>1. Cast(n, votes, y, m, f) /\ Cardinality(f) # n
      BY <1>3, <1>4, <1>11 DEF Cast
    <3>2. \E i \in 1..n : votes[i] # "fail"
      BY <1>2, <3>1, SomebodyAnswered
    <3> QED BY <1>10, <3>2
  <2>2. Split(calls, votes, default, up, mine)
    BY <1>1, <1>9, <1>10 DEF Split
  <2> QED BY <1>6, <2>1, <2>2, TieIsAnswered
<1>12. mine # {} => X!Min(mine) \in 1..n
  <2>1. mine \subseteq Nat /\ mine \subseteq 1..n
    BY <1>9
  <2> QED BY <2>1, LeastMine
<1>13. verdict = "error" <=> cf = n
  BY <1>8, <1>11
<1>14. (verdict = "yes" => cy * 2 >= n - cf) /\ (verdict = "no" => cm * 2 >= n - cf)
  <2>1. CASE cf = n
    BY <1>8, <2>1
  <2>2. CASE cf # n /\ cy > cm
    BY <1>4, <1>8, <2>2
  <2>3. CASE cf # n /\ cm > cy
    BY <1>4, <1>8, <2>3
  <2>4. CASE cf # n /\ ~(cm > cy) /\ ~(cy > cm)
    BY <1>4, <2>4
  <2> QED BY <2>1, <2>2, <2>3, <2>4
<1>15. cy = cm /\ cy > 0 /\ mine # {} /\ votes[X!Min(mine)] # "fail" => verdict = votes[X!Min(mine)]
  <2> SUFFICES ASSUME cy = cm, cy > 0, mine # {}, votes[X!Min(mine)] # "fail"
               PROVE  verdict = votes[X!Min(mine)]
    OBVIOUS
  <2>1. cf # n
    BY <1>4
  <2>2. verdict = w
    BY <1>8, <2>1
  <2>3. X!Min(mine) \in up
    BY <1>10, <1>12
  <2> QED BY <1>11, <2>1, <2>2, <2>3
<1>16. /\ X!Cardinality({i \in DOMAIN votes : votes[i] = "yes"}) = cy
       /\ X!Cardinality({i \in DOMAIN votes : votes[i] = "no"}) = cm
       /\ X!Cardinality({i \in DOMAIN votes : votes[i] = "fail"}) = cf
  BY <1>2, <1>3, <1>4, SameCardinality
<1>17. verdict \in {"yes", "no"} =>
          X!Cardinality({i \in DOMAIN votes : votes[i] = verdict}) * 2 >= n - cf
  BY <1>14, <1>16
<1>18. {i \in DOMAIN votes : calls[i][1] = default} = mine
  BY <1>2, <1>9
<1> QED BY <1>1, <1>7, <1>13, <1>15, <1>16, <1>17, <1>18

-----------------------------------------------------------------------------
(* What the updates of a frame make of it.                                 *)

Marks == {"submitted", "working", "message", "completed", "failed"}

Shape == [in : Inputs, stage : X!Stages, poll : BOOLEAN, want : Nat, model : Nat,
          bid : Nat, gen : Nat, default : Nat, calls : Calls, ok : BOOLEAN,
          events : Seq(Marks), cut : BOOLEAN]

LEMMA FrameShape == X!Frame = Shape
BY Zenon DEF X!Frame, Shape, Calls, Marks

LEMMA SeqGrows ==
    ASSUME NEW S, NEW q \in Seq(S), NEW e \in S
    PROVE  Append(q, e) \in Seq(S) /\ <<>> \in Seq(S)
OBVIOUS

LEMMA EmptySeq ==
    ASSUME NEW S
    PROVE  <<>> \in Seq(S)
OBVIOUS

LEMMA NoCalls == <<>> \in Calls
BY DEF Calls

LEMMA DoneIsFrame ==
    ASSUME NEW rec \in X!Frame, NEW x, x = X!Done(rec)
    PROVE  x \in X!Frame /\ x.stage = "done" /\ x.gen = 0
<1>1. PICK none \in Calls : none = <<>>
  BY NoCalls
<1>2. x = [rec EXCEPT !.stage = "done", !.want = 0, !.model = 0, !.bid = 0,
                      !.gen = 0, !.default = 0, !.calls = none]
  BY <1>1 DEF X!Done
<1>3. rec \in Shape
  BY FrameShape
<1>4. "done" \in X!Stages
  BY DEF X!Stages
<1>5. x = [in |-> rec.in, stage |-> "done", poll |-> rec.poll, want |-> 0, model |-> 0, bid |-> 0,
           gen |-> 0, default |-> 0, calls |-> none, ok |-> rec.ok, events |-> rec.events,
           cut |-> rec.cut]
  BY <1>2, <1>3 DEF Shape
<1>6. x \in Shape /\ x.stage = "done" /\ x.gen = 0
  BY <1>3, <1>4, <1>5 DEF Shape
<1> QED BY <1>6, FrameShape

LEMMA EmitIsFrame ==
    ASSUME NEW rec \in X!Frame, NEW e \in Marks, NEW x, x = X!Emit(rec, e)
    PROVE  /\ x \in X!Frame
           /\ x.in = rec.in /\ x.stage = rec.stage /\ x.poll = rec.poll /\ x.gen = rec.gen
           /\ x.calls = rec.calls /\ x.model = rec.model /\ x.bid = rec.bid /\ x.want = rec.want
<1>1. CASE rec.in.kind = "a2a"
  <2>0. rec \in Shape
    BY FrameShape
  <2>1. rec.events \in Seq(Marks)
    BY <2>0 DEF Shape
  <2>2. PICK ev : ev = Append(rec.events, e)
    OBVIOUS
  <2>4. ev \in Seq(Marks)
    BY <2>1, <2>2, SeqGrows
  <2>3. x = [rec EXCEPT !.events = ev]
    BY <1>1, <2>2 DEF X!Emit
  <2> QED BY <2>0, <2>3, <2>4, FrameShape DEF Shape
<1>2. CASE rec.in.kind # "a2a"
  <2>1. x = rec
    BY <1>2 DEF X!Emit
  <2> QED BY <2>1
<1> QED BY <1>1, <1>2

LEMMA StageIsFrame ==
    ASSUME NEW rec \in X!Frame, NEW s \in X!Stages, NEW x, x = [rec EXCEPT !.stage = s]
    PROVE  /\ x \in X!Frame /\ x.stage = s
           /\ x.in = rec.in /\ x.gen = rec.gen /\ x.calls = rec.calls
           /\ x.model = rec.model /\ x.bid = rec.bid
BY FrameShape DEF Shape

LEMMA CutIsFrame ==
    ASSUME NEW rec \in X!Frame, NEW x, x = [rec EXCEPT !.cut = TRUE]
    PROVE  x \in X!Frame /\ x.in = rec.in
BY FrameShape DEF Shape

LEMMA OkIsFrame ==
    ASSUME NEW rec \in X!Frame, NEW b \in BOOLEAN, NEW x, x = [rec EXCEPT !.ok = b]
    PROVE  x \in X!Frame
BY FrameShape DEF Shape

LEMMA PollIsFrame ==
    ASSUME NEW rec \in X!Frame, NEW x, x = [rec EXCEPT !.stage = "start", !.poll = TRUE]
    PROVE  x \in X!Frame /\ x.stage = "start" /\ x.in = rec.in /\ x.gen = rec.gen
BY FrameShape DEF Shape, X!Stages

LEMMA ReplyIsFrame ==
    ASSUME NEW rec \in X!Frame, NEW x, x = [rec EXCEPT !.stage = "reply", !.ok = TRUE]
    PROVE  x \in X!Frame /\ x.stage = "reply" /\ x.in = rec.in /\ x.gen = rec.gen
BY FrameShape DEF Shape, X!Stages

Queried(x, rec, b, n, d, calls) ==
    x = [rec EXCEPT !.stage = "query", !.bid = b, !.gen = n, !.default = d, !.calls = calls]

LEMMA QueryIsFrame ==
    ASSUME NEW rec \in X!Frame, NEW b \in Nat, NEW n \in Nat, NEW d \in Nat, NEW calls \in Calls,
           NEW x, Queried(x, rec, b, n, d, calls)
    PROVE  /\ x \in X!Frame /\ x.stage = "query" /\ x.in = rec.in /\ x.gen = n /\ x.calls = calls
           /\ x.bid = b /\ x.model = rec.model
BY FrameShape DEF Shape, X!Stages, Queried

(* Resolution: the backend, and the model that goes with it.               *)
LEMMA ResolvedModel ==
    ASSUME ConfFits(conf), NEW in \in Inputs, NEW b \in Nat, NEW entry, entry = conf.routing[in.kind],
           NEW m, m = X!ResolveModel(in.model, entry, b)
    PROVE  /\ m \in Nat
           /\ m \in {in.model, 0, conf.models[b]} \cup
                {conf.routing[f].model : f \in {g \in DOMAIN conf.routing : conf.routing[g].agent = b}}
<1>1. /\ in.model \in Nat /\ in.kind \in DOMAIN conf.routing
      /\ entry \in X!Route
  BY PromptsAssumption DEF X!ExecutionAssumption, ConfFits
<1>2. entry.model \in Nat
  BY <1>1 DEF X!Route
<1>3. CASE in.model # 0
  <2>1. m = in.model
    BY <1>3 DEF X!ResolveModel
  <2> QED BY <1>1, <2>1
<1>4. CASE in.model = 0 /\ entry.model # 0 /\ entry.agent = b
  <2>1. m = entry.model
    BY <1>4 DEF X!ResolveModel
  <2> QED BY <1>1, <1>2, <1>4, <2>1
<1>5. CASE in.model = 0 /\ ~(entry.model # 0 /\ entry.agent = b) /\ X!Contains(conf.order, b)
  <2>1. m = conf.models[b]
    BY <1>5 DEF X!ResolveModel
  <2>2. conf.models[b] \in Nat
    BY <1>5 DEF X!Contains, ConfFits
  <2> QED BY <2>1, <2>2
<1>6. CASE in.model = 0 /\ ~(entry.model # 0 /\ entry.agent = b) /\ ~X!Contains(conf.order, b)
  <2>1. m = 0
    BY <1>6 DEF X!ResolveModel
  <2> QED BY <2>1
<1> QED BY <1>3, <1>4, <1>5, <1>6

LEMMA FreshIsFrame ==
    ASSUME ConfFits(conf), NEW in \in Inputs, NEW x, x = X!Fresh(in)
    PROVE  /\ x \in X!Frame /\ x.in = in /\ x.stage = "start" /\ x.gen = 0 /\ x.calls = <<>>
           /\ X!Or(x.want, conf.default) \in Nat
           /\ x.model \in {in.model, 0, conf.models[X!Or(x.want, conf.default)]} \cup
                {conf.routing[f].model :
                   f \in {g \in DOMAIN conf.routing : conf.routing[g].agent = X!Or(x.want, conf.default)}}
<1>1. PICK entry : entry = conf.routing[in.kind]
  OBVIOUS
<1>2. entry \in X!Route /\ in.backend \in Nat /\ conf.default \in Nat
  BY <1>1, PromptsAssumption DEF X!ExecutionAssumption, ConfFits
<1>3. PICK want \in Nat : want = X!Or(in.backend, entry.agent)
  BY <1>2 DEF X!Or, X!Route
<1>4. PICK b \in Nat : b = X!Or(want, conf.default)
  BY <1>2 DEF X!Or
<1>5. PICK m : m = X!ResolveModel(in.model, entry, b)
  OBVIOUS
<1>6. /\ m \in Nat
      /\ m \in {in.model, 0, conf.models[b]} \cup
           {conf.routing[f].model : f \in {g \in DOMAIN conf.routing : conf.routing[g].agent = b}}
  BY <1>1, <1>5, ResolvedModel
<1>7. x = [in |-> in, stage |-> "start", poll |-> FALSE, want |-> want, model |-> m,
           bid |-> 0, gen |-> 0, default |-> conf.default, calls |-> <<>>, ok |-> FALSE,
           events |-> <<>>, cut |-> FALSE]
  BY <1>1, <1>3, <1>4, <1>5 DEF X!Fresh, X!RouteFor
<1>8. x \in X!Frame
  <2>1. PICK none \in Calls : none = <<>>
    BY NoCalls
  <2>2. PICK quiet \in Seq(Marks) : quiet = <<>>
    BY EmptySeq
  <2> QED BY <1>2, <1>6, <1>7, <2>1, <2>2, FrameShape DEF Shape, X!Stages
<1>9. x.want = want /\ x.model = m /\ x.in = in /\ x.stage = "start" /\ x.gen = 0 /\ x.calls = <<>>
  BY <1>7
<1> QED BY <1>4, <1>6, <1>8, <1>9

-----------------------------------------------------------------------------
(* The session LRU and the pool of background tasks.                       *)

LEMMA SameSequences ==
    /\ \A q, p : X!RemoveFirst(q, p) = RemoveFirst(q, p)
    /\ \A q, p : X!Contains(q, p) <=> \E i \in 1..Len(q) : q[i] = p
BY Zenon DEF X!RemoveFirst, RemoveFirst, X!RemoveAt, RemoveAt, X!SelectInSeq, SelectInSeq, X!Min, Min, X!Contains

LEMMA KeyRemovedLen ==
    ASSUME NEW S, NEW q \in Seq(S), NEW p, KeysApart(q), NEW a \in 1..Len(q), q[a] = p
    PROVE  Len(RemoveFirst(q, p)) = Len(q) - 1
<1>1. {i \in 1..Len(q) : q[i] = p} = {a}
  BY DEF KeysApart
<1>2. Min({a}) = a
  BY DEF Min
<1>3. RemoveFirst(q, p) = RemoveAt(q, a)
  BY <1>1, <1>2 DEF RemoveFirst, SelectInSeq
<1> QED BY <1>3, PlaceRemoved

LEMMA TailDrops ==
    ASSUME NEW S, NEW q \in Seq(S), Len(q) > 0
    PROVE  /\ Tail(q) \in Seq(S) /\ Len(Tail(q)) = Len(q) - 1
           /\ \A i \in 1..Len(q) - 1 : Tail(q)[i] = q[i + 1]
<1>1. q # <<>>
  OBVIOUS
<1> QED BY <1>1

LEMMA LruSteps ==
    ASSUME LruFits, NEW s \in Sessions, X!TrackSession(s)
    PROVE  LruFits'
<1>1. PICK S, q : S = Sessions /\ q = sessions
  OBVIOUS
<1>2. q \in Seq(S) /\ KeysApart(q) /\ Len(q) <= MaxSessions /\ s \in S /\ MaxSessions \in Nat \ {0}
  BY <1>1, PromptsAssumption DEF LruFits, X!ExecutionAssumption
<1>3. CASE \E i \in 1..Len(q) : q[i] = s
  <2>1. sessions' = Append(RemoveFirst(q, s), s)
    BY <1>1, <1>3, SameSequences DEF X!TrackSession
  <2>2. PICK o : o = RemoveFirst(q, s)
    OBVIOUS
  <2>3. o \in Seq(S) /\ Len(o) = Len(q) - 1
    BY <1>2, <1>3, <2>2, KeyRemoved, KeyRemovedLen
  <2>4. Len(Append(o, s)) = Len(q)
    BY <1>2, <2>3
  <2>5. Append(o, s) \in Seq(S) /\ KeysApart(Append(o, s))
    BY <1>2, <2>2, KeyToEnd
  <2> QED BY <1>1, <1>2, <2>1, <2>2, <2>4, <2>5 DEF LruFits, Sessions
<1>4. CASE (\A i \in 1..Len(q) : q[i] # s) /\ Len(q) >= MaxSessions
  <2>1. sessions' = Append(Tail(q), s)
    BY <1>1, <1>4, SameSequences DEF X!TrackSession
  <2>2. PICK o \in Seq(S) : /\ o = Tail(q) /\ Len(o) = Len(q) - 1
                            /\ \A i \in 1..Len(o) : o[i] = q[i + 1]
    <3>1. Len(q) > 0
      BY <1>2, <1>4
    <3>2. PICK o : o = Tail(q)
      OBVIOUS
    <3>3. o \in Seq(S) /\ Len(o) = Len(q) - 1 /\ \A i \in 1..Len(q) - 1 : o[i] = q[i + 1]
      BY <1>2, <3>1, <3>2, TailDrops
    <3> QED BY <3>2, <3>3
  <2>3. PICK z : z = Append(o, s)
    OBVIOUS
  <2>4. /\ z \in Seq(S) /\ Len(z) = Len(q)
        /\ \A i \in 1..Len(o) : z[i] = q[i + 1] /\ i + 1 \in 1..Len(q)
        /\ z[Len(q)] = s
    BY <1>2, <2>2, <2>3
  <2>5. KeysApart(z)
    <3> SUFFICES ASSUME NEW i \in 1..Len(z), NEW j \in 1..Len(z), z[i] = z[j] PROVE i = j
      BY DEF KeysApart
    <3>1. \A k \in 1..Len(z) : k \in 1..Len(o) \/ k = Len(q)
      <4>1. Len(q) \in Nat /\ Len(z) = Len(q) /\ Len(o) = Len(q) - 1
        BY <1>2, <2>2, <2>4
      <4> QED BY <4>1
    <3>2. i \in 1..Len(o) /\ j \in 1..Len(o) => i = j
      <4> SUFFICES ASSUME i \in 1..Len(o), j \in 1..Len(o) PROVE i = j
        OBVIOUS
      <4>1. q[i + 1] = q[j + 1] /\ i + 1 \in 1..Len(q) /\ j + 1 \in 1..Len(q)
        BY <2>4
      <4>2. i + 1 = j + 1
        BY <1>2, <4>1 DEF KeysApart
      <4> QED BY <4>2
    <3>3. \A k \in 1..Len(o) : z[k] # s
      BY <1>4, <2>4
    <3> QED BY <2>4, <3>1, <3>2, <3>3
  <2> QED BY <1>1, <1>2, <2>1, <2>2, <2>3, <2>4, <2>5 DEF LruFits, Sessions
<1>5. CASE (\A i \in 1..Len(q) : q[i] # s) /\ ~(Len(q) >= MaxSessions)
  <2>1. RemoveFirst(q, s) = q
    BY <1>5 DEF RemoveFirst
  <2>2. sessions' = Append(q, s)
    BY <1>1, <1>5, <2>1, SameSequences DEF X!TrackSession
  <2>3. Append(q, s) \in Seq(S) /\ KeysApart(Append(q, s))
    BY <1>2, <2>1, KeyToEnd
  <2>4. Len(Append(q, s)) <= MaxSessions
    BY <1>2, <1>5
  <2> QED BY <1>1, <2>2, <2>3, <2>4 DEF LruFits, Sessions
<1> QED BY <1>3, <1>4, <1>5

LEMMA Caps == BgMax \in Nat /\ BgCriticalMax \in Nat
BY PromptsAssumption DEF X!ExecutionAssumption

LEMMA PoolCounts ==
    ASSUME PoolFits
    PROVE  /\ Cardinality(fan) \in Nat /\ others["normal"] \in Nat /\ others["critical"] \in Nat
           /\ X!Occupied = Cardinality(fan) + others["normal"] + others["critical"]
<1>1. Cardinality(fan) \in Nat
  BY FS_CardinalityType DEF PoolFits
<1>2. others["normal"] \in Nat /\ others["critical"] \in Nat
  BY DEF PoolFits, Classes
<1> QED BY <1>1, <1>2, SameCardinality DEF X!Occupied

LEMMA TellFits ==
    ASSUME PoolFits, told \in [Reqs -> Nat], NEW r \in Reqs, X!Tell(r), others' = others
    PROVE  PoolFits' /\ told' \in [Reqs -> Nat]
<1>1. CASE X!Occupied >= BgMax
  <2>1. fan' = fan /\ told' = [told EXCEPT ![r] = @ + 1]
    BY <1>1 DEF X!Tell
  <2> QED BY <2>1 DEF PoolFits
<1>2. CASE ~(X!Occupied >= BgMax)
  <2>1. fan' = fan \cup {r} /\ told' = told
    BY <1>2 DEF X!Tell
  <2>2. IsFiniteSet(fan)
    BY DEF PoolFits
  <2>3. PICK n, m \in Nat : n = Cardinality(fan) /\ m = Cardinality(fan') /\ m <= n + 1 /\ IsFiniteSet(fan')
    BY <2>1, <2>2, FS_AddElement, FS_CardinalityType
  <2>4. /\ others["normal"] \in Nat /\ others["critical"] \in Nat
        /\ n + others["normal"] + others["critical"] < BgMax
    BY <1>2, <2>3, PoolCounts, Caps
  <2>5. Within(m, others)
    BY <2>3, <2>4, Caps DEF Within
  <2> QED BY <2>1, <2>3, <2>5 DEF PoolFits
<1> QED BY <1>1, <1>2

LEMMA SpawnFits ==
    ASSUME PoolFits, NEW class \in Classes, X!Spawn(class) \/ X!SpawnedEnds(class)
    PROVE  PoolFits'
<1>1. PICK n, a, b \in Nat : /\ n = Cardinality(fan) /\ a = others["normal"] /\ b = others["critical"]
                             /\ X!Occupied = n + a + b
  BY PoolCounts
<1>2. others \in [Classes -> Nat] /\ fan' = fan /\ Within(n, others)
  BY <1>1 DEF PoolFits, X!Spawn, X!SpawnedEnds
<1>3. CASE X!Spawn("normal")
  <2>1. others' \in [Classes -> Nat] /\ others'["normal"] = a + 1 /\ others'["critical"] = b /\ n + a + b < BgMax
    BY <1>1, <1>2, <1>3, Caps DEF X!Spawn, Classes
  <2>2. Within(n, others')
    BY <2>1, Caps DEF Within
  <2> QED BY <1>1, <1>2, <2>1, <2>2 DEF PoolFits
<1>4. CASE X!Spawn("critical")
  <2>1. others' \in [Classes -> Nat] /\ others'["normal"] = a /\ others'["critical"] = b + 1 /\ n + a + b < BgCriticalMax
    BY <1>1, <1>2, <1>4, Caps DEF X!Spawn, Classes
  <2>2. Within(n, others')
    BY <1>1, <1>2, <2>1, Caps DEF Within
  <2> QED BY <1>1, <1>2, <2>1, <2>2 DEF PoolFits
<1>5. CASE X!SpawnedEnds(class)
  <2>1. others' \in [Classes -> Nat] /\ others'["normal"] \in Nat /\ others'["critical"] \in Nat
        /\ others'["normal"] <= a /\ others'["critical"] <= b
    BY <1>1, <1>2, <1>5 DEF X!SpawnedEnds, Classes
  <2>2. Within(n, others')
    BY <1>1, <1>2, <2>1, Caps DEF Within
  <2> QED BY <1>1, <1>2, <2>1, <2>2 DEF PoolFits
<1> QED BY <1>3, <1>4, <1>5 DEF Classes

-----------------------------------------------------------------------------
(* The steps.                                                              *)
Phases == {"up", "bus", "drained", "closed", "exit"}

LEMMA FitsAreFrames ==
    ASSUME NEW x, NEW c, NEW n, FrameFits(x, c, n)
    PROVE  x \in X!Frame /\ x.gen <= n /\ x.in \in Inputs /\ x # X!Idle
<1>1. x \in Shape
  BY FrameShape DEF FrameFits
<1>2. x.stage \in X!Stages /\ x.in \in Inputs
  BY <1>1 DEF Shape
<1>3. x # X!Idle
  BY <1>2 DEF X!Idle, X!Stages
<1> QED BY <1>2, <1>3 DEF FrameFits

(* A frame that neither waits to query nor queries fits.                   *)
LEMMA PlainFits ==
    ASSUME NEW x \in X!Frame, NEW c, NEW n, x.gen <= n,
           x.stage \in {"reply", "failing", "done"}
    PROVE  FrameFits(x, c, n)
BY DEF FrameFits, InForce

LEMMA WaitingFits ==
    ASSUME NEW x \in X!Frame, NEW c, NEW n, x.gen <= n,
           x.stage \in {"submit", "start"}, ~x.in.blocking
    PROVE  FrameFits(x, c, n)
BY DEF FrameFits, InForce

LEMMA OneFrame ==
    ASSUME FramesFit, NEW r \in Reqs, NEW x, FrameFits(x, conf, reloads),
           req' = [req EXCEPT ![r] = x], UNCHANGED <<conf, reloads>>
    PROVE  FramesFit'
<1>1. DOMAIN req' = Reqs /\ req'[r] = x /\ \A q \in Reqs \ {r} : req'[q] = req[q]
  BY DEF FramesFit
<1> QED BY <1>1 DEF FramesFit

LEMMA ReloadsIn == MaxReloads \in Nat
BY PromptsAssumption DEF X!ExecutionAssumption

LEMMA DoneFits ==
    ASSUME Versions, NEW rec \in X!Frame, NEW x, x = X!Done(rec), NEW c
    PROVE  FrameFits(x, c, reloads)
<1>1. x \in X!Frame /\ x.stage = "done" /\ x.gen = 0
  BY DoneIsFrame
<1>2. x.gen <= reloads
  BY <1>1, ReloadsIn DEF Versions
<1> QED BY <1>1, <1>2, PlainFits

LEMMA FinishAnswers ==
    ASSUME AnswerInv, NEW r \in Reqs, NEW rec \in X!Frame, X!Finish(r, rec),
           UNCHANGED <<conf, reloads, failures, sessions, others>>, closing' \in Phases
    PROVE  AnswerInv'
<1>1. PICK x : x = X!Done(rec)
  OBVIOUS
<1>2. FrameFits(x, conf, reloads)
  BY <1>1, DoneFits DEF AnswerInv
<1>3. req' = [req EXCEPT ![r] = x] /\ X!Tell(r) /\ running' = running \ {r}
  BY <1>1 DEF X!Finish
<1>4. FramesFit'
  BY <1>2, <1>3, OneFrame DEF AnswerInv
<1>5. PoolFits' /\ told' \in [Reqs -> Nat]
  BY <1>3, TellFits DEF AnswerInv, Rest
<1>6. Versions' /\ LruFits' /\ ConfFits(conf)'
  BY DEF AnswerInv, Versions, LruFits, ConfFits
<1>7. Rest'
  BY <1>3, <1>5 DEF AnswerInv, Rest, Phases
<1> QED BY <1>4, <1>5, <1>6, <1>7 DEF AnswerInv

(* The frame of r changes and nothing is told.                             *)
LEMMA FrameAnswers ==
    ASSUME AnswerInv, NEW r \in Reqs, NEW x, FrameFits(x, conf, reloads),
           req' = [req EXCEPT ![r] = x], running' \in SUBSET Reqs, LruFits',
           UNCHANGED <<conf, reloads, failures, fan, others, told, closing>>
    PROVE  AnswerInv'
<1>1. FramesFit'
  BY OneFrame DEF AnswerInv
<1>2. PoolFits' /\ Versions' /\ Rest' /\ ConfFits(conf)'
  BY DEF AnswerInv, PoolFits, Versions, Rest, ConfFits
<1> QED BY <1>1, <1>2 DEF AnswerInv

LEMMA RaiseAnswers ==
    ASSUME AnswerInv, NEW r \in Reqs, NEW rec \in X!Frame, rec.gen <= reloads, X!Raise(r, rec),
           UNCHANGED <<conf, reloads, failures, sessions, others, closing>>
    PROVE  AnswerInv'
<1>1. CASE X!Finish(r, rec)
  <2>1. closing' \in Phases
    BY DEF AnswerInv, Rest, Phases
  <2> QED BY <1>1, <2>1, FinishAnswers
<1>2. CASE ~X!Finish(r, rec)
  <2>1. PICK x : x = [rec EXCEPT !.stage = "failing"]
    OBVIOUS
  <2>2. x \in X!Frame /\ x.stage = "failing" /\ x.gen <= reloads
    BY <2>1, StageIsFrame DEF X!Stages
  <2>3. FrameFits(x, conf, reloads)
    BY <2>2, PlainFits
  <2>4. req' = [req EXCEPT ![r] = x] /\ UNCHANGED <<running, fan, told>>
    BY <1>2, <2>1 DEF X!Raise
  <2>5. running' \in SUBSET Reqs /\ LruFits'
    BY <2>4 DEF AnswerInv, Rest, LruFits
  <2> QED BY <2>3, <2>4, <2>5, FrameAnswers
<1> QED BY <1>1, <1>2

(* A query of a blocking call carries a model that fits.                   *)
Suits(m, in, c, b) ==
    m \in {in.model, 0, c.models[b]} \cup
        {c.routing[f].model : f \in {g \in DOMAIN c.routing : c.routing[g].agent = b}}

LEMMA QueryAnswers ==
    ASSUME AnswerInv, NEW r \in Reqs, NEW rec \in X!Frame, rec.gen <= reloads, NEW calls \in Calls,
           X!Or(rec.want, conf.default) \in Nat,
           rec.in.blocking => Suits(rec.model, rec.in, conf, X!Or(rec.want, conf.default)),
           X!Query(r, rec, calls), UNCHANGED <<conf, reloads, failures, others, closing>>
    PROVE  AnswerInv'
<1>1. CASE X!Raise(r, rec) /\ UNCHANGED sessions
  BY <1>1, RaiseAnswers
<1>2. CASE ~(X!Raise(r, rec) /\ UNCHANGED sessions)
  <2>1. PICK b \in Nat : b = X!Or(rec.want, conf.default)
    OBVIOUS
  <2>2. PICK x : x = [rec EXCEPT !.stage = "query", !.bid = b, !.gen = reloads,
                                 !.default = conf.default, !.calls = calls]
    OBVIOUS
  <2>3. /\ req' = [req EXCEPT ![r] = x] /\ X!TrackSession(rec.in.session) /\ UNCHANGED <<fan, told>>
        /\ running' = IF rec.in.kind = "a2a" THEN running \cup {r} ELSE running
    BY <1>2, <2>1, <2>2 DEF X!Query
  <2>4. reloads \in Nat /\ conf.default \in Nat
    BY ReloadsIn DEF AnswerInv, Versions, ConfFits
  <2>5. /\ x \in X!Frame /\ x.stage = "query" /\ x.in = rec.in /\ x.gen = reloads
        /\ x.bid = b /\ x.model = rec.model
    <3>1. Queried(x, rec, b, reloads, conf.default, calls)
      BY <2>2 DEF Queried
    <3> QED BY <2>4, <3>1, QueryIsFrame
  <2>6. FrameFits(x, conf, reloads)
    <3>1. x.in.blocking => ModelOf(x, conf)
      BY <2>1, <2>5 DEF Suits, ModelOf
    <3> QED BY <2>4, <2>5, <3>1 DEF FrameFits
  <2>7. rec.in \in Inputs
    <3>1. rec \in Shape
      BY FrameShape
    <3> QED BY <3>1 DEF Shape
  <2>8. LruFits'
    <3>1. rec.in.session \in Sessions
      BY <2>7 DEF Sessions
    <3> QED BY <2>3, <3>1, LruSteps DEF AnswerInv
  <2>9. running' \in SUBSET Reqs
    BY <2>3 DEF AnswerInv, Rest
  <2> QED BY <2>3, <2>6, <2>8, <2>9, FrameAnswers
<1> QED BY <1>1, <1>2

LEMMA LoadedFits ==
    ASSUME NEW file \in ConfigFiles, X!Loadable(file)
    PROVE  ConfFits(X!Loaded(file))
<1>1. /\ file.agents \in Seq(Nat \ {0})
      /\ \A i \in 1..Len(file.agents) : file.models[file.agents[i]] \in Nat
      /\ {"default", "a2a", "job"} \subseteq DOMAIN file.routing
      /\ \A f \in DOMAIN file.routing : file.routing[f] \in X!Route
  BY PromptsAssumption DEF X!ExecutionAssumption
<1>2. PICK c : c = X!Loaded(file)
  OBVIOUS
<1>3. /\ c.order = file.agents /\ c.models = file.models
      /\ c.default = IF file.routing["default"].agent # 0
                       THEN file.routing["default"].agent ELSE file.agents[1]
      /\ c.routing = [f \in DOMAIN file.routing |-> X!ParseEntry(file.routing[f])]
  BY <1>2 DEF X!Loaded
<1>4. PICK q \in Seq(Nat \ {0}) : q = file.agents /\ q # <<>>
  BY <1>1 DEF X!Loadable
<1>5. q \in Seq(Nat) /\ q[1] \in Nat
  BY <1>4
<1>6. file.routing["default"] \in X!Route
  BY <1>1
<1>7. c.default \in Nat
  BY <1>3, <1>4, <1>5, <1>6 DEF X!Route
<1>8. \A v \in X!Route : X!ParseEntry(v) \in X!Route
  BY DEF X!ParseEntry, X!Route
<1>9. \A f \in DOMAIN c.routing : c.routing[f] \in X!Route
  BY <1>1, <1>3, <1>8
<1>10. {"default", "a2a", "job"} \subseteq DOMAIN c.routing
  BY <1>1, <1>3
<1>11. c.order \in Seq(Nat) /\ \A i \in 1..Len(c.order) : c.models[c.order[i]] \in Nat
  BY <1>1, <1>3, <1>4, <1>5
<1> QED BY <1>2, <1>7, <1>9, <1>10, <1>11 DEF ConfFits

LEMMA EmptyFits == ConfFits(X!Empty)
<1>1. PICK c : c = X!Empty
  OBVIOUS
<1>2. c.order = <<>> /\ c.default = 0 /\ c.routing = [f \in {"default", "a2a", "job"} |-> [agent |-> 0, model |-> 0]]
  BY <1>1 DEF X!Empty, X!NoRoutes
<1>3. c.order \in Seq(Nat) /\ Len(c.order) = 0
  BY <1>2
<1>4. \A f \in DOMAIN c.routing : c.routing[f] \in X!Route
  BY <1>2 DEF X!Route
<1> QED BY <1>1, <1>2, <1>3, <1>4 DEF ConfFits

LEMMA AnswerInvInit == X!Init => AnswerInv
<1> SUFFICES ASSUME X!Init PROVE AnswerInv
  OBVIOUS
<1>1. ConfFits(conf)
  BY LoadedFits, EmptyFits DEF X!Init
<1>2. Versions
  BY ReloadsIn DEF X!Init, Versions
<1>3. FramesFit
  BY DEF X!Init, FramesFit
<1>4. LruFits
  <2>1. sessions = <<>> /\ MaxSessions \in Nat
    BY PromptsAssumption DEF X!Init, X!ExecutionAssumption
  <2> QED BY <2>1 DEF LruFits, KeysApart
<1>5. PoolFits
  <2>1. fan = {} /\ others = [c \in Classes |-> 0]
    BY DEF X!Init, Classes
  <2>2. IsFiniteSet(fan) /\ Cardinality(fan) = 0
    BY <2>1, FS_EmptySet
  <2>3. others \in [Classes -> Nat] /\ others["normal"] = 0 /\ others["critical"] = 0
    BY <2>1 DEF Classes
  <2>4. Within(0, others)
    BY <2>3, Caps DEF Within
  <2> QED BY <2>1, <2>2, <2>3, <2>4 DEF PoolFits
<1>6. Rest
  BY DEF X!Init, Rest
<1> QED BY <1>1, <1>2, <1>3, <1>4, <1>5, <1>6 DEF AnswerInv

LEMMA ArrivalAnswers ==
    ASSUME AnswerInv, NEW r \in Reqs, NEW in \in Inputs, X!Arrive(r, in) \/ X!BusArrive(r, in)
    PROVE  AnswerInv'
<1>1. PICK rec : rec = X!Fresh(in)
  OBVIOUS
<1>2. PICK b : b = X!Or(rec.want, conf.default)
  OBVIOUS
<1>3. /\ rec \in X!Frame /\ rec.in = in /\ rec.stage = "start" /\ rec.gen = 0 /\ rec.calls = <<>>
      /\ b \in Nat /\ Suits(rec.model, rec.in, conf, b)
  BY <1>1, <1>2, FreshIsFrame DEF AnswerInv, Suits
<1>4. rec.gen <= reloads
  BY <1>3, ReloadsIn DEF AnswerInv, Versions
<1>5. UNCHANGED <<conf, reloads, failures, others, closing>>
  BY DEF X!Arrive, X!BusArrive
<1>6. ASSUME NEW calls \in Calls, X!Query(r, rec, calls) PROVE AnswerInv'
  BY <1>2, <1>3, <1>4, <1>5, <1>6, QueryAnswers
<1>7. CASE X!Arrive(r, in)
  <2>1. CASE X!Query(r, rec, <<>>)
    BY <1>6, <2>1, NoCalls
  <2>2. CASE /\ req' = [req EXCEPT ![r] = X!Done([X!Emit(rec, "message") EXCEPT !.cut = TRUE])]
             /\ UNCHANGED <<running, sessions, fan, told>>
    <3>1. PICK y : y = X!Emit(rec, "message")
      OBVIOUS
    <3>2. y \in X!Frame
      BY <1>3, <3>1, EmitIsFrame DEF Marks
    <3>3. PICK z : z = [y EXCEPT !.cut = TRUE]
      OBVIOUS
    <3>4. z \in X!Frame
      BY <3>2, <3>3, CutIsFrame
    <3>5. PICK x : x = X!Done(z)
      OBVIOUS
    <3>6. FrameFits(x, conf, reloads)
      BY <3>4, <3>5, DoneFits DEF AnswerInv
    <3>7. req' = [req EXCEPT ![r] = x]
      BY <2>2, <3>1, <3>3, <3>5
    <3>8. running' \in SUBSET Reqs /\ LruFits'
      BY <2>2 DEF AnswerInv, Rest, LruFits
    <3> QED BY <1>5, <2>2, <3>6, <3>7, <3>8, FrameAnswers
  <2>3. CASE /\ ~in.blocking /\ req' = [req EXCEPT ![r] = [rec EXCEPT !.stage = "submit"]]
             /\ running' = running \cup {r} /\ UNCHANGED <<sessions, fan, told>>
    <3>1. PICK x : x = [rec EXCEPT !.stage = "submit"]
      OBVIOUS
    <3>2. x \in X!Frame /\ x.stage = "submit" /\ x.in = in /\ x.gen <= reloads
      BY <1>3, <1>4, <3>1, StageIsFrame DEF X!Stages
    <3>3. FrameFits(x, conf, reloads)
      BY <2>3, <3>2, WaitingFits
    <3>4. running' \in SUBSET Reqs /\ LruFits'
      BY <2>3 DEF AnswerInv, Rest, LruFits
    <3> QED BY <1>5, <2>3, <3>1, <3>3, <3>4, FrameAnswers
  <2> QED BY <1>1, <1>7, <2>1, <2>2, <2>3 DEF X!Arrive
<1>8. CASE X!BusArrive(r, in)
  <2>1. PICK calls : /\ calls = IF in.consensus = <<>> THEN <<>> ELSE X!Resolve(in.consensus)
                     /\ X!Query(r, rec, calls)
    BY <1>1, <1>8 DEF X!BusArrive
  <2>2. in.consensus \in Seq([match : SUBSET Nat, model : Nat])
    BY PromptsAssumption DEF X!ExecutionAssumption
  <2>3. X!Resolve(in.consensus) \in Calls
    BY <2>2, ResolveTyped DEF AnswerInv
  <2>4. calls \in Calls
    BY <2>1, <2>3, NoCalls
  <2> QED BY <1>6, <2>1, <2>4
<1> QED BY <1>7, <1>8

LEMMA CallAnswers ==
    ASSUME AnswerInv, NEW r \in Reqs, X!Step(r) \/ X!Cancelled(r)
    PROVE  AnswerInv'
<1>1. req[r] # X!Idle /\ UNCHANGED <<conf, reloads, failures, others, closing>>
  BY DEF X!Step, X!Submitted, X!Dispatch, X!Answered, X!QueryFails, X!Reply, X!ReplyFails,
         X!MarkFailed, X!Voted, X!Cancelled, X!Querying, X!InFlight
<1>2. PICK rec : rec = req[r]
  OBVIOUS
<1>3. FrameFits(rec, conf, reloads) /\ DOMAIN req = Reqs
  BY <1>1, <1>2 DEF AnswerInv, FramesFit
<1>4. rec \in X!Frame /\ rec.gen <= reloads /\ rec.in \in Inputs
  BY <1>3, FitsAreFrames
<1>5. closing' \in Phases
  BY <1>1 DEF AnswerInv, Rest, Phases
<1>6. ASSUME NEW x \in X!Frame, X!Finish(r, x), UNCHANGED sessions PROVE AnswerInv'
  BY <1>1, <1>5, <1>6, FinishAnswers
<1>7. ASSUME NEW x, FrameFits(x, conf, reloads), req' = [req EXCEPT ![r] = x],
             UNCHANGED <<running, sessions, fan, told>>
      PROVE  AnswerInv'
  <2>1. running' \in SUBSET Reqs /\ LruFits'
    BY <1>7 DEF AnswerInv, Rest, LruFits
  <2> QED BY <1>1, <1>7, <2>1, FrameAnswers
<1>8. ASSUME NEW x \in X!Frame, x.gen <= reloads, ~x.in.blocking, X!Query(r, x, <<>>)
      PROVE  AnswerInv'
  <2>1. x.want \in Nat /\ conf.default \in Nat
    <3>1. x \in Shape
      BY <1>8, FrameShape
    <3> QED BY <3>1 DEF Shape, AnswerInv, ConfFits
  <2>2. X!Or(x.want, conf.default) \in Nat
    BY <2>1 DEF X!Or
  <2> QED BY <1>1, <1>8, <2>2, NoCalls, QueryAnswers
<1>9. CASE \E ok \in BOOLEAN : X!Submitted(r, ok)
  <2>1. rec.stage = "submit" /\ ~rec.in.blocking
    BY <1>2, <1>3, <1>9 DEF X!Submitted, FrameFits
  <2>2. CASE X!Query(r, rec, <<>>)
    BY <1>4, <1>8, <2>1, <2>2
  <2>3. CASE ~X!Query(r, rec, <<>>)
    <3>1. PICK y : y = [rec EXCEPT !.stage = "start", !.poll = TRUE]
      OBVIOUS
    <3>2. y \in X!Frame /\ y.stage = "start" /\ y.in = rec.in /\ y.gen <= reloads
      BY <1>4, <3>1, PollIsFrame
    <3>3. PICK x : x = X!Emit(y, "submitted")
      OBVIOUS
    <3>4. x \in X!Frame /\ x.stage = "start" /\ x.in = rec.in /\ x.gen <= reloads
      BY <3>2, <3>3, EmitIsFrame DEF Marks
    <3>5. FrameFits(x, conf, reloads)
      BY <2>1, <3>4, WaitingFits
    <3>6. req' = [req EXCEPT ![r] = x] /\ UNCHANGED <<running, sessions, fan, told>>
      BY <1>2, <1>3, <1>9, <2>3, <3>1, <3>3 DEF X!Submitted
    <3> QED BY <1>7, <3>5, <3>6
  <2> QED BY <2>2, <2>3
<1>10. CASE X!Dispatch(r)
  <2>1. rec.stage = "start" /\ ~rec.in.blocking
    BY <1>2, <1>3, <1>10 DEF X!Dispatch, FrameFits
  <2>2. PICK x : x = X!Emit(rec, "working")
    OBVIOUS
  <2>3. x \in X!Frame /\ x.gen <= reloads /\ ~x.in.blocking
    BY <1>4, <2>1, <2>2, EmitIsFrame DEF Marks
  <2>4. X!Query(r, x, <<>>)
    BY <1>2, <1>10, <2>2 DEF X!Dispatch
  <2> QED BY <1>8, <2>3, <2>4
<1>11. CASE X!Answered(r)
  <2>1. CASE req' = [req EXCEPT ![r].stage = "reply", ![r].ok = TRUE] /\ UNCHANGED <<running, fan, told>>
    <3>1. PICK x : x = [rec EXCEPT !.stage = "reply", !.ok = TRUE]
      OBVIOUS
    <3>2. x \in X!Frame /\ x.stage = "reply" /\ x.gen <= reloads
      BY <1>4, <3>1, ReplyIsFrame
    <3>3. req' = [req EXCEPT ![r] = x]
      BY <1>2, <1>3, <2>1, <3>1
    <3>4. FrameFits(x, conf, reloads) /\ UNCHANGED sessions
      BY <1>11, <3>2, PlainFits DEF X!Answered
    <3> QED BY <1>7, <2>1, <3>3, <3>4
  <2>2. CASE X!Finish(r, [rec EXCEPT !.ok = TRUE])
    <3>1. PICK x : x = [rec EXCEPT !.ok = TRUE]
      OBVIOUS
    <3>2. x \in X!Frame
      BY <1>4, <3>1, OkIsFrame
    <3>3. UNCHANGED sessions
      BY <1>11 DEF X!Answered
    <3> QED BY <1>6, <2>2, <3>1, <3>2, <3>3
  <2> QED BY <1>2, <1>11, <2>1, <2>2 DEF X!Answered
<1>12. CASE X!QueryFails(r) \/ X!ReplyFails(r)
  <2>1. X!Raise(r, rec) /\ UNCHANGED sessions
    BY <1>2, <1>12 DEF X!QueryFails, X!ReplyFails
  <2> QED BY <1>1, <1>4, <2>1, RaiseAnswers
<1>13. CASE X!Reply(r) \/ X!MarkFailed(r)
  <2>1. PICK e \in Marks : X!Finish(r, X!Emit(rec, e))
    BY <1>2, <1>13 DEF X!Reply, X!MarkFailed, Marks
  <2>2. PICK x : x = X!Emit(rec, e)
    OBVIOUS
  <2>3. x \in X!Frame
    BY <1>4, <2>2, EmitIsFrame
  <2>4. UNCHANGED sessions
    BY <1>13 DEF X!Reply, X!MarkFailed
  <2> QED BY <1>6, <2>1, <2>2, <2>3, <2>4
<1>14. ASSUME NEW votes, X!Voted(r, votes) PROVE AnswerInv'
  <2>0. UNCHANGED sessions /\ rec.calls # <<>>
    BY <1>2, <1>14 DEF X!Voted
  <2>1. CASE req' = [req EXCEPT ![r].stage = "synth"] /\ UNCHANGED <<running, fan, told>>
    <3>1. PICK x : x = [rec EXCEPT !.stage = "synth"]
      OBVIOUS
    <3>2. x \in X!Frame /\ x.stage = "synth" /\ x.calls # <<>> /\ x.gen <= reloads
      BY <1>4, <2>0, <3>1, StageIsFrame DEF X!Stages
    <3>3. FrameFits(x, conf, reloads)
      BY <3>2 DEF FrameFits, InForce
    <3>4. req' = [req EXCEPT ![r] = x]
      BY <1>2, <1>3, <2>1, <3>1
    <3> QED BY <1>7, <2>0, <2>1, <3>3, <3>4
  <2>2. CASE X!Finish(r, [rec EXCEPT !.ok = X!Aggregate(rec.calls, votes, rec.default) # "error"])
    <3>1. PICK v \in BOOLEAN : v = (X!Aggregate(rec.calls, votes, rec.default) # "error")
      OBVIOUS
    <3>2. PICK x : x = [rec EXCEPT !.ok = v]
      OBVIOUS
    <3>3. x \in X!Frame
      BY <1>4, <3>2, OkIsFrame
    <3> QED BY <1>6, <2>0, <2>2, <3>1, <3>2, <3>3
  <2> QED BY <1>2, <1>14, <2>1, <2>2 DEF X!Voted
<1>15. CASE X!Cancelled(r)
  <2>1. PICK y : y = [rec EXCEPT !.cut = TRUE]
    OBVIOUS
  <2>2. y \in X!Frame
    BY <1>4, <2>1, CutIsFrame
  <2>3. UNCHANGED sessions
    BY <1>15 DEF X!Cancelled
  <2>4. CASE X!Finish(r, y)
    BY <1>6, <2>2, <2>3, <2>4
  <2>5. CASE ~X!Finish(r, y)
    <3>1. PICK x : x = X!Done(y)
      OBVIOUS
    <3>2. FrameFits(x, conf, reloads)
      BY <2>2, <3>1, DoneFits DEF AnswerInv
    <3>3. req' = [req EXCEPT ![r] = x] /\ UNCHANGED <<running, fan, told>>
      BY <1>2, <1>3, <1>15, <2>1, <2>5, <3>1 DEF X!Cancelled
    <3> QED BY <1>7, <2>3, <3>2, <3>3
  <2> QED BY <2>4, <2>5
<1> QED BY <1>9, <1>10, <1>11, <1>12, <1>13, <1>14, <1>15 DEF X!Step

(* A reload makes every query one of an earlier version.                   *)
LEMMA ReloadAnswers ==
    ASSUME AnswerInv, NEW file \in ConfigFiles, X!Reload(file)
    PROVE  AnswerInv'
<1>1. /\ reloads < MaxReloads /\ reloads' = reloads + 1
      /\ (X!Loadable(file) /\ conf' = X!Loaded(file) /\ failures' = 0) \/ (conf' = conf /\ failures' = failures + 1)
      /\ UNCHANGED <<sessions, req, running, fan, others, told, closing>>
  BY DEF X!Reload
<1>2. reloads \in Nat /\ failures \in Nat /\ failures <= reloads
  BY ReloadsIn DEF AnswerInv, Versions
<1>3. Versions'
  BY <1>1, <1>2, ReloadsIn DEF Versions
<1>4. ConfFits(conf')
  BY <1>1, LoadedFits DEF AnswerInv
<1>5. FramesFit'
  <2>1. DOMAIN req' = Reqs
    BY <1>1 DEF AnswerInv, FramesFit
  <2>2. ASSUME NEW q \in Reqs, req'[q] # X!Idle PROVE FrameFits(req'[q], conf', reloads')
    <3>1. PICK x : x = req[q]
      OBVIOUS
    <3>2. FrameFits(x, conf, reloads) /\ req'[q] = x
      BY <1>1, <2>2, <3>1 DEF AnswerInv, FramesFit
    <3>3. x \in X!Frame /\ x.gen <= reloads
      BY <3>2, FitsAreFrames
    <3>4. x.gen \in Nat
      <4>1. x \in Shape
        BY <3>3, FrameShape
      <4> QED BY <4>1 DEF Shape
    <3>5. x.gen <= reloads' /\ x.gen # reloads'
      BY <1>1, <1>2, <3>3, <3>4
    <3>6. FrameFits(x, conf', reloads')
      BY <3>2, <3>5 DEF FrameFits, InForce
    <3> QED BY <3>2, <3>6
  <2> QED BY <2>1, <2>2 DEF FramesFit
<1>6. LruFits' /\ PoolFits' /\ Rest'
  BY <1>1 DEF AnswerInv, LruFits, PoolFits, Rest
<1> QED BY <1>3, <1>4, <1>5, <1>6 DEF AnswerInv

LEMMA TaskAnswers ==
    ASSUME AnswerInv,
           \/ \E class \in {"normal", "critical"} : X!Spawn(class) \/ X!SpawnedEnds(class)
           \/ \E r \in Reqs : X!OnPromptCompleted(r)
    PROVE  AnswerInv'
<1>1. UNCHANGED <<conf, reloads, failures, sessions, req, running, closing>>
  BY DEF X!Spawn, X!SpawnedEnds, X!OnPromptCompleted
<1>2. ConfFits(conf)' /\ Versions' /\ FramesFit' /\ LruFits'
  BY <1>1 DEF AnswerInv, ConfFits, Versions, FramesFit, LruFits
<1>3. CASE \E class \in {"normal", "critical"} : X!Spawn(class) \/ X!SpawnedEnds(class)
  <2>1. PoolFits'
    BY <1>3, SpawnFits DEF AnswerInv, Classes
  <2>2. Rest'
    BY <1>1, <1>3 DEF AnswerInv, Rest, X!Spawn, X!SpawnedEnds
  <2> QED BY <1>2, <2>1, <2>2 DEF AnswerInv
<1>4. ASSUME NEW r \in Reqs, X!OnPromptCompleted(r) PROVE AnswerInv'
  <2>1. r \in fan /\ fan' = fan \ {r} /\ told' = [told EXCEPT ![r] = @ + 1] /\ others' = others
    BY <1>4 DEF X!OnPromptCompleted
  <2>2. PICK n, a, b \in Nat : n = Cardinality(fan) /\ a = others["normal"] /\ b = others["critical"]
    BY PoolCounts DEF AnswerInv
  <2>3. IsFiniteSet(fan)
    BY DEF AnswerInv, PoolFits
  <2>4. PICK m \in Nat : m = Cardinality(fan') /\ m <= n /\ IsFiniteSet(fan')
    <3>1. IsFiniteSet(fan') /\ Cardinality(fan') = Cardinality(fan) - 1
      BY <2>1, <2>3, FS_RemoveElement
    <3>2. Cardinality(fan') \in Nat
      BY <3>1, FS_CardinalityType
    <3> QED BY <2>2, <3>1, <3>2
  <2>5. Within(n, others)
    BY <2>2 DEF AnswerInv, PoolFits
  <2>6. Within(m, others)
    BY <2>2, <2>4, <2>5, Caps DEF Within
  <2>7. PoolFits'
    BY <2>1, <2>4, <2>6 DEF AnswerInv, PoolFits
  <2>8. Rest'
    BY <1>1, <2>1 DEF AnswerInv, Rest
  <2> QED BY <1>2, <2>7, <2>8 DEF AnswerInv
<1> QED BY <1>3, <1>4

LEMMA ClosingAnswers ==
    ASSUME AnswerInv, X!StopBus \/ X!DrainBackground \/ X!CloseBackends \/ X!Exit
    PROVE  AnswerInv'
<1>1. UNCHANGED <<conf, reloads, failures, sessions>> /\ closing' \in Phases
  BY DEF X!StopBus, X!DrainBackground, X!CloseBackends, X!Exit, Phases
<1>2. ConfFits(conf)' /\ Versions' /\ LruFits'
  BY <1>1 DEF AnswerInv, ConfFits, Versions, LruFits
<1>3. CASE X!StopBus
  <2>1. PICK busy : busy = {r \in Reqs : X!InFlight(r) /\ req[r].in.kind = "job"}
    OBVIOUS
  <2>2. CASE busy = {}
    <3>1. UNCHANGED <<req, running, fan, told, others>>
      BY <1>3, <2>1, <2>2 DEF X!StopBus
    <3>2. FramesFit' /\ PoolFits' /\ Rest'
      BY <1>1, <3>1 DEF AnswerInv, FramesFit, PoolFits, Rest, Phases
    <3> QED BY <1>2, <3>2 DEF AnswerInv
  <2>3. CASE busy # {}
    <3>1. PICK r \in busy : r = CHOOSE q \in busy : TRUE
      BY <2>3
    <3>2. r \in Reqs /\ req[r] # X!Idle
      BY <2>1, <3>1 DEF X!InFlight
    <3>3. PICK rec : rec = req[r]
      OBVIOUS
    <3>4. PICK x : x = [rec EXCEPT !.cut = TRUE]
      OBVIOUS
    <3>5. X!Finish(r, x) /\ UNCHANGED others
      BY <1>3, <2>1, <2>3, <3>1, <3>3, <3>4 DEF X!StopBus
    <3>6. x \in X!Frame
      <4>1. rec \in X!Frame
        BY <3>2, <3>3, FitsAreFrames DEF AnswerInv, FramesFit
      <4> QED BY <3>4, <4>1, CutIsFrame
    <3> QED BY <1>1, <3>2, <3>5, <3>6, FinishAnswers
  <2> QED BY <2>2, <2>3
<1>4. CASE X!DrainBackground
  <2>1. /\ UNCHANGED <<req, running, fan, told>> /\ others' = [c \in Classes |-> 0]
    BY <1>4 DEF X!DrainBackground, Classes
  <2>2. others' \in [Classes -> Nat] /\ others'["normal"] = 0 /\ others'["critical"] = 0
    BY <2>1 DEF Classes
  <2>3. PICK n, a, b \in Nat : n = Cardinality(fan) /\ a = others["normal"] /\ b = others["critical"]
    BY PoolCounts DEF AnswerInv
  <2>4. Within(n, others)
    BY <2>3 DEF AnswerInv, PoolFits
  <2>5. Within(n, others')
    BY <2>2, <2>3, <2>4, Caps DEF Within
  <2>6. PoolFits'
    BY <2>1, <2>2, <2>3, <2>5 DEF AnswerInv, PoolFits
  <2>7. FramesFit' /\ Rest'
    BY <1>1, <2>1 DEF AnswerInv, FramesFit, Rest, Phases
  <2> QED BY <1>2, <2>6, <2>7 DEF AnswerInv
<1>5. CASE X!CloseBackends
  <2>1. UNCHANGED <<req, running, fan, told, others>>
    BY <1>5 DEF X!CloseBackends
  <2>2. FramesFit' /\ PoolFits' /\ Rest'
    BY <1>1, <2>1 DEF AnswerInv, FramesFit, PoolFits, Rest, Phases
  <2> QED BY <1>2, <2>2 DEF AnswerInv
<1>6. CASE X!Exit
  <2>1. /\ UNCHANGED <<fan, told, others>> /\ running' = {}
        /\ req' = [r \in Reqs |-> IF X!InFlight(r) THEN X!Done([req[r] EXCEPT !.cut = TRUE]) ELSE req[r]]
    BY <1>6 DEF X!Exit
  <2>2. ASSUME NEW r \in Reqs, req'[r] # X!Idle PROVE FrameFits(req'[r], conf, reloads)
    <3>1. PICK rec : rec = req[r]
      OBVIOUS
    <3>2. CASE X!InFlight(r)
      <4>1. rec \in X!Frame
        BY <3>1, <3>2, FitsAreFrames DEF AnswerInv, FramesFit, X!InFlight
      <4>2. PICK y : y = [rec EXCEPT !.cut = TRUE]
        OBVIOUS
      <4>3. y \in X!Frame
        BY <4>1, <4>2, CutIsFrame
      <4>4. PICK x : x = X!Done(y)
        OBVIOUS
      <4>5. FrameFits(x, conf, reloads)
        BY <4>3, <4>4, DoneFits DEF AnswerInv
      <4>6. req'[r] = x
        BY <2>1, <3>1, <3>2, <4>2, <4>4
      <4> QED BY <4>5, <4>6
    <3>3. CASE ~X!InFlight(r)
      BY <2>1, <2>2, <3>3 DEF AnswerInv, FramesFit
    <3> QED BY <3>2, <3>3
  <2>3. FramesFit'
    BY <1>1, <2>1, <2>2 DEF FramesFit
  <2>4. PoolFits' /\ Rest'
    BY <1>1, <2>1 DEF AnswerInv, PoolFits, Rest, Phases
  <2> QED BY <1>2, <2>3, <2>4 DEF AnswerInv
<1> QED BY <1>3, <1>4, <1>5, <1>6

LEMMA AnswerInvStep == AnswerInv /\ [X!Next]_exvars => AnswerInv'
<1> SUFFICES ASSUME AnswerInv, [X!Next]_exvars PROVE AnswerInv'
  OBVIOUS
<1>1. CASE UNCHANGED exvars
  BY <1>1 DEF exvars, AnswerInv, ConfFits, Versions, FramesFit, LruFits, PoolFits, Rest
<1>2. CASE X!Next
  BY <1>2, ReloadAnswers, TaskAnswers, ArrivalAnswers, CallAnswers, ClosingAnswers DEF X!Next
<1> QED BY <1>1, <1>2

LEMMA AnswerInvFits == AnswerInv => X!ModelFits /\ X!MajorityWins /\ X!SessionsBounded
<1> SUFFICES ASSUME AnswerInv PROVE X!ModelFits /\ X!MajorityWins /\ X!SessionsBounded
  OBVIOUS
<1>1. X!ModelFits
  <2> SUFFICES ASSUME NEW r \in Reqs, X!Dispatched(r), req[r].in.blocking PROVE X!ModelKnown(req[r])
    BY DEF X!ModelFits
  <2>1. FrameFits(req[r], conf, reloads) /\ InForce(req[r], reloads)
    BY DEF X!Dispatched, X!Querying, InForce, AnswerInv, FramesFit
  <2> QED BY <2>1 DEF FrameFits, ModelOf, X!ModelKnown
<1>2. X!MajorityWins
  <2>1. ASSUME NEW r \in Reqs, req[r] # X!Idle, req[r].calls # <<>>
        PROVE  MajorityOf(req[r].calls, req[r].default)
    <3>1. req[r] \in Shape
      BY <2>1, FitsAreFrames, FrameShape DEF AnswerInv, FramesFit
    <3>2. req[r].calls \in Calls
      BY <3>1 DEF Shape
    <3> QED BY <2>1, <3>2, MajorityHolds
  <2> QED BY <2>1, Zenon DEF X!MajorityWins, MajorityOf
<1>3. X!SessionsBounded
  <2>1. PICK n, a, b \in Nat : /\ n = Cardinality(fan) /\ a = others["normal"] /\ b = others["critical"]
                               /\ X!Occupied = n + a + b
    BY PoolCounts DEF AnswerInv
  <2>2. Within(n, others) /\ X!Cardinality(fan) = n
    BY <2>1, SameCardinality DEF AnswerInv, PoolFits
  <2> QED BY <2>1, <2>2 DEF X!SessionsBounded, AnswerInv, LruFits, Within
<1> QED BY <1>1, <1>2, <1>3

LEMMA AnswerInvTypes == AnswerInv => X!TypeOK
<1> SUFFICES ASSUME AnswerInv PROVE X!TypeOK
  OBVIOUS
<1>1. \A r \in Reqs : req[r] # X!Idle => req[r] \in X!Frame
  BY FitsAreFrames DEF AnswerInv, FramesFit
<1>2. X!IsInjective(sessions)
  <2>1. DOMAIN sessions = 1..Len(sessions) /\ KeysApart(sessions)
    BY DEF AnswerInv, LruFits
  <2> QED BY <2>1 DEF X!IsInjective, KeysApart
<1> QED BY <1>1, <1>2 DEF X!TypeOK, AnswerInv, Versions, PoolFits, Rest, Classes

(* Whatever the requests, the files and the caps: a query of a call that   *)
(* resolves and dispatches without an await in between carries a model     *)
(* that the configuration in force names with the backend queried, until   *)
(* the next reload; of a binary consensus, over any number of calls, the   *)
(* majority wins and an even split is settled by the default backend when  *)
(* its first call was answered; the session LRU and the background tasks   *)
(* keep to their caps (executor.py: _resolve_model, run_consensus,         *)
(* _track_session, track_background).                                      *)
THEOREM AnswersFitHolds == X!Init /\ [][X!Next]_exvars => []AnswersFit
<1>1. AnswerInv => AnswersFit
  BY AnswerInvFits DEF AnswersFit
<1> QED BY <1>1, AnswerInvInit, AnswerInvStep, PTL

-----------------------------------------------------------------------------
LEMMA BeatInvTypes == BeatInv => B!HbTypeOK
<1> SUFFICES ASSUME BeatInv PROVE B!HbTypeOK
  OBVIOUS
<1>1. PICK n \in Nat : n = 1 + HbEdits + HbEnds /\ B!LoopIds = 1..n
  BY HeartbeatBounds
<1>2. B!Cardinality(B!LoopIds) = n
  <2>1. \A T : B!Cardinality(T) = Cardinality(T)
    BY Zenon DEF B!Cardinality, Cardinality
  <2>2. Cardinality(1..n) = n
    BY FS_Interval
  <2> QED BY <1>1, <2>1, <2>2
<1>3. /\ born \in Nat /\ edits \in 0..HbEdits /\ ends \in 0..HbEnds
      /\ HbEdits \in Nat /\ HbEnds \in Nat
  BY HeartbeatBounds DEF BeatInv, BeatTypes
<1>4. Bit(pending) \in Nat /\ Bit(Joining) \in Nat
  BY DEF Bit
<1>5. born \in 0..n
  BY <1>1, <1>3, <1>4 DEF BeatInv, NumbersLeft
<1>6. \A l \in B!LoopIds : hb[l].at \in {"none", "warm", "asleep", "sending", "over"}
  BY DEF BeatInv, BeatTypes, Loops
<1> QED BY <1>2, <1>5, <1>6 DEF B!HbTypeOK, BeatInv, BeatTypes

(* The variables of the three components keep to their types, the frame of *)
(* every call included: a call names backends and models that a file or    *)
(* the caller named, and the list of a consensus is one of such pairs.     *)
THEOREM PromptTypesHold == PromptsSpec => []PromptTypes
<1>1. PromptsInit => AnswerInv /\ BeatInv /\ WatchInv
  BY AnswerInvInit, BeatInvInit, WatchInvInit DEF PromptsInit
<1>2. [PromptsNext]_<<focus, vars, exvars, hbvars>> =>
          [X!Next]_exvars /\ [B!HbNext]_hbvars /\ [Next]_vars
  BY DEF PromptsNext
<1>3. AnswerInv /\ BeatInv /\ WatchInv => PromptTypes
  BY AnswerInvTypes, BeatInvTypes DEF PromptTypes, WatchInv
<1> QED
  BY <1>1, <1>2, <1>3, AnswerInvStep, BeatInvStep, WatchInvStep, PTL DEF PromptsSpec

(* Nothing the composition adds disturbs them: in the system of the three  *)
(* components completions are told, answers fit, the heartbeat beats as    *)
(* the file says and a worker that has settled is ready.                   *)
THEOREM PromptsSafe ==
    PromptsSpec => [](CompletionsTold /\ AnswersFit /\ BeatsKept /\ StableMeansReady)
<1>1. PromptsInit => ToldInv /\ AnswerInv /\ BeatInv /\ WatchInv
  BY ToldInvInit, AnswerInvInit, BeatInvInit, WatchInvInit DEF PromptsInit
<1>2. [PromptsNext]_<<focus, vars, exvars, hbvars>> =>
          [X!Next]_exvars /\ [B!HbNext]_hbvars /\ [Next]_vars
  BY DEF PromptsNext
<1>3. ToldInv => CompletionsTold
  BY ToldInvSafe
<1>4. AnswerInv => AnswersFit
  BY AnswerInvFits DEF AnswersFit
<1>5. BeatInv => BeatsKept
  BY BeatInvSafe
<1>6. WatchInv => StableMeansReady
  BY WatchInvSafe
<1> QED
  BY <1>1, <1>2, <1>3, <1>4, <1>5, <1>6, ToldInvStep, AnswerInvStep, BeatInvStep, WatchInvStep, PTL
  DEF PromptsSpec
=============================================================================
