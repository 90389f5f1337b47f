--------------------------- MODULE JobRunnerProofs ---------------------------
(* Proofs about JobRunner for any set of job files and of ad-hoc requests, *)
(* any number of reloads and every JOBS_MAX_CONCURRENT.                    *)
EXTENDS JobRunner, FiniteSetTheorems, TLAPS

-----------------------------------------------------------------------------
(* The inductive invariant.                                                *)

Holders == {f \in Fires : Active(f)}

(* The fires that hold a permit are finitely many, so that counting them   *)
(* follows each acquire and each release.                                  *)
PermitsInv == IsFiniteSet(Holders) /\ PermitsConserved

(* The registry lists items of its own paths, none newer than the last     *)
(* parse, and an item that was never registered has no task.               *)
RegistryInv ==
    /\ \A p \in Paths : reg[p] # None => reg[p][1] = p /\ reg[p][2] <= gen[p]
    /\ \A i \in Items : cron[i] # "none" => i[2] <= gen[i[1]]

(* While _register is suspended its path is not listed, the new item has   *)
(* no task yet and the awaited task belongs to an older item of that path. *)
WatcherInv ==
    watcher # None =>
        /\ watcher[1][2] = gen[watcher[1][1]]
        /\ reg[watcher[1][1]] = None
        /\ cron[watcher[1]] = "none"
        /\ watcher[2] # None => watcher[2][1] = watcher[1][1]

(* A scheduled fire is under way only inside its loop, and drains only     *)
(* once the loop is cancelled.                                             *)
LoopInv ==
    \A i \in Items : fire[CronFire(i)] # "off" =>
        /\ cron[i] \in {"firing", "cancelled"}
        /\ fire[CronFire(i)] = "draining" => cron[i] = "cancelled"

(* A task that is not over belongs to the listed item, to the item the     *)
(* watcher awaits or to a removed one: the rest of _register runs only     *)
(* when the second is over.                                                *)
TasksKnown ==
    \A i \in Items : cron[i] # "none" =>
        \/ reg[i[1]] = i
        \/ watcher # None /\ watcher[2] = i
        \/ i \in dropped

SchedulesInv ==
    /\ RegistryInv
    /\ WatcherInv
    /\ LoopInv
    /\ TasksKnown
    /\ NoOrphanSchedule

JobsInv == TypeOK /\ PermitsInv /\ SchedulesInv
-----------------------------------------------------------------------------
(* Items and fires are pairs. *)
LEMMA ItemShape ==
    ASSUME NEW i \in Items
    PROVE  i[1] \in Paths /\ i[2] \in 1..MaxGen /\ i = <<i[1], i[2]>> /\ i # None
BY NoneAssumption DEF Items

LEMMA FireShape ==
    ASSUME NEW f \in Fires
    PROVE  /\ Item(f) \in Items
           /\ PathOf(f) \in Paths
           /\ f[2] \in Slots
           /\ f[2] \in AdHocs => f # CronFire(Item(f))
           /\ \A i \in Items : f = CronFire(i) => i = Item(f)
<1>1. Item(f) \in Items /\ f[2] \in Slots
  BY DEF Fires, Item
<1>2. PathOf(f) \in Paths
  BY <1>1 DEF Item, PathOf, Items
<1>3. f[2] \in AdHocs => f # CronFire(Item(f))
  BY JobAssumption DEF CronFire
<1>4. \A i \in Items : f = CronFire(i) => i = Item(f)
  BY DEF CronFire, Item
<1> QED BY <1>1, <1>2, <1>3, <1>4

LEMMA CronFireShape ==
    ASSUME NEW i \in Items
    PROVE  CronFire(i) \in Fires /\ Item(CronFire(i)) = i /\ PathOf(CronFire(i)) = i[1]
BY DEF CronFire, Fires, Slots, Item, PathOf

-----------------------------------------------------------------------------
(* Counting the permits. *)

(* A fire that starts adds itself to the holders and takes one permit. *)
LEMMA StartCounts ==
    ASSUME TypeOK, PermitsInv, NEW f \in Fires, ~Active(f), permits > 0, Start(f)
    PROVE  PermitsInv' /\ permits' \in 0..MaxFires
<1>1. Holders' = Holders \cup {f}
  BY DEF Holders, Active, Start, TypeOK
<1>2. f \notin Holders
  BY DEF Holders
<1>3. /\ IsFiniteSet(Holders')
      /\ Cardinality(Holders') = Cardinality(Holders) + 1
  BY <1>1, <1>2, FS_AddElement DEF PermitsInv
<1>4. Cardinality(Holders) \in Nat
  BY FS_CardinalityType DEF PermitsInv
<1>5. permits' = permits - 1 /\ permits \in Nat
  BY DEF Start, TypeOK
<1>6. permits + Cardinality(Holders) = MaxFires
  BY DEF PermitsInv, PermitsConserved, Holders
<1>7. permits' + Cardinality(Holders') = MaxFires
  BY <1>3, <1>4, <1>5, <1>6
<1>8. permits' \in 0..MaxFires
  BY <1>4, <1>5, <1>6, JobAssumption
<1> QED BY <1>3, <1>7, <1>8 DEF PermitsInv, PermitsConserved, Holders

(* The finally clause removes a holder and gives its permit back. *)
LEMMA CleanupCounts ==
    ASSUME TypeOK, PermitsInv, NEW f \in Fires, Active(f), Cleanup(f)
    PROVE  PermitsInv' /\ permits' \in 0..MaxFires
<1>1. Holders' = Holders \ {f}
  BY DEF Holders, Active, Cleanup, TypeOK
<1>2. f \in Holders
  BY DEF Holders
<1>3. /\ IsFiniteSet(Holders')
      /\ Cardinality(Holders') = Cardinality(Holders) - 1
  BY <1>1, <1>2, FS_RemoveElement DEF PermitsInv
<1>4. Cardinality(Holders) \in Nat /\ Cardinality(Holders') \in Nat
  BY <1>3, FS_CardinalityType DEF PermitsInv
<1>5. permits' = permits + 1 /\ permits \in Nat
  BY DEF Cleanup, TypeOK
<1>6. permits + Cardinality(Holders) = MaxFires
  BY DEF PermitsInv, PermitsConserved, Holders
<1>7. permits' + Cardinality(Holders') = MaxFires
  BY <1>3, <1>4, <1>5, <1>6
<1>8. permits' \in 0..MaxFires
  BY <1>4, <1>5, <1>7, JobAssumption
<1> QED BY <1>3, <1>7, <1>8 DEF PermitsInv, PermitsConserved, Holders

(* A step that changes no permit and no fire's holding counts nothing. *)
LEMMA NothingCounted ==
    ASSUME TypeOK, PermitsInv, permits' = permits,
           \A f \in Fires : Active(f)' <=> Active(f)
    PROVE  PermitsInv' /\ permits' \in 0..MaxFires
<1>1. Holders' = Holders
  BY DEF Holders
<1>2. PermitsInv' <=> PermitsInv
  BY <1>1 DEF PermitsInv, PermitsConserved, Holders
<1> QED BY <1>2 DEF TypeOK

-----------------------------------------------------------------------------
(* The steps of one fire. *)

LEMMA BeginKeeps ==
    ASSUME JobsInv, NEW f \in Fires, Begin(f)
    PROVE  JobsInv'
<1> USE DEF JobsInv
<1>1. PermitsInv' /\ permits' \in 0..MaxFires
  BY StartCounts DEF Begin, Active
<1>2. TypeOK'
  BY <1>1, FireShape DEF TypeOK, Begin, Start
<1>3. LoopInv'
  BY FireShape, CronFireShape DEF LoopInv, Begin, Start, TypeOK, SchedulesInv
<1>4. (RegistryInv /\ WatcherInv /\ TasksKnown /\ NoOrphanSchedule)'
  BY DEF Begin, SchedulesInv, RegistryInv, WatcherInv, TasksKnown, NoOrphanSchedule
<1> QED BY <1>1, <1>2, <1>3, <1>4 DEF SchedulesInv

(* The loop of an item that goes on to another of its states while its     *)
(* fire is over keeps every schedule known.                                *)
LEMMA LoopMoves ==
    ASSUME TypeOK, SchedulesInv, NEW i \in Items,
           NEW s \in {"none", "sleeping", "firing"},
           s # "none" => cron[i] \in {"sleeping", "firing"},
           cron' = [cron EXCEPT ![i] = s], cron[i] # "none",
           UNCHANGED <<reg, gen, watcher, dropped>>
    PROVE  (RegistryInv /\ WatcherInv /\ TasksKnown /\ NoOrphanSchedule)'
<1>1. RegistryInv'
  BY DEF SchedulesInv, RegistryInv, TypeOK
<1>2. WatcherInv'
  BY NoneAssumption DEF SchedulesInv, WatcherInv, TypeOK
<1>3. TasksKnown'
  BY DEF SchedulesInv, TasksKnown, TypeOK
<1>4. NoOrphanSchedule'
  BY DEF SchedulesInv, NoOrphanSchedule, TypeOK
<1> QED BY <1>1, <1>2, <1>3, <1>4

(* The schedules are untouched by a step that only moves ad-hoc fires. *)
LEMMA LoopsUntouched ==
    ASSUME TypeOK, SchedulesInv, UNCHANGED <<reg, gen, cron, watcher, dropped>>,
           \A i \in Items : fire'[CronFire(i)] = fire[CronFire(i)]
    PROVE  SchedulesInv'
BY DEF SchedulesInv, RegistryInv, WatcherInv, LoopInv, TasksKnown, NoOrphanSchedule

LEMMA SendEndsKeeps ==
    ASSUME JobsInv, NEW f \in Fires, SendEnds(f)
    PROVE  JobsInv'
<1> USE DEF JobsInv
<1> DEFINE i == Item(f)
<1>1. PermitsInv' /\ permits' \in 0..MaxFires
  BY CleanupCounts DEF SendEnds, Active
<1>2. i \in Items /\ PathOf(f) \in Paths
  BY FireShape
<1>3. CASE f = CronFire(i)
  <2>1. PICK s \in {"sleeping", "none"} : cron' = [cron EXCEPT ![i] = s]
    BY <1>3 DEF SendEnds
  <2>2. (RegistryInv /\ WatcherInv /\ TasksKnown /\ NoOrphanSchedule)'
    BY <1>2, <1>3, <2>1, LoopMoves DEF SendEnds
  <2>3. TypeOK'
    BY <1>1, <1>2, <2>1 DEF TypeOK, SendEnds, Cleanup
  <2>4. LoopInv'
    BY <1>2, <1>3, <2>1, FireShape, CronFireShape DEF LoopInv, SendEnds, Cleanup, TypeOK, SchedulesInv
  <2> QED BY <1>1, <2>2, <2>3, <2>4 DEF SchedulesInv
<1>4. CASE f # CronFire(i)
  <2>1. TypeOK'
    BY <1>1, <1>2, <1>4 DEF TypeOK, SendEnds, Cleanup
  <2>2. \A j \in Items : fire'[CronFire(j)] = fire[CronFire(j)]
    BY <1>4, FireShape, CronFireShape DEF SendEnds, Cleanup, TypeOK
  <2>3. SchedulesInv'
    BY <1>4, <2>2, LoopsUntouched DEF SendEnds
  <2> QED BY <1>1, <2>1, <2>3
<1> QED BY <1>3, <1>4

LEMMA DrainEndsKeeps ==
    ASSUME JobsInv, NEW f \in Fires, DrainEnds(f)
    PROVE  JobsInv'
<1> USE DEF JobsInv
<1> DEFINE i == Item(f)
<1>1. PermitsInv' /\ permits' \in 0..MaxFires
  BY CleanupCounts DEF DrainEnds, Active
<1>2. i \in Items /\ PathOf(f) \in Paths
  BY FireShape
<1>3. CASE f = CronFire(i)
  <2>1. cron' = [cron EXCEPT ![i] = "none"] /\ cron[i] = "cancelled"
    BY <1>2, <1>3 DEF DrainEnds, SchedulesInv, LoopInv
  <2>2. (RegistryInv /\ WatcherInv /\ TasksKnown /\ NoOrphanSchedule)'
    BY <1>2, <2>1, LoopMoves DEF DrainEnds
  <2>3. TypeOK'
    BY <1>1, <1>2, <2>1 DEF TypeOK, DrainEnds, Cleanup
  <2>4. LoopInv'
    BY <1>2, <1>3, <2>1, FireShape, CronFireShape DEF LoopInv, DrainEnds, Cleanup, TypeOK, SchedulesInv
  <2> QED BY <1>1, <2>2, <2>3, <2>4 DEF SchedulesInv
<1>4. CASE f # CronFire(i)
  <2>1. TypeOK'
    BY <1>1, <1>2, <1>4 DEF TypeOK, DrainEnds, Cleanup
  <2>2. \A j \in Items : fire'[CronFire(j)] = fire[CronFire(j)]
    BY <1>4, FireShape, CronFireShape DEF DrainEnds, Cleanup, TypeOK
  <2>3. SchedulesInv'
    BY <1>4, <2>2, LoopsUntouched DEF DrainEnds
  <2> QED BY <1>1, <2>1, <2>3
<1> QED BY <1>3, <1>4

LEMMA AdHocKeeps ==
    ASSUME JobsInv, NEW f \in Fires, AdHocRun(f) \/ AdHocTimesOut(f)
    PROVE  JobsInv'
<1> USE DEF JobsInv
<1>1. \A g \in Fires : Active(g)' <=> Active(g)
  BY DEF AdHocRun, AdHocTimesOut, Active, TypeOK
<1>2. permits' = permits
  BY DEF AdHocRun, AdHocTimesOut
<1>3. PermitsInv' /\ permits' \in 0..MaxFires
  BY <1>1, <1>2, NothingCounted
<1>4. TypeOK'
  BY <1>3 DEF AdHocRun, AdHocTimesOut, TypeOK
<1>5. \A j \in Items : fire'[CronFire(j)] = fire[CronFire(j)]
  BY FireShape, CronFireShape DEF AdHocRun, AdHocTimesOut, TypeOK
<1>6. SchedulesInv'
  BY <1>5, LoopsUntouched DEF AdHocRun, AdHocTimesOut
<1> QED BY <1>3, <1>4, <1>6

-----------------------------------------------------------------------------
(* The steps of a cron loop. *)

LEMMA CronTickKeeps ==
    ASSUME JobsInv, NEW i \in Items, CronTick(i)
    PROVE  JobsInv'
<1> USE DEF JobsInv
<1>1. CronFire(i) \in Fires /\ fire[CronFire(i)] = "off"
  BY CronFireShape DEF CronTick, SchedulesInv, LoopInv, TypeOK
<1>2. cron' = [cron EXCEPT ![i] = "firing"] /\ cron[i] = "sleeping"
  BY DEF CronTick
<1>3. (RegistryInv /\ WatcherInv /\ TasksKnown /\ NoOrphanSchedule)'
  BY <1>2, LoopMoves DEF CronTick
<1>4. CASE permits > 0
  <2>1. Start(CronFire(i))
    BY <1>4 DEF CronTick
  <2>2. PermitsInv' /\ permits' \in 0..MaxFires
    BY <1>1, <1>4, <2>1, StartCounts DEF Active
  <2>3. TypeOK'
    BY <1>1, <1>2, <2>1, <2>2, FireShape DEF TypeOK, CronTick, Start
  <2>4. LoopInv'
    BY <1>1, <1>2, <2>1, CronFireShape DEF LoopInv, SchedulesInv, Start, TypeOK
  <2> QED BY <1>3, <2>2, <2>3, <2>4 DEF SchedulesInv
<1>5. CASE ~(permits > 0)
  <2>1. /\ fire' = [fire EXCEPT ![CronFire(i)] = "queued"]
        /\ UNCHANGED <<running, permits, checkpoint>>
    BY <1>5 DEF CronTick
  <2>2. \A f \in Fires : Active(f)' <=> Active(f)
    BY <1>1, <2>1 DEF Active, TypeOK
  <2>3. PermitsInv' /\ permits' \in 0..MaxFires
    BY <2>1, <2>2, NothingCounted
  <2>4. TypeOK'
    BY <1>1, <1>2, <2>1 DEF TypeOK, CronTick
  <2>5. LoopInv'
    BY <1>1, <1>2, <2>1, CronFireShape DEF LoopInv, SchedulesInv, TypeOK
  <2> QED BY <1>3, <2>3, <2>4, <2>5 DEF SchedulesInv
<1> QED BY <1>4, <1>5

LEMMA CancelledKeeps ==
    ASSUME JobsInv, NEW i \in Items, Cancelled(i)
    PROVE  JobsInv'
<1> USE DEF JobsInv
<1>1. CronFire(i) \in Fires
  BY CronFireShape
<1>2. \A f \in Fires : Active(f)' <=> Active(f)
  BY <1>1 DEF Cancelled, Active, TypeOK
<1>3. PermitsInv' /\ permits' \in 0..MaxFires
  BY <1>2, NothingCounted DEF Cancelled
<1>4. TypeOK'
  BY <1>1, <1>3 DEF Cancelled, TypeOK
<1>5. LoopInv'
  BY <1>1, CronFireShape DEF Cancelled, LoopInv, SchedulesInv, TypeOK
<1>6. (RegistryInv /\ WatcherInv /\ TasksKnown /\ NoOrphanSchedule)'
  <2>1. CASE fire[CronFire(i)] = "sending"
    BY <2>1 DEF Cancelled, SchedulesInv, RegistryInv, WatcherInv, TasksKnown, NoOrphanSchedule
  <2>2. CASE fire[CronFire(i)] # "sending"
    BY <2>2, LoopMoves DEF Cancelled
  <2> QED BY <2>1, <2>2
<1> QED BY <1>3, <1>4, <1>5, <1>6 DEF SchedulesInv

-----------------------------------------------------------------------------
(* The steps of the watcher. *)

(* _unregister leaves no live schedule for the path, and a task that was   *)
(* not over is still not over.                                             *)
LEMMA UnregisterCancels ==
    ASSUME TypeOK, SchedulesInv, NEW p \in Paths, Unregister(p)
    PROVE  /\ reg' \in [Paths -> Items \cup {None}]
           /\ reg'[p] = None
           /\ \A q \in Paths : q # p => reg'[q] = reg[q]
           /\ cron' \in [Items -> {"none", "sleeping", "firing", "cancelled"}]
           /\ \A i \in Items : cron'[i] = "none" <=> cron[i] = "none"
           /\ \A i \in Items : cron'[i] # cron[i] => cron'[i] = "cancelled"
           /\ \A i \in Items : cron'[i] \in {"sleeping", "firing"} =>
                 i[1] # p /\ cron[i] = cron'[i]
<1>1. /\ reg' \in [Paths -> Items \cup {None}]
      /\ reg'[p] = None
      /\ \A q \in Paths : q # p => reg'[q] = reg[q]
  BY DEF Unregister, TypeOK
<1>2. cron' \in [Items -> {"none", "sleeping", "firing", "cancelled"}]
  BY DEF Unregister, TypeOK
<1>3. \A i \in Items : /\ cron'[i] = "none" <=> cron[i] = "none"
                       /\ cron'[i] # cron[i] => cron'[i] = "cancelled" /\ i = reg[p]
  BY DEF Unregister, TypeOK
<1>4. ASSUME NEW i \in Items, cron'[i] \in {"sleeping", "firing"}
      PROVE  i[1] # p /\ cron[i] = cron'[i]
  <2>1. cron[i] = cron'[i]
    BY <1>3, <1>4
  <2>2. reg[i[1]] = i
    BY <1>4, <2>1 DEF SchedulesInv, NoOrphanSchedule
  <2>3. reg[p] # i
    BY <1>4, ItemShape DEF Unregister, TypeOK
  <2> QED BY <2>1, <2>2, <2>3
<1> QED BY <1>1, <1>2, <1>3, <1>4

LEMMA ChangeKeeps ==
    ASSUME JobsInv, NEW p \in Paths, Change(p)
    PROVE  JobsInv'
<1> USE DEF JobsInv
<1> DEFINE new == <<p, gen[p] + 1>>
<1>1. Unregister(p) /\ watcher = None /\ watcher' = <<new, reg[p]>>
  BY DEF Change
<1>2. UNCHANGED <<running, fire, permits, checkpoint, dropped>>
  BY DEF Change
<1>3. new \in Items /\ gen' \in [Paths -> 0..MaxGen] /\ gen'[p] = gen[p] + 1
      /\ (\A q \in Paths : q # p => gen'[q] = gen[q]) /\ gen[p] \in Nat
  BY JobAssumption DEF Change, TypeOK, Items
<1>4. TypeOK'
  BY <1>1, <1>2, <1>3, UnregisterCancels DEF TypeOK
<1>5. PermitsInv'
  BY <1>2, NothingCounted DEF Active
<1>6. RegistryInv'
  <2>1. \A q \in Paths : gen[q] <= gen'[q] /\ gen[q] \in Nat /\ gen'[q] \in Nat
    BY <1>3 DEF TypeOK
  <2>2. ASSUME NEW q \in Paths, reg'[q] # None
        PROVE  reg'[q][1] = q /\ reg'[q][2] <= gen'[q]
    <3>1. q # p /\ reg'[q] = reg[q]
      BY <1>1, <2>2, UnregisterCancels
    <3> QED BY <1>3, <2>2, <3>1 DEF SchedulesInv, RegistryInv
  <2>3. ASSUME NEW i \in Items, cron'[i] # "none"
        PROVE  i[2] <= gen'[i[1]]
    <3>1. i[2] <= gen[i[1]] /\ i[1] \in Paths /\ i[2] \in Nat
      BY <1>1, <2>3, UnregisterCancels, ItemShape DEF SchedulesInv, RegistryInv
    <3> QED BY <2>1, <3>1
  <2> QED BY <2>2, <2>3 DEF RegistryInv
<1>7. WatcherInv'
  <2>1. cron[new] = "none"
    BY <1>3 DEF SchedulesInv, RegistryInv
  <2>2. cron'[new] = "none"
    BY <1>1, <1>3, <2>1, UnregisterCancels
  <2>3. reg[p] # None => reg[p][1] = p
    BY DEF SchedulesInv, RegistryInv
  <2>4. reg'[p] = None
    BY <1>1, UnregisterCancels
  <2> QED BY <1>1, <1>3, <2>2, <2>3, <2>4 DEF WatcherInv
<1>8. LoopInv'
  BY <1>1, <1>2, UnregisterCancels DEF SchedulesInv, LoopInv, TypeOK
<1>9. TasksKnown'
  <2> SUFFICES ASSUME NEW i \in Items, cron'[i] # "none", i \notin dropped'
               PROVE  reg'[i[1]] = i \/ (watcher' # None /\ watcher'[2] = i)
    BY DEF TasksKnown
  <2>1. reg[i[1]] = i /\ i[1] \in Paths
    BY <1>1, <1>2, UnregisterCancels, ItemShape DEF SchedulesInv, TasksKnown
  <2>2. CASE i[1] = p
    BY <1>1, <1>3, <2>1, <2>2, NoneAssumption DEF TypeOK
  <2>3. CASE i[1] # p
    BY <1>1, <2>1, <2>3, UnregisterCancels
  <2> QED BY <2>2, <2>3
<1>10. NoOrphanSchedule'
  BY <1>1, UnregisterCancels, ItemShape DEF SchedulesInv, NoOrphanSchedule
<1> QED BY <1>4, <1>5, <1>6, <1>7, <1>8, <1>9, <1>10 DEF SchedulesInv

LEMMA DeleteKeeps ==
    ASSUME JobsInv, NEW p \in Paths, Delete(p)
    PROVE  JobsInv'
<1> USE DEF JobsInv
<1>1. Unregister(p) /\ watcher = None /\ watcher' = None /\ reg[p] \in Items
  BY DEF Delete, TypeOK
<1>2. UNCHANGED <<gen, running, fire, permits, checkpoint>>
      /\ dropped' = dropped \cup {reg[p]}
  BY DEF Delete
<1>4. TypeOK'
  BY <1>1, <1>2, UnregisterCancels DEF TypeOK
<1>5. PermitsInv'
  BY <1>2, NothingCounted DEF Active
<1>6. RegistryInv'
  BY <1>1, <1>2, UnregisterCancels DEF SchedulesInv, RegistryInv
<1>7. WatcherInv'
  BY <1>1 DEF WatcherInv
<1>8. LoopInv'
  BY <1>1, <1>2, UnregisterCancels DEF SchedulesInv, LoopInv, TypeOK
<1>9. TasksKnown'
  <2> SUFFICES ASSUME NEW i \in Items, cron'[i] # "none", i \notin dropped'
               PROVE  reg'[i[1]] = i
    BY DEF TasksKnown
  <2>1. reg[i[1]] = i /\ i[1] \in Paths /\ i # reg[p]
    BY <1>1, <1>2, UnregisterCancels, ItemShape DEF SchedulesInv, TasksKnown
  <2> QED BY <1>1, <2>1, UnregisterCancels
<1>10. NoOrphanSchedule'
  BY <1>1, UnregisterCancels, ItemShape DEF SchedulesInv, NoOrphanSchedule
<1> QED BY <1>4, <1>5, <1>6, <1>7, <1>8, <1>9, <1>10 DEF SchedulesInv

LEMMA RegisteredKeeps ==
    ASSUME JobsInv, NEW i \in Items, Registered(i)
    PROVE  JobsInv'
<1> USE DEF JobsInv
<1>1. PICK enabled \in BOOLEAN :
        cron' = IF enabled THEN [cron EXCEPT ![i] = "sleeping"] ELSE cron
  BY DEF Registered
<1>2. /\ watcher # None /\ watcher[1] = i /\ watcher' = None
      /\ reg' = [reg EXCEPT ![i[1]] = i]
      /\ UNCHANGED <<gen, running, fire, permits, checkpoint, dropped>>
  BY DEF Registered
<1>3. i[1] \in Paths /\ i[2] = gen[i[1]] /\ cron[i] = "none" /\ reg[i[1]] = None
      /\ gen[i[1]] \in Nat
  BY <1>2, ItemShape DEF SchedulesInv, WatcherInv, TypeOK
<1>4. TypeOK'
  BY <1>1, <1>2, <1>3 DEF TypeOK
<1>5. PermitsInv'
  BY <1>2, NothingCounted DEF Active
<1>6. RegistryInv'
  BY <1>1, <1>2, <1>3 DEF SchedulesInv, RegistryInv, TypeOK
<1>7. WatcherInv'
  BY <1>2 DEF WatcherInv
<1>8. LoopInv'
  BY <1>1, <1>2, <1>3 DEF SchedulesInv, LoopInv, TypeOK
<1>9. TasksKnown'
  <2> SUFFICES ASSUME NEW j \in Items, cron'[j] # "none", j \notin dropped'
               PROVE  reg'[j[1]] = j
    BY DEF TasksKnown
  <2>1. CASE j = i
    BY <1>2, <1>3, <2>1 DEF TypeOK
  <2>2. CASE j # i
    <3>1. cron[j] # "none" /\ j[1] \in Paths /\ j # None
      BY <1>1, <2>2, ItemShape DEF TypeOK
    <3>2. watcher[2] # j
      BY <3>1 DEF Registered, Awaited
    <3>3. reg[j[1]] = j
      BY <1>2, <3>1, <3>2 DEF SchedulesInv, TasksKnown
    <3> QED BY <1>2, <1>3, <3>1, <3>3 DEF TypeOK
  <2> QED BY <2>1, <2>2
<1>10. NoOrphanSchedule'
  <2> SUFFICES ASSUME NEW j \in Items, cron'[j] \in {"sleeping", "firing"}
               PROVE  reg'[j[1]] = j
    BY DEF NoOrphanSchedule
  <2>1. CASE j = i
    BY <1>2, <1>3, <2>1 DEF TypeOK
  <2>2. CASE j # i
    <3>1. cron[j] \in {"sleeping", "firing"} /\ j[1] \in Paths /\ j # None
      BY <1>1, <2>2, ItemShape DEF TypeOK
    <3>2. reg[j[1]] = j
      BY <3>1 DEF SchedulesInv, NoOrphanSchedule
    <3> QED BY <1>2, <1>3, <3>1, <3>2 DEF TypeOK
  <2> QED BY <2>1, <2>2
<1> QED BY <1>4, <1>5, <1>6, <1>7, <1>8, <1>9, <1>10 DEF SchedulesInv

-----------------------------------------------------------------------------
LEMMA JobsInit == Init => JobsInv
<1> SUFFICES ASSUME Init PROVE JobsInv
  OBVIOUS
<1>1. TypeOK
  BY JobAssumption DEF Init, TypeOK
<1>2. Holders = {}
  BY DEF Init, Holders, Active
<1>3. PermitsInv
  BY <1>2, FS_EmptySet, JobAssumption DEF PermitsInv, PermitsConserved, Holders, Init
<1>4. SchedulesInv
  BY CronFireShape DEF Init, SchedulesInv, RegistryInv, WatcherInv, LoopInv, TasksKnown,
        NoOrphanSchedule
<1> QED BY <1>1, <1>3, <1>4 DEF JobsInv

LEMMA JobsNext == JobsInv /\ [Next]_vars => JobsInv'
<1> SUFFICES ASSUME JobsInv, [Next]_vars PROVE JobsInv'
  OBVIOUS
<1>1. ASSUME NEW f \in Fires, Begin(f) PROVE JobsInv'
  BY <1>1, BeginKeeps
<1>2. ASSUME NEW f \in Fires, SendEnds(f) PROVE JobsInv'
  BY <1>2, SendEndsKeeps
<1>3. ASSUME NEW f \in Fires, DrainEnds(f) PROVE JobsInv'
  BY <1>3, DrainEndsKeeps
<1>4. ASSUME NEW f \in Fires, AdHocRun(f) \/ AdHocTimesOut(f) PROVE JobsInv'
  BY <1>4, AdHocKeeps
<1>5. ASSUME NEW i \in Items, CronTick(i) PROVE JobsInv'
  BY <1>5, CronTickKeeps
<1>6. ASSUME NEW i \in Items, Cancelled(i) PROVE JobsInv'
  BY <1>6, CancelledKeeps
<1>7. ASSUME NEW i \in Items, Registered(i) PROVE JobsInv'
  BY <1>7, RegisteredKeeps
<1>8. ASSUME NEW p \in Paths, Change(p) PROVE JobsInv'
  BY <1>8, ChangeKeeps
<1>9. ASSUME NEW p \in Paths, Delete(p) PROVE JobsInv'
  BY <1>9, DeleteKeeps
<1>10. CASE UNCHANGED vars
  <2>1. TypeOK' /\ SchedulesInv'
    BY <1>10 DEF vars, JobsInv, TypeOK, SchedulesInv, RegistryInv, WatcherInv, LoopInv,
          TasksKnown, NoOrphanSchedule
  <2>2. PermitsInv'
    BY <1>10, NothingCounted DEF vars, JobsInv, Active
  <2> QED BY <2>1, <2>2 DEF JobsInv
<1> QED
  BY <1>1, <1>2, <1>3, <1>4, <1>5, <1>6, <1>7, <1>8, <1>9, <1>10 DEF Next

(* Two scheduled fires of one path, neither removed, belong to one item:   *)
(* the listed item and the awaited one cannot both exist.                  *)
LEMMA JobsInvImpliesSafe == JobsInv => JobsSafe
<1> SUFFICES ASSUME JobsInv PROVE NoOverlap
  BY DEF JobsInv, PermitsInv, SchedulesInv, JobsSafe
<1> SUFFICES ASSUME NEW i \in Items \ dropped, NEW j \in Items \ dropped,
                    Active(CronFire(i)), Active(CronFire(j)), i[1] = j[1]
             PROVE  i = j
  BY DEF NoOverlap
<1>1. cron[i] # "none" /\ cron[j] # "none"
  BY DEF JobsInv, SchedulesInv, LoopInv, Active
<1>2. /\ reg[i[1]] = i \/ (watcher # None /\ watcher[2] = i)
      /\ reg[j[1]] = j \/ (watcher # None /\ watcher[2] = j)
  BY <1>1 DEF JobsInv, SchedulesInv, TasksKnown
<1>3. i # None /\ j # None
  BY ItemShape
<1>4. \A k \in {i, j} : watcher # None /\ watcher[2] = k => reg[k[1]] = None
  BY <1>3 DEF JobsInv, SchedulesInv, WatcherInv
<1> QED BY <1>2, <1>3, <1>4

LEMMA JobsInvariant == Spec => []JobsInv
BY JobsInit, JobsNext, PTL DEF Spec

(* Every variable of the job registry keeps its type; the semaphore never  *)
(* leaves 0..JOBS_MAX_CONCURRENT (jobs.py, JobRunner and _execute_job).    *)
THEOREM JobsTypeCorrect == Spec => []TypeOK
<1>1. JobsInv => TypeOK
  BY DEF JobsInv
<1> QED BY JobsInvariant, <1>1, PTL

(* Whatever the order of ticks, reloads, removals, ad-hoc runs, errors and *)
(* cancellations: no permit of the semaphore is lost or forged, a job file *)
(* has at most one live schedule, and scheduled fires of one file do not   *)
(* overlap across a hot reload (jobs.py, _execute_job and _register).      *)
THEOREM JobsSafeHolds == Spec => []JobsSafe
BY JobsInvariant, JobsInvImpliesSafe, PTL
=============================================================================
