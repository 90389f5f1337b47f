---------------------------- MODULE Continuations ----------------------------
(***************************************************************************)
(* harness/continuations.py, class ContinuationRunner: the registry of     *)
(* reactive continuations, notify with its fan-in state and its two        *)
(* throttles, and the life of a fire (_fire, its done-callback, close).    *)
(*                                                                         *)
(* notify is not a coroutine: one call visits every registered item in     *)
(* dictionary order without interruption, and each visit sees the fires    *)
(* the earlier ones started.  A pattern is the set of upstream kinds that  *)
(* fnmatch accepts for it; an upstream result stands for what on-success,  *)
(* on-error and trigger-when look at.                                      *)
(***************************************************************************)
EXTENDS Naturals, SequencesExt, FiniteSetsExt

CONSTANTS
    Paths,       \* continuation files
    Defs,        \* the definitions a file may hold
    Sessions,
    Kinds,       \* upstream kinds
    Results,     \* upstream results
    TTL,         \* CONTINUATION_FANIN_TTL, in ticks
    GlobalCap,   \* CONTINUATION_MAX_CONCURRENT_FIRES_GLOBAL
    None

(* A definition: name, continues_after as a set of patterns, the results   *)
(* it accepts, enabled, max_concurrent_fires, and whether it has a delay.  *)
ASSUME ContinuationAssumption ==
    /\ TTL \in Nat \ {0}
    /\ GlobalCap \in Nat \ {0}
    /\ \A d \in Defs : /\ d.after \subseteq SUBSET Kinds
                       /\ d.enabled => d.after # {}
                       /\ d.accepts \subseteq Results
                       /\ d.cap \in Nat \ {0}
                       /\ d.enabled \in BOOLEAN /\ d.delay \in BOOLEAN

Names == {d.name : d \in Defs}
Keys == Paths \X Sessions
FireIds == 1..GlobalCap + 1     \* enough: a fire starts only below GlobalCap

VARIABLES
    items,    \* _items
    order,    \* its keys, oldest insertion first
    fanin,    \* _fanin_state: the kinds seen and the age of the entry, or None
    fires,    \* _active_fires, and through the name _fires_by_name
    closing,  \* close(): "no", "draining", "done"
    counted   \* history: kinds completed since registration or the last fire

vars == <<items, order, fanin, fires, closing, counted>>

Entry == [seen : (SUBSET Kinds) \ {{}}, age : 0..TTL + 1]
Fire == [name : Names, key : Keys, phase : {"delay", "sending"}, age : 0..TTL + 1]

ASSUME NoneAssumption == None \notin Defs /\ None \notin Entry /\ None \notin Fire

TypeOK ==
    /\ items \in [Paths -> Defs \cup {None}]
    /\ order \in Seq(Paths)
    /\ \A p \in Paths : items[p] # None <=> Contains(order, p)
    /\ fanin \in [Keys -> Entry \cup {None}]
    /\ fires \in [FireIds -> Fire \cup {None}]
    /\ closing \in {"no", "draining", "done"}
    /\ counted \in [Keys -> SUBSET Kinds]

Init ==
    /\ items = [p \in Paths |-> None]
    /\ order = <<>>
    /\ fanin = [k \in Keys |-> None]
    /\ fires = [f \in FireIds |-> None]
    /\ closing = "no"
    /\ counted = [k \in Keys |-> {}]

Active(fs) == {f \in FireIds : fs[f] # None}
Named(fs, n) == {f \in Active(fs) : fs[f].name = n}

-----------------------------------------------------------------------------
(* notify *)

FanIn(d) == Cardinality(d.after) > 1
Matches(d, kind, res) ==
    d.enabled /\ res \in d.accepts /\ \E pat \in d.after : kind \in pat
Satisfied(d, seen) == \A pat \in d.after : pat \cap seen # {}

\* Mutant of Evict: entries are never evicted.
EvictNever(fs) == fs

\* _evict_stale_fanin, the first thing notify does.
Evict(fs) == [k \in Keys |-> IF fs[k] # None /\ fs[k].age > TTL THEN None ELSE fs[k]]

\* Mutant of Note: a first kind is not stored.
NoteEmpty(e, kind) ==
    IF e = None THEN [seen |-> {}, age |-> 0] ELSE [e EXCEPT !.seen = @ \cup {kind}]

\* Record the kind; a repeated one does not refresh the TTL (#1578).
Note(e, kind) ==
    IF e = None \/ kind \notin e.seen
      THEN [seen |-> (IF e = None THEN {} ELSE e.seen) \cup {kind}, age |-> 0]
      ELSE e

\* Mutant of Shed: > for >= in the global cap.
ShedLate(fs, d) ==
    \/ Cardinality(Active(fs)) > GlobalCap
    \/ Cardinality(Named(fs, d.name)) >= d.cap

Shed(fs, d) ==
    \/ Cardinality(Active(fs)) >= GlobalCap
    \/ Cardinality(Named(fs, d.name)) >= d.cap

\* ensure_future(_fire(...)), entered in both registries of active fires.
Started(fs, d, key, age) ==
    [fs EXCEPT ![Min(FireIds \ Active(fs))] =
        [name |-> d.name, key |-> key, age |-> age,
         phase |-> IF d.delay THEN "delay" ELSE "sending"]]

\* Mutant of Visit: the fan-in state is cleared before the throttles (#656).
VisitClearsFirst(st, p, session, kind, res) ==
    LET d == items[p]
        key == <<p, session>>
        entry == IF FanIn(d) THEN Note(st.fanin[key], kind) ELSE None
        ready == IF FanIn(d) THEN Satisfied(d, entry.seen) ELSE TRUE
        age == IF FanIn(d) /\ st.fanin[key] # None THEN st.fanin[key].age ELSE 0
    IN  IF ~Matches(d, kind, res) THEN st
        ELSE IF ~ready THEN [st EXCEPT !.fanin[key] = entry]
        ELSE IF Shed(st.fires, d) THEN [st EXCEPT !.fanin[key] = None]
        ELSE [fanin |-> [st.fanin EXCEPT ![key] = None],
              fires |-> Started(st.fires, d, key, age)]

\* One item of the loop: record, test readiness, throttle, fire, clear.
Visit(st, p, session, kind, res) ==
    LET d == items[p]
        key == <<p, session>>
        entry == IF FanIn(d) THEN Note(st.fanin[key], kind) ELSE None
        ready == IF FanIn(d) THEN Satisfied(d, entry.seen) ELSE TRUE
        age == IF FanIn(d) /\ st.fanin[key] # None THEN st.fanin[key].age ELSE 0
    IN  IF ~Matches(d, kind, res) THEN st
        ELSE IF ~ready \/ Shed(st.fires, d) THEN [st EXCEPT !.fanin[key] = entry]
        ELSE [fanin |-> [st.fanin EXCEPT ![key] = None],
              fires |-> Started(st.fires, d, key, age)]

\* The loop of notify over the items, after the eviction.
Visited(session, kind, res) ==
    FoldLeft(LAMBDA st, p : Visit(st, p, session, kind, res),
             [fanin |-> Evict(fanin), fires |-> fires], order)

\* An upstream prompt of the session has completed.  close() is called when the
\* watcher, the bus worker and the background tasks have stopped.
Notify(session, kind, res) ==
    LET after == Visited(session, kind, res)
        began == {after.fires[f].key : f \in Active(after.fires) \ Active(fires)}
    IN  /\ closing = "no"
        /\ fanin' = after.fanin
        /\ fires' = after.fires
        /\ counted' = [k \in Keys |->
              IF k \in began THEN {}
              ELSE IF k[2] = session /\ items[k[1]] # None
                      /\ Matches(items[k[1]], kind, res)
                THEN counted[k] \cup {kind}
                ELSE counted[k]]
        /\ UNCHANGED <<items, order, closing>>

-----------------------------------------------------------------------------
(* _register and _unregister, called by the file watcher *)

Forget(p) == [k \in Keys |-> IF k[1] = p THEN None ELSE fanin[k]]
Recount(p) == counted' = [k \in Keys |-> IF k[1] = p THEN {} ELSE counted[k]]

\* Mutant of ClearFanIn: partial fan-ins survive a change of the file.
KeepFanIn(p) == UNCHANGED fanin

ClearFanIn(p) == fanin' = IF items[p] # None THEN Forget(p) ELSE fanin

\* A file was created or edited and parsed; a file that does not parse changes
\* nothing.  The item moves to the end of the dictionary.
Register(p, d) ==
    /\ closing = "no"
    /\ ClearFanIn(p)
    /\ items' = [items EXCEPT ![p] = d]
    /\ order' = Append(RemoveFirst(order, p), p)
    /\ Recount(p)
    /\ UNCHANGED <<fires, closing>>

\* Fires that are under way are not cancelled.
Unregister(p) ==
    /\ closing = "no"
    /\ items[p] # None
    /\ ClearFanIn(p)
    /\ items' = [items EXCEPT ![p] = None]
    /\ order' = RemoveFirst(order, p)
    /\ Recount(p)
    /\ UNCHANGED <<fires, closing>>

-----------------------------------------------------------------------------
(* _fire and close *)

DelayOver(f) ==
    /\ fires[f] # None /\ fires[f].phase = "delay"
    /\ fires' = [fires EXCEPT ![f].phase = "sending"]
    /\ UNCHANGED <<items, order, fanin, closing, counted>>

\* bus.send returned or raised: _cleanup, the done-callback.
FireEnds(f) ==
    /\ fires[f] # None
    /\ fires[f].phase = "sending"
    /\ fires' = [fires EXCEPT ![f] = None]
    /\ UNCHANGED <<items, order, fanin, closing, counted>>

\* Shutdown: gather the fires of that moment, under a timeout.
Close ==
    /\ closing = "no"
    /\ closing' = IF Active(fires) = {} THEN "done" ELSE "draining"
    /\ UNCHANGED <<items, order, fanin, fires, counted>>

Drained ==
    /\ closing = "draining"
    /\ Active(fires) = {}
    /\ closing' = "done"
    /\ UNCHANGED <<items, order, fanin, fires, counted>>

\* Mutant of DrainTimesOut: only the fires that are sending are cancelled.
DrainKeepsDelays ==
    /\ closing = "draining"
    /\ closing' = "done"
    /\ fires' = [f \in FireIds |-> IF fires[f] # None /\ fires[f].phase = "delay"
                                     THEN fires[f] ELSE None]
    /\ UNCHANGED <<items, order, fanin, counted>>

\* The timeout cancels every active fire.
DrainTimesOut ==
    /\ closing = "draining"
    /\ closing' = "done"
    /\ fires' = [f \in FireIds |-> None]
    /\ UNCHANGED <<items, order, fanin, counted>>

\* Entries age.  An age beyond TTL + 1 would be treated alike.
Tick ==
    /\ fanin' = [k \in Keys |->
          IF fanin[k] # None /\ fanin[k].age <= TTL
            THEN [fanin[k] EXCEPT !.age = @ + 1] ELSE fanin[k]]
    /\ UNCHANGED <<items, order, fires, closing, counted>>

Next ==
    \/ \E s \in Sessions, k \in Kinds, r \in Results : Notify(s, k, r)
    \/ \E p \in Paths : Unregister(p) \/ \E d \in Defs : Register(p, d)
    \/ \E f \in FireIds : DelayOver(f) \/ FireEnds(f)
    \/ Close \/ Drained \/ DrainTimesOut
    \/ Tick

Spec == Init /\ [][Next]_vars

-----------------------------------------------------------------------------
(* The process-wide cap (#781) and the cap of each continuation hold after *)
(* every notify, although one call may start a fire for every item.        *)
CapsRespected ==
    /\ Cardinality(Active(fires)) <= GlobalCap
    /\ \A n \in Names : \E d \in Defs :
          d.name = n /\ Cardinality(Named(fires, n)) <= d.cap

(* A completion counts once: what a fan-in entry has seen was completed    *)
(* under the present definition of the file and after its last fire.       *)
CountsOnce ==
    \A k \in Keys : fanin[k] # None => fanin[k].seen \subseteq counted[k]

(* No fire is justified by an entry that had outlived its TTL (#557).      *)
NotStale == \A f \in Active(fires) : fires[f].age <= TTL

(* A fan-in that was throttled is not forgotten (#656): an entry goes away *)
(* only when its continuation fires, its file changes or its TTL is over.  *)
ShedKeepsFanIn ==
    [][\A k \in Keys :
          fanin[k] # None /\ fanin[k].age <= TTL /\ fanin'[k] = None
          => \/ Unregister(k[1]) \/ \E d \in Defs : Register(k[1], d)
             \/ \E f \in FireIds : fires[f] = None /\ fires'[f] # None /\ fires'[f].key = k]_vars

(* After close() no fire is left behind.                                   *)
NothingAfterClose == closing = "done" => Active(fires) = {}
=============================================================================
