---------------------------- MODULE SafetyProofs ----------------------------
(* Proofs about components that MCSafety composes: the turns of the        *)
(* backends, for any turns, sessions and task ids; the audit of the shell  *)
(* commands of the openai backend, for any commands and rules; and the     *)
(* windows of tasks, for any files, any length of the day and any cap.     *)
EXTENDS MCSafety, LoopProofs

-----------------------------------------------------------------------------
(* Turns *)

TurnFields == {"at", "seq", "texts", "finals", "replies", "logged", "top", "tangled", "shared",
               "twin", "asked"}
Places == {"new", "refused", "opened", "running", "replied", "done", "cancelled"}
Live == {"opened", "running", "replied"}

(* A turn as far as the properties look at it.                             *)
Shaped(x) ==
    /\ DOMAIN x = TurnFields
    /\ x.at \in Places
    /\ x.seq \in Nat /\ x.top \in Nat
    /\ x.finals = (IF x.at = "done" THEN 1 ELSE 0)

TurnShapes ==
    /\ DOMAIN turn = TurnIds
    /\ \A t \in TurnIds : Shaped(turn[t])
    /\ turnSeq \in [T!Streams -> Nat]
    /\ kind \in BackendKinds

(* The next number is beyond those a running turn gave: openai counts for  *)
(* the turn, the others for the session, which one turn at a time may use. *)
NumbersAhead ==
    \A t \in TurnIds : turn[t].at \in Live =>
        IF kind = "openai" THEN turn[t].seq >= turn[t].top
        ELSE turn[t].shared \/ turnSeq[TurnSession[t]] >= turn[t].top
Untangled == \A t \in TurnIds : turn[t].tangled => kind # "openai" /\ turn[t].shared

(* The registry has turns under their own task id, and a turn that ran     *)
(* with no other of its task id is the one registered: cancel finds it.    *)
RegistryKnown ==
    /\ runningTask \in [T!TaskIds -> TurnIds \cup {T!NoTurn}]
    /\ \A k \in T!TaskIds : runningTask[k] # T!NoTurn =>
          TurnTask[runningTask[k]] = k /\ turn[runningTask[k]].at \in Live
TwinsKnown ==
    \A t, u \in TurnIds :
        t # u /\ turn[t].at \in Live /\ turn[u].at \in Live /\ TurnTask[t] = TurnTask[u] => turn[t].twin
AloneIsFound ==
    \A t \in TurnIds :
        turn[t].at \in Live => turn[t].twin \/ runningTask[TurnTask[t]] = t
AskedStops == \A t \in TurnIds : turn[t].asked => turn[t].twin \/ turn[t].at = "cancelled"
HeldByRunning == stackHeld \subseteq TurnIds /\ \A t \in stackHeld : turn[t].at = "running"

TurnInv ==
    /\ TurnShapes /\ NumbersAhead /\ Untangled
    /\ RegistryKnown /\ TwinsKnown /\ AloneIsFound /\ AskedStops
    /\ HeldByRunning

(* The larger of two numbers is one of them and bounds both.               *)
LEMMA LargerOfTwo ==
    ASSUME NEW a \in Nat, NEW b \in Nat
    PROVE  LET m == T!Max({a, b}) IN m \in {a, b} /\ m >= a /\ m >= b
<1>1. \E m \in {a, b} : \A y \in {a, b} : m >= y
  OBVIOUS
<1> QED
  BY <1>1 DEF T!Max

(* A step of one turn keeps the invariant when the turn keeps running, or  *)
(* ends and leaves the registry, or is refused; when the numbers of the    *)
(* sessions only grow; and when the stack is held by turns that run.       *)
LEMMA OneTurnMoves ==
    ASSUME TurnInv, NEW t \in TurnIds, NEW x,
           turn' = [turn EXCEPT ![t] = x], Shaped(x),
           x.shared = turn[t].shared, x.twin = turn[t].twin, x.asked = turn[t].asked,
           x.tangled => kind # "openai" /\ x.shared,
           \/ turn[t].at \in Live /\ x.at \in Live /\ runningTask' = runningTask
           \/ turn[t].at \in Live /\ x.at = "done" /\ T!Deregister(t)
           \/ turn[t].at = "new" /\ x.at = "refused" /\ runningTask' = runningTask,
           turnSeq' \in [T!Streams -> Nat],
           \A s \in T!Streams : turnSeq'[s] >= turnSeq[s],
           x.at \in Live => IF kind = "openai" THEN x.seq >= x.top
                            ELSE x.shared \/ turnSeq'[TurnSession[t]] >= x.top,
           kind' = kind,
           stackHeld' \subseteq TurnIds,
           \A u \in stackHeld' : IF u = t THEN x.at = "running" ELSE u \in stackHeld
    PROVE  TurnInv'
<1> TurnTask[t] \in T!TaskIds /\ \A u \in TurnIds : TurnSession[u] \in T!Streams
  BY DEF T!TaskIds, T!Streams
<1> T!NoTurn \notin TurnIds
  BY SafetyAssumption DEF T!TurnAssumption
<1>1. turn'[t] = x /\ \A u \in TurnIds \ {t} : turn'[u] = turn[u]
  BY DEF TurnInv, TurnShapes
<1>2. DOMAIN turn' = TurnIds
  BY DEF TurnInv, TurnShapes
<1>3. TurnShapes'
  BY <1>1, <1>2 DEF TurnInv, TurnShapes
<1>4. NumbersAhead'
  <2> SUFFICES ASSUME NEW u \in TurnIds, turn'[u].at \in Live
               PROVE  IF kind' = "openai" THEN turn'[u].seq >= turn'[u].top
                      ELSE turn'[u].shared \/ turnSeq'[TurnSession[u]] >= turn'[u].top
    BY DEF NumbersAhead
  <2>1. CASE u = t
    BY <1>1, <2>1
  <2>2. CASE u # t
    <3>1. turn'[u] = turn[u]
      BY <1>1, <2>2
    <3>2. IF kind = "openai" THEN turn[u].seq >= turn[u].top
          ELSE turn[u].shared \/ turnSeq[TurnSession[u]] >= turn[u].top
      BY <3>1 DEF TurnInv, NumbersAhead
    <3>3. turnSeq[TurnSession[u]] \in Nat /\ turnSeq'[TurnSession[u]] \in Nat /\ turn[u].top \in Nat
      BY DEF TurnInv, TurnShapes, Shaped
    <3> QED
      BY <3>1, <3>2, <3>3
  <2> QED
    BY <2>1, <2>2
<1>5. Untangled'
  BY <1>1 DEF TurnInv, Untangled
<1>6. TwinsKnown'
  BY <1>1 DEF TurnInv, TwinsKnown, Live
<1>7. AskedStops'
  BY <1>1 DEF TurnInv, AskedStops, Live
<1>8. HeldByRunning'
  BY <1>1 DEF TurnInv, HeldByRunning
<1>9. RegistryKnown' /\ AloneIsFound'
  <2>1. CASE runningTask' = runningTask /\ (turn[t].at \in Live <=> x.at \in Live)
    <3>1. RegistryKnown'
      BY <1>1, <2>1 DEF TurnInv, RegistryKnown
    <3>2. AloneIsFound'
      BY <1>1, <2>1 DEF TurnInv, AloneIsFound
    <3> QED
      BY <3>1, <3>2
  <2>2. CASE turn[t].at \in Live /\ x.at = "done" /\ T!Deregister(t)
    <3>1. x.at \notin Live
      BY <2>2 DEF Live
    <3>2. runningTask' = [runningTask EXCEPT ![TurnTask[t]] = T!NoTurn]
      BY <2>2 DEF T!Deregister
    <3>3. RegistryKnown'
      BY <1>1, <3>2 DEF TurnInv, RegistryKnown
    <3>4. AloneIsFound'
      <4> SUFFICES ASSUME NEW u \in TurnIds, turn'[u].at \in Live
                   PROVE  turn'[u].twin \/ runningTask'[TurnTask[u]] = u
        BY DEF AloneIsFound
      <4>1. u # t /\ turn'[u] = turn[u]
        BY <1>1, <3>1
      <4>2. CASE TurnTask[u] = TurnTask[t]
        BY <4>1, <4>2, <2>2 DEF TurnInv, TwinsKnown
      <4>3. CASE TurnTask[u] # TurnTask[t]
        BY <4>1, <4>3, <3>2 DEF TurnInv, AloneIsFound, RegistryKnown, T!TaskIds
      <4> QED
        BY <4>2, <4>3
    <3> QED
      BY <3>3, <3>4
  <2> QED
    BY <2>1, <2>2 DEF Live
<1> QED
  BY <1>3, <1>4, <1>5, <1>6, <1>7, <1>8, <1>9 DEF TurnInv

(* A chunk of a running turn: the turn is r with its next number.          *)
LEMMA Published ==
    ASSUME TurnInv, NEW t \in TurnIds, turn[t].at \in Live, NEW r, Shaped(r),
           r.seq = turn[t].seq, r.top = turn[t].top, r.tangled = turn[t].tangled,
           r.shared = turn[t].shared, r.twin = turn[t].twin, r.asked = turn[t].asked,
           \/ r.at \in Live /\ runningTask' = runningTask
           \/ r.at = "done" /\ T!Deregister(t),
           T!Publish(t, r), kind' = kind,
           stackHeld' \subseteq TurnIds,
           \A u \in stackHeld' : IF u = t THEN r.at = "running" ELSE u \in stackHeld
    PROVE  TurnInv'
<1> TurnSession[t] \in T!Streams
  BY DEF T!Streams
<1>1. PICK n : n = IF T!Local THEN turn[t].seq ELSE turnSeq[TurnSession[t]]
  OBVIOUS
<1>2. n \in Nat /\ r.top \in Nat /\ r.seq \in Nat
  BY <1>1 DEF TurnInv, TurnShapes, Shaped
<1>3. PICK m : m = T!Max({r.top, n + 1})
  OBVIOUS
<1>4. m \in Nat /\ m >= r.top /\ m >= n + 1 /\ m \in {r.top, n + 1}
  BY <1>2, <1>3, LargerOfTwo
<1>5. PICK x : x = [r EXCEPT !.seq = IF T!Local THEN n + 1 ELSE @,
                             !.tangled = @ \/ n < r.top, !.top = m]
  OBVIOUS
<1>6. turn' = [turn EXCEPT ![t] = x]
  BY <1>1, <1>3, <1>5 DEF T!Publish
<1>7. turnSeq' = IF T!Local THEN turnSeq ELSE [turnSeq EXCEPT ![TurnSession[t]] = n + 1]
  BY <1>1 DEF T!Publish
<1>8. /\ DOMAIN x = TurnFields
      /\ x.at = r.at /\ x.finals = r.finals /\ x.shared = r.shared /\ x.twin = r.twin /\ x.asked = r.asked
      /\ x.seq = (IF T!Local THEN n + 1 ELSE r.seq) /\ x.top = m
      /\ x.tangled <=> (r.tangled \/ n < r.top)
  BY <1>5 DEF Shaped, TurnFields
<1>9. Shaped(x)
  BY <1>2, <1>4, <1>8 DEF Shaped
<1>10. kind = "openai" <=> T!Local
  BY DEF T!Local
<1>11. IF T!Local THEN turn[t].seq >= turn[t].top
       ELSE turn[t].shared \/ turnSeq[TurnSession[t]] >= turn[t].top
  BY <1>10 DEF TurnInv, NumbersAhead
<1>12. n >= r.top \/ (~T!Local /\ r.shared)
  BY <1>1, <1>11
<1>13. x.tangled => kind # "openai" /\ x.shared
  BY <1>2, <1>8, <1>10, <1>12 DEF TurnInv, Untangled
<1>14. turnSeq' \in [T!Streams -> Nat] /\ \A s \in T!Streams : turnSeq'[s] >= turnSeq[s]
  <2>1. turnSeq \in [T!Streams -> Nat]
    BY DEF TurnInv, TurnShapes
  <2>2. CASE T!Local
    BY <2>1, <2>2, <1>7
  <2>3. CASE ~T!Local
    BY <2>1, <2>3, <1>1, <1>2, <1>7
  <2> QED
    BY <2>2, <2>3
<1>15. IF kind = "openai" THEN x.seq >= x.top ELSE x.shared \/ turnSeq'[TurnSession[t]] >= x.top
  <2>1. n >= r.top => n + 1 >= m
    BY <1>2, <1>4
  <2>2. CASE T!Local
    BY <2>1, <2>2, <1>8, <1>10, <1>12
  <2>3. CASE ~T!Local
    <3>1. turnSeq'[TurnSession[t]] = n + 1
      BY <2>3, <1>7 DEF TurnInv, TurnShapes
    <3> QED
      BY <2>1, <2>3, <3>1, <1>8, <1>10, <1>12
  <2> QED
    BY <2>2, <2>3
<1> QED
  BY <1>6, <1>8, <1>9, <1>13, <1>14, <1>15, OneTurnMoves

(* A turn opens: it is registered, and it and the turns of its session and *)
(* of its task id that are running know of one another.                    *)
LEMMA OpenKeeps ==
    ASSUME TurnInv, NEW t \in TurnIds, T!Open(t),
           IF kind = "openai" THEN turnSeq' = turnSeq
           ELSE turnSeq' = [turnSeq EXCEPT ![TurnSession[t]] = 1]
    PROVE  TurnInv'
<1> /\ TurnTask[t] \in T!TaskIds /\ TurnSession[t] \in T!Streams
    /\ \A u \in TurnIds : TurnTask[u] \in T!TaskIds /\ TurnSession[u] \in T!Streams
  BY DEF T!TaskIds, T!Streams
<1> T!NoTurn \notin TurnIds
  BY SafetyAssumption DEF T!TurnAssumption
<1>1. PICK peers : peers = {u \in TurnIds \ {t} : turn[u].at \in Live /\ TurnSession[u] = TurnSession[t]}
  OBVIOUS
<1>2. PICK twins : twins = {u \in TurnIds \ {t} : turn[u].at \in Live /\ TurnTask[u] = TurnTask[t]}
  OBVIOUS
<1>3. peers = T!With(t, T!SameSession) /\ twins = T!With(t, T!SameTask)
  BY <1>1, <1>2 DEF T!With, T!SameSession, T!SameTask, T!Running, Live
<1>4. PICK x : x = [T!NewTurn EXCEPT !.at = "opened", !.seq = 1, !.top = 1,
                                     !.shared = peers # {}, !.twin = twins # {}]
  OBVIOUS
<1>5. turn' = [u \in TurnIds |-> IF u = t THEN x
                 ELSE [turn[u] EXCEPT !.shared = @ \/ u \in peers, !.twin = @ \/ u \in twins]]
  BY <1>3, <1>4 DEF T!Open
<1>6. /\ turn[t].at = "new" /\ kind' = kind /\ stackHeld' = stackHeld
      /\ runningTask' = [runningTask EXCEPT ![TurnTask[t]] = t]
  BY DEF T!Open
<1>7. /\ DOMAIN x = TurnFields
      /\ x.at = "opened" /\ x.seq = 1 /\ x.top = 1 /\ x.finals = 0
      /\ ~x.tangled /\ ~x.asked
      /\ x.shared <=> (peers # {})
      /\ x.twin <=> (twins # {})
  BY <1>4 DEF T!NewTurn, TurnFields
<1>8. turn'[t] = x /\ DOMAIN turn' = TurnIds
  BY <1>5
<1>9. ASSUME NEW u \in TurnIds, u # t
      PROVE  /\ DOMAIN turn'[u] = TurnFields
             /\ turn'[u].at = turn[u].at /\ turn'[u].seq = turn[u].seq /\ turn'[u].top = turn[u].top
             /\ turn'[u].finals = turn[u].finals
             /\ turn'[u].asked = turn[u].asked /\ turn'[u].tangled = turn[u].tangled
             /\ turn'[u].shared <=> (turn[u].shared \/ u \in peers)
             /\ turn'[u].twin <=> (turn[u].twin \/ u \in twins)
  <2>1. turn'[u] = [turn[u] EXCEPT !.shared = @ \/ u \in peers, !.twin = @ \/ u \in twins]
    BY <1>5, <1>9
  <2>2. DOMAIN turn[u] = TurnFields
    BY DEF TurnInv, TurnShapes, Shaped
  <2> QED
    BY <2>1, <2>2 DEF TurnFields
<1>10. TurnShapes'
  <2>1. Shaped(turn'[t])
    BY <1>7, <1>8 DEF Shaped, Places
  <2>2. ASSUME NEW u \in TurnIds, u # t PROVE Shaped(turn'[u])
    BY <1>9, <2>2 DEF TurnInv, TurnShapes, Shaped
  <2>3. turnSeq' \in [T!Streams -> Nat]
    BY DEF TurnInv, TurnShapes
  <2> QED
    BY <2>1, <2>2, <2>3, <1>6, <1>8 DEF TurnInv, TurnShapes
<1>11. NumbersAhead'
  <2> SUFFICES ASSUME NEW u \in TurnIds, turn'[u].at \in Live
               PROVE  IF kind' = "openai" THEN turn'[u].seq >= turn'[u].top
                      ELSE turn'[u].shared \/ turnSeq'[TurnSession[u]] >= turn'[u].top
    BY DEF NumbersAhead
  <2>1. CASE u = t
    BY <2>1, <1>6, <1>7, <1>8 DEF TurnInv, TurnShapes
  <2>2. CASE u # t
    <3>1. IF kind = "openai" THEN turn[u].seq >= turn[u].top
          ELSE turn[u].shared \/ turnSeq[TurnSession[u]] >= turn[u].top
      BY <2>2, <1>9 DEF TurnInv, NumbersAhead
    <3>2. CASE kind = "openai"
      BY <2>2, <3>1, <3>2, <1>6, <1>9
    <3>3. CASE kind # "openai" /\ TurnSession[u] = TurnSession[t]
      BY <2>2, <3>3, <1>1, <1>6, <1>9
    <3>4. CASE kind # "openai" /\ TurnSession[u] # TurnSession[t]
      BY <2>2, <3>1, <3>4, <1>6, <1>9 DEF TurnInv, TurnShapes
    <3> QED
      BY <3>2, <3>3, <3>4
  <2> QED
    BY <2>1, <2>2
<1>12. Untangled'
  BY <1>6, <1>7, <1>8, <1>9 DEF TurnInv, Untangled
<1>13. RegistryKnown'
  BY <1>6, <1>7, <1>8, <1>9 DEF TurnInv, RegistryKnown, Live
<1>14. TwinsKnown'
  BY <1>2, <1>6, <1>7, <1>8, <1>9 DEF TurnInv, TwinsKnown
<1>15. AloneIsFound'
  <2> SUFFICES ASSUME NEW u \in TurnIds, turn'[u].at \in Live
               PROVE  turn'[u].twin \/ runningTask'[TurnTask[u]] = u
    BY DEF AloneIsFound
  <2>1. CASE u = t
    BY <2>1, <1>6 DEF TurnInv, RegistryKnown
  <2>2. CASE u # t /\ TurnTask[u] = TurnTask[t]
    BY <2>2, <1>2, <1>9
  <2>3. CASE u # t /\ TurnTask[u] # TurnTask[t]
    BY <2>3, <1>6, <1>9 DEF TurnInv, RegistryKnown, AloneIsFound
  <2> QED
    BY <2>1, <2>2, <2>3
<1>16. AskedStops'
  BY <1>7, <1>8, <1>9 DEF TurnInv, AskedStops
<1>17. HeldByRunning'
  BY <1>6, <1>8, <1>9 DEF TurnInv, HeldByRunning
<1> QED
  BY <1>10, <1>11, <1>12, <1>13, <1>14, <1>15, <1>16, <1>17 DEF TurnInv

(* A cancellation asked for by c: the turn registered for the task id      *)
(* ends.  It is another than c only when both are twins.                   *)
LEMMA CancelKeeps ==
    ASSUME TurnInv, NEW c \in TurnIds, T!Cancel(c)
    PROVE  TurnInv'
<1> \A u \in TurnIds : TurnTask[u] \in T!TaskIds
  BY DEF T!TaskIds
<1> T!NoTurn \notin TurnIds
  BY SafetyAssumption DEF T!TurnAssumption
<1>1. PICK t : t = runningTask[TurnTask[c]]
  OBVIOUS
<1>2. turn[c].at \in Live /\ kind' = kind /\ turnSeq' = turnSeq
  BY DEF T!Cancel, T!Running, Live
<1>3. CASE t = T!NoTurn
  <2>1. turn' = [turn EXCEPT ![c].asked = TRUE] /\ runningTask' = runningTask /\ stackHeld' = stackHeld
    BY <1>1, <1>3 DEF T!Cancel
  <2>2. turn[c].twin
    BY <1>1, <1>2, <1>3 DEF TurnInv, AloneIsFound
  <2>3. /\ DOMAIN turn' = TurnIds
        /\ \A u \in TurnIds :
             /\ DOMAIN turn'[u] = TurnFields
             /\ turn'[u].at = turn[u].at /\ turn'[u].seq = turn[u].seq /\ turn'[u].top = turn[u].top
             /\ turn'[u].finals = turn[u].finals /\ turn'[u].tangled = turn[u].tangled
             /\ turn'[u].shared = turn[u].shared /\ turn'[u].twin = turn[u].twin
             /\ u # c => turn'[u].asked = turn[u].asked
    BY <2>1 DEF TurnInv, TurnShapes, Shaped, TurnFields
  <2>4. TurnShapes'
    BY <1>2, <2>3 DEF TurnInv, TurnShapes, Shaped
  <2>5. NumbersAhead' /\ Untangled' /\ TwinsKnown' /\ HeldByRunning'
    BY <1>2, <2>1, <2>3 DEF TurnInv, NumbersAhead, Untangled, TwinsKnown, HeldByRunning
  <2>6. RegistryKnown' /\ AloneIsFound'
    BY <2>1, <2>3 DEF TurnInv, RegistryKnown, AloneIsFound
  <2>7. AskedStops'
    BY <2>2, <2>3 DEF TurnInv, AskedStops
  <2> QED
    BY <2>4, <2>5, <2>6, <2>7 DEF TurnInv
<1>4. CASE t # T!NoTurn
  <2>1. /\ turn' = [[turn EXCEPT ![c].asked = TRUE] EXCEPT ![t].at = "cancelled"]
        /\ stackHeld' = stackHeld \ {t}
        /\ runningTask' = [runningTask EXCEPT ![TurnTask[t]] = T!NoTurn]
    BY <1>1, <1>4 DEF T!Cancel, T!ReleaseStack, T!Deregister
  <2>2. t \in TurnIds /\ TurnTask[t] = TurnTask[c] /\ turn[t].at \in Live
    BY <1>1, <1>4 DEF TurnInv, RegistryKnown
  <2>3. t # c => turn[c].twin /\ turn[t].twin
    BY <1>2, <2>2 DEF TurnInv, TwinsKnown
  <2>4. /\ DOMAIN turn' = TurnIds
        /\ \A u \in TurnIds :
             /\ DOMAIN turn'[u] = TurnFields
             /\ turn'[u].at = IF u = t THEN "cancelled" ELSE turn[u].at
             /\ turn'[u].seq = turn[u].seq /\ turn'[u].top = turn[u].top
             /\ turn'[u].finals = turn[u].finals /\ turn'[u].tangled = turn[u].tangled
             /\ turn'[u].shared = turn[u].shared /\ turn'[u].twin = turn[u].twin
             /\ u # c => turn'[u].asked = turn[u].asked
    <3>1. PICK f : f = [turn EXCEPT ![c].asked = TRUE]
      OBVIOUS
    <3>2. /\ DOMAIN f = TurnIds
          /\ \A u \in TurnIds :
               /\ DOMAIN f[u] = TurnFields
               /\ f[u].at = turn[u].at /\ f[u].seq = turn[u].seq /\ f[u].top = turn[u].top
               /\ f[u].finals = turn[u].finals /\ f[u].tangled = turn[u].tangled
               /\ f[u].shared = turn[u].shared /\ f[u].twin = turn[u].twin
               /\ u # c => f[u].asked = turn[u].asked
      BY <3>1 DEF TurnInv, TurnShapes, Shaped, TurnFields
    <3>3. turn' = [f EXCEPT ![t].at = "cancelled"]
      BY <2>1, <3>1
    <3> QED
      BY <2>2, <3>2, <3>3 DEF TurnFields
  <2>5. TurnShapes'
    BY <1>2, <2>2, <2>4 DEF TurnInv, TurnShapes, Shaped, Live, Places
  <2>6. NumbersAhead' /\ Untangled'
    BY <1>2, <2>4 DEF TurnInv, NumbersAhead, Untangled, Live
  <2>7. TwinsKnown' /\ HeldByRunning'
    <3>1. TwinsKnown'
      BY <2>4 DEF TurnInv, TwinsKnown, Live
    <3>2. stackHeld' \subseteq TurnIds
      BY <2>1 DEF TurnInv, HeldByRunning
    <3>3. ASSUME NEW u \in stackHeld' PROVE turn'[u].at = "running"
      <4>1. u \in stackHeld /\ u # t /\ u \in TurnIds
        BY <2>1, <3>2
      <4>2. turn'[u].at = turn[u].at
        BY <2>4, <4>1
      <4> QED
        BY <4>1, <4>2 DEF TurnInv, HeldByRunning
    <3> QED
      BY <3>1, <3>2, <3>3 DEF HeldByRunning
  <2>8. RegistryKnown'
    BY <2>1, <2>2, <2>4 DEF TurnInv, RegistryKnown
  <2>9. AloneIsFound'
    <3> SUFFICES ASSUME NEW u \in TurnIds, turn'[u].at \in Live
                 PROVE  turn'[u].twin \/ runningTask'[TurnTask[u]] = u
      BY DEF AloneIsFound
    <3>1. u # t /\ turn[u].at \in Live
      BY <2>4 DEF Live
    <3>2. CASE TurnTask[u] = TurnTask[t]
      BY <3>1, <3>2, <2>2, <2>4 DEF TurnInv, TwinsKnown
    <3>3. CASE TurnTask[u] # TurnTask[t]
      <4>1. runningTask'[TurnTask[u]] = runningTask[TurnTask[u]]
        BY <3>3, <2>1 DEF TurnInv, RegistryKnown
      <4>2. turn[u].twin \/ runningTask[TurnTask[u]] = u
        BY <3>1 DEF TurnInv, AloneIsFound
      <4>3. turn'[u].twin = turn[u].twin
        BY <2>4
      <4> QED
        BY <4>1, <4>2, <4>3
    <3> QED
      BY <3>2, <3>3
  <2>10. AskedStops'
    <3> SUFFICES ASSUME NEW u \in TurnIds, turn'[u].asked
                 PROVE  turn'[u].twin \/ turn'[u].at = "cancelled"
      BY DEF AskedStops
    <3>1. CASE u = t
      BY <3>1, <2>4
    <3>2. CASE u = c /\ u # t
      BY <3>2, <2>3, <2>4
    <3>3. CASE u # c /\ u # t
      BY <3>3, <2>4 DEF TurnInv, AskedStops
    <3> QED
      BY <3>1, <3>2, <3>3
  <2> QED
    BY <2>5, <2>6, <2>7, <2>8, <2>9, <2>10 DEF TurnInv
<1> QED
  BY <1>3, <1>4

(* A turn that changes its place, its final chunk and what no property     *)
(* looks at.                                                               *)
Edited(x, y, place) ==
    /\ Shaped(y) /\ y.at = place /\ y.seq = x.seq /\ y.top = x.top /\ y.tangled = x.tangled
    /\ y.shared = x.shared /\ y.twin = x.twin /\ y.asked = x.asked

LEMMA TurnEdited ==
    ASSUME NEW x, Shaped(x), NEW y, NEW place \in Places, NEW n,
           n = IF place = "done" THEN 1 ELSE 0,
           DOMAIN y = TurnFields,
           y.at = place /\ y.finals = n,
           \A f \in {"seq", "top", "tangled", "shared", "twin", "asked"} : y[f] = x[f]
    PROVE  Edited(x, y, place)
BY DEF Edited, Shaped

(* What the turn does to itself: refusal, start, text, reply, end, error.  *)
LEMMA OwnStepKeeps ==
    ASSUME TurnInv, NEW t \in TurnIds,
           \/ \E sid \in {"unknown", "derived"} : T!Refuse(t, sid)
           \/ \E h \in BOOLEAN : T!Start(t, h)
           \/ T!Emit(t) \/ T!Answer(t) \/ T!Close(t)
           \/ \E n \in 0..1 : T!Fail(t, n)
    PROVE  TurnInv'
<1>1. Shaped(turn[t]) /\ turnSeq \in [T!Streams -> Nat] /\ \A s \in T!Streams : turnSeq[s] >= turnSeq[s]
  BY DEF TurnInv, TurnShapes
<1>2. turn[t].tangled => kind # "openai" /\ turn[t].shared
  BY DEF TurnInv, Untangled
<1>3. stackHeld \subseteq TurnIds /\ \A u \in stackHeld : turn[u].at = "running"
  BY DEF TurnInv, HeldByRunning
<1>4. turn[t].at \in Live => IF kind = "openai" THEN turn[t].seq >= turn[t].top
                             ELSE turn[t].shared \/ turnSeq[TurnSession[t]] >= turn[t].top
  BY DEF TurnInv, NumbersAhead
<1>5. ASSUME NEW sid, T!Refuse(t, sid) PROVE TurnInv'
  <2>1. PICK x : x = [turn[t] EXCEPT !.at = "refused", !.replies = 1, !.logged = sid]
    OBVIOUS
  <2>2. turn[t].at = "new" /\ turn[t].finals = 0
    BY <1>1, <1>5 DEF T!Refuse, Shaped
  <2>3. turn' = [turn EXCEPT ![t] = x] /\ kind' = kind /\ turnSeq' = turnSeq /\ runningTask' = runningTask
        /\ stackHeld' = stackHeld
    BY <1>5, <2>1 DEF T!Refuse
  <2>4. Edited(turn[t], x, "refused")
    <3>1. DOMAIN turn[t] = TurnFields
      BY <1>1 DEF Shaped
    <3>2. /\ DOMAIN x = TurnFields
          /\ x.at = "refused" /\ x.finals = 0
          /\ \A f \in {"seq", "top", "tangled", "shared", "twin", "asked"} : x[f] = turn[t][f]
      BY <2>1, <2>2, <3>1 DEF TurnFields
    <3> QED
      BY <1>1, <3>2, TurnEdited DEF Places
  <2>5. x.at \notin Live
    BY <2>4 DEF Live, Edited
  <2>6. \A u \in stackHeld' : IF u = t THEN x.at = "running" ELSE u \in stackHeld
    BY <1>3, <2>2, <2>3 DEF Edited
  <2> QED
    BY <1>1, <1>2, <1>3, <2>2, <2>3, <2>4, <2>5, <2>6, OneTurnMoves DEF Edited
<1>6. ASSUME NEW h \in BOOLEAN, T!Start(t, h) PROVE TurnInv'
  <2>1. PICK x : x = [turn[t] EXCEPT !.at = "running"]
    OBVIOUS
  <2>2. turn[t].at = "opened" /\ turn[t].finals = 0
    BY <1>1, <1>6 DEF T!Start, Shaped
  <2>3. turn' = [turn EXCEPT ![t] = x] /\ kind' = kind /\ turnSeq' = turnSeq /\ runningTask' = runningTask
        /\ stackHeld' \subseteq stackHeld \cup {t}
    BY <1>6, <2>1 DEF T!Start
  <2>4. Edited(turn[t], x, "running")
    <3>1. DOMAIN turn[t] = TurnFields
      BY <1>1 DEF Shaped
    <3>2. /\ DOMAIN x = TurnFields
          /\ x.at = "running" /\ x.finals = 0
          /\ \A f \in {"seq", "top", "tangled", "shared", "twin", "asked"} : x[f] = turn[t][f]
      BY <2>1, <2>2, <3>1 DEF TurnFields
    <3> QED
      BY <1>1, <3>2, TurnEdited DEF Places
  <2>5. turn[t].at \in Live /\ x.at \in Live
    BY <2>2, <2>4 DEF Live, Edited
  <2>6. stackHeld' \subseteq TurnIds /\ \A u \in stackHeld' : IF u = t THEN x.at = "running" ELSE u \in stackHeld
    BY <1>3, <2>3, <2>4 DEF Edited
  <2> QED
    BY <1>1, <1>2, <1>4, <2>3, <2>4, <2>5, <2>6, OneTurnMoves DEF Edited
<1>7. ASSUME T!Emit(t) PROVE TurnInv'
  <2>1. PICK x : x = [turn[t] EXCEPT !.texts = @ + 1]
    OBVIOUS
  <2>2. /\ turn[t].at = "running" /\ turn[t].finals = 0
        /\ T!Publish(t, x) /\ kind' = kind /\ runningTask' = runningTask /\ stackHeld' = stackHeld
    BY <1>1, <1>7, <2>1 DEF T!Emit, Shaped
  <2>3. Edited(turn[t], x, "running")
    <3>1. DOMAIN turn[t] = TurnFields
      BY <1>1 DEF Shaped
    <3>2. /\ DOMAIN x = TurnFields
          /\ x.at = "running" /\ x.finals = 0
          /\ \A f \in {"seq", "top", "tangled", "shared", "twin", "asked"} : x[f] = turn[t][f]
      BY <2>1, <2>2, <3>1 DEF TurnFields
    <3> QED
      BY <1>1, <3>2, TurnEdited DEF Places
  <2>4. turn[t].at \in Live /\ x.at \in Live
    BY <2>2, <2>3 DEF Live, Edited
  <2>5. stackHeld' \subseteq TurnIds /\ \A u \in stackHeld' : IF u = t THEN x.at = "running" ELSE u \in stackHeld
    BY <1>3, <2>2, <2>3 DEF Edited
  <2> QED
    BY <2>2, <2>3, <2>4, <2>5, Published DEF Edited
<1>8. ASSUME T!Answer(t) PROVE TurnInv'
  <2>1. PICK n \in 0..1 : turn' = [turn EXCEPT ![t] = [@ EXCEPT !.at = "replied", !.replies = n]]
    BY <1>8 DEF T!Answer
  <2>2. PICK x : x = [turn[t] EXCEPT !.at = "replied", !.replies = n]
    OBVIOUS
  <2>3. turn[t].at = "running" /\ turn[t].finals = 0
    BY <1>1, <1>8 DEF T!Answer, Shaped
  <2>4. turn' = [turn EXCEPT ![t] = x] /\ kind' = kind /\ turnSeq' = turnSeq /\ runningTask' = runningTask
        /\ stackHeld' = stackHeld \ {t}
    BY <1>8, <2>1, <2>2 DEF T!Answer, T!ReleaseStack
  <2>5. Edited(turn[t], x, "replied")
    <3>1. DOMAIN turn[t] = TurnFields
      BY <1>1 DEF Shaped
    <3>2. /\ DOMAIN x = TurnFields
          /\ x.at = "replied" /\ x.finals = 0
          /\ \A f \in {"seq", "top", "tangled", "shared", "twin", "asked"} : x[f] = turn[t][f]
      BY <2>2, <2>3, <3>1 DEF TurnFields
    <3> QED
      BY <1>1, <3>2, TurnEdited DEF Places
  <2>6. turn[t].at \in Live /\ x.at \in Live
    BY <2>3, <2>5 DEF Live, Edited
  <2>7. stackHeld' \subseteq TurnIds /\ \A u \in stackHeld' : IF u = t THEN x.at = "running" ELSE u \in stackHeld
    BY <1>3, <2>4
  <2> QED
    BY <1>1, <1>2, <1>4, <2>4, <2>5, <2>6, <2>7, OneTurnMoves DEF Edited
<1>9. ASSUME T!Close(t) \/ \E n \in 0..1 : T!Fail(t, n) PROVE TurnInv'
  <2>1. turn[t].at \in {"running", "replied"} /\ kind' = kind /\ T!Deregister(t)
    BY <1>9 DEF T!Close, T!Fail
  <2>2. turn[t].finals = 0
    BY <1>1, <2>1 DEF Shaped
  <2>3. stackHeld' \subseteq TurnIds
        /\ \A u \in stackHeld' : IF u = t THEN FALSE ELSE u \in stackHeld
    BY <1>3, <1>9 DEF T!Close, T!Fail, T!ReleaseStack
  <2>4. DOMAIN turn[t] = TurnFields
    BY <1>1 DEF Shaped
  <2>5. \E x : T!Publish(t, x) /\ Edited(turn[t], x, "done")
    <3>1. CASE T!Close(t)
      <4>1. PICK x : x = [turn[t] EXCEPT !.at = "done", !.finals = @ + 1]
        OBVIOUS
      <4>2. T!Publish(t, x)
        BY <3>1, <4>1 DEF T!Close
      <4>3. /\ DOMAIN x = TurnFields
            /\ x.at = "done" /\ x.finals = 1
            /\ \A f \in {"seq", "top", "tangled", "shared", "twin", "asked"} : x[f] = turn[t][f]
        BY <4>1, <2>2, <2>4 DEF TurnFields
      <4> QED
        BY <1>1, <4>2, <4>3, TurnEdited DEF Places
    <3>2. ASSUME NEW n, T!Fail(t, n) PROVE \E x : T!Publish(t, x) /\ Edited(turn[t], x, "done")
      <4>1. PICK x : x = [turn[t] EXCEPT !.at = "done", !.finals = @ + 1, !.replies = n]
        OBVIOUS
      <4>2. T!Publish(t, x)
        BY <3>2, <4>1 DEF T!Fail
      <4>3. /\ DOMAIN x = TurnFields
            /\ x.at = "done" /\ x.finals = 1
            /\ \A f \in {"seq", "top", "tangled", "shared", "twin", "asked"} : x[f] = turn[t][f]
        BY <4>1, <2>2, <2>4 DEF TurnFields
      <4> QED
        BY <1>1, <4>2, <4>3, TurnEdited DEF Places
    <3> QED
      BY <1>9, <3>1, <3>2
  <2>6. PICK x : T!Publish(t, x) /\ Edited(turn[t], x, "done")
    BY <2>5
  <2>7. turn[t].at \in Live
    BY <2>1 DEF Live
  <2> QED
    BY <2>1, <2>3, <2>6, <2>7, Published DEF Edited
<1> QED
  BY <1>5, <1>6, <1>7, <1>8, <1>9

(* The invariant holds in the beginning and every step of Turns keeps it.  *)
LEMMA TurnStart == T!TurnInit => TurnInv
<1> SUFFICES ASSUME T!TurnInit PROVE TurnInv
  OBVIOUS
<1>1. \A t \in TurnIds : turn[t] = T!NewTurn
  BY DEF T!TurnInit
<1>2. /\ Shaped(T!NewTurn) /\ T!NewTurn.at \notin Live
      /\ ~T!NewTurn.tangled /\ ~T!NewTurn.asked
  BY DEF T!NewTurn, Shaped, TurnFields, Places, Live
<1>3. TurnShapes
  BY <1>1, <1>2 DEF T!TurnInit, TurnShapes
<1>4. NumbersAhead /\ Untangled /\ TwinsKnown /\ AloneIsFound /\ AskedStops
  BY <1>1, <1>2 DEF NumbersAhead, Untangled, TwinsKnown, AloneIsFound, AskedStops
<1>5. RegistryKnown /\ HeldByRunning
  BY DEF T!TurnInit, RegistryKnown, HeldByRunning
<1> QED
  BY <1>3, <1>4, <1>5 DEF TurnInv

LEMMA TurnStep == TurnInv /\ T!TurnNext => TurnInv'
<1> SUFFICES ASSUME TurnInv, NEW t \in TurnIds,
                    \/ T!ClaudeRefuses(t) \/ T!OpenAIRefuses(t) \/ T!GeminiRefuses(t)
                    \/ T!ClaudeOpens(t) \/ T!OpenAIOpens(t) \/ T!GeminiOpens(t)
                    \/ T!ClaudeRuns(t) \/ T!OpenAIRuns(t) \/ T!GeminiRuns(t)
                    \/ T!Cancel(t)
             PROVE  TurnInv'
  BY DEF T!TurnNext
<1>1. CASE T!ClaudeRefuses(t) \/ T!OpenAIRefuses(t) \/ T!GeminiRefuses(t)
  BY <1>1, OwnStepKeeps DEF T!ClaudeRefuses, T!OpenAIRefuses, T!GeminiRefuses
<1>2. CASE T!ClaudeOpens(t) \/ T!OpenAIOpens(t) \/ T!GeminiOpens(t)
  BY <1>2, OpenKeeps DEF T!ClaudeOpens, T!OpenAIOpens, T!GeminiOpens
<1>3. CASE T!ClaudeRuns(t) \/ T!OpenAIRuns(t) \/ T!GeminiRuns(t)
  <2>1. \/ \E h \in BOOLEAN : T!Start(t, h)
        \/ T!Emit(t) \/ T!Answer(t) \/ T!Close(t)
        \/ T!Fail(t, 0) \/ T!Fail(t, 1)
    BY <1>3, Zenon DEF T!ClaudeRuns, T!OpenAIRuns, T!GeminiRuns
  <2>2. 0 \in 0..1 /\ 1 \in 0..1
    OBVIOUS
  <2>3. (T!Fail(t, 0) \/ T!Fail(t, 1)) => \E n \in 0..1 : T!Fail(t, n)
    BY <2>2, Zenon
  <2> QED
    BY <2>1, <2>3, OwnStepKeeps, Zenon
<1>4. CASE T!Cancel(t)
  BY <1>4, CancelKeeps
<1> QED
  BY <1>1, <1>2, <1>3, <1>4

(* What the turns promise follows.                                         *)
LEMMA TurnsKeepTheirWord ==
    ASSUME TurnInv
    PROVE  T!TurnNumbered /\ T!NothingLeftBehind /\ T!CancelStops
<1>1. T!TurnNumbered
  BY DEF TurnInv, TurnShapes, Shaped, Untangled, T!TurnNumbered
<1>2. T!NothingLeftBehind
  BY DEF TurnInv, HeldByRunning, RegistryKnown, Live, T!NothingLeftBehind, T!Running
<1>3. T!CancelStops
  BY DEF TurnInv, AskedStops, T!CancelStops
<1> QED
  BY <1>1, <1>2, <1>3

-----------------------------------------------------------------------------
(* The audit of the shell commands *)

Hows == {"exit", "timeout", "fault", "denied"}
ShellFields == {"pc", "cmds", "done"}

ShellShape ==
    /\ DOMAIN shell = ShellFields
    /\ shell.cmds \in Seq(ToolInputs) /\ shell.done \in Seq(Hows)

(* Only the last outcome may be other than an exit, and then nothing is    *)
(* checked or executed any more.                                           *)
StopsAtTrouble ==
    /\ \A n \in 1..(Len(shell.done) - 1) : shell.done[n] = "exit"
    /\ shell.pc \in {"checking", "executing"} =>
          /\ Len(shell.done) < Len(shell.cmds)
          /\ \A n \in 1..Len(shell.done) : shell.done[n] = "exit"
    /\ shell.pc = "idle" => shell.done = <<>>

(* The allow rows are those of the commands that were started.             *)
WasStarted(n) ==
    \/ n \in 1..Len(shell.done) /\ shell.done[n] # "denied"
    \/ shell.pc = "executing" /\ n = Len(shell.done) + 1
RowsTell ==
    /\ \A n \in Nat : <<"allow", n>> \in auditLog <=> WasStarted(n)
    /\ \A n \in 1..Len(shell.done) : shell.done[n] = "denied" =>
          <<"deny", n>> \in auditLog /\ G!ShellDenies(shell.cmds[n])

AuditInv == ShellShape /\ StopsAtTrouble /\ RowsTell

(* A bounded sequence is a sequence.                                       *)
LEMMA BoundedIsSeq ==
    ASSUME NEW S, NEW b \in Nat, NEW cmds \in G!BoundedSeq(S, b)
    PROVE  cmds \in Seq(S) /\ (cmds # <<>> => Len(cmds) > 0)
<1>1. PICK m \in 0..b : cmds \in [1..m -> S]
  BY DEF G!BoundedSeq, G!SeqOf
<1>2. m \in Nat
  BY <1>1
<1>3. cmds \in Seq(S) /\ Len(cmds) = m
  BY <1>1, <1>2
<1>4. cmds # <<>> => Len(cmds) > 0
  BY <1>3
<1> QED
  BY <1>3, <1>4

(* A command ends, or is denied with its row: the request goes on only     *)
(* after an exit.                                                          *)
LEMMA FinishKeeps ==
    ASSUME AuditInv, NEW how \in Hows, G!Finish(how),
           \/ how = "denied" /\ shell.pc = "checking" /\ G!ShellDenies(shell.cmds[G!Turn])
              /\ auditLog' = auditLog \cup {<<"deny", G!Turn>>}
           \/ how # "denied" /\ shell.pc = "executing" /\ auditLog' = auditLog
    PROVE  AuditInv'
<1>1. PICK k : k = Len(shell.done) /\ k \in Nat
  BY DEF AuditInv, ShellShape
<1>2. PICK d : d = Append(shell.done, how)
  OBVIOUS
<1>3. /\ d \in Seq(Hows) /\ Len(d) = k + 1 /\ d[k + 1] = how
      /\ \A n \in 1..k : d[n] = shell.done[n]
  BY <1>1, <1>2 DEF AuditInv, ShellShape
<1>4. PICK pc : pc = IF how \in {"denied", "fault"} THEN "raised"
                     ELSE IF how = "timeout" \/ Len(d) = Len(shell.cmds) THEN "answered"
                     ELSE "checking"
  OBVIOUS
<1>5. shell' = [shell EXCEPT !.done = d, !.pc = pc]
  BY <1>2, <1>4 DEF G!Finish
<1>6. DOMAIN shell' = ShellFields /\ shell'.done = d /\ shell'.pc = pc /\ shell'.cmds = shell.cmds
  BY <1>5 DEF AuditInv, ShellShape, ShellFields
<1>7. /\ k < Len(shell.cmds) /\ Len(shell.cmds) \in Nat
      /\ \A n \in 1..k : shell.done[n] = "exit"
  BY <1>1 DEF AuditInv, ShellShape, StopsAtTrouble
<1>8. pc = "checking" => how = "exit" /\ k + 1 < Len(shell.cmds)
  BY <1>1, <1>3, <1>4, <1>7 DEF Hows
<1>9. pc \in {"raised", "answered", "checking"}
  BY <1>4
<1>10. ShellShape'
  BY <1>3, <1>6 DEF AuditInv, ShellShape
<1>11. StopsAtTrouble'
  <2>1. \A n \in 1..(Len(d) - 1) : d[n] = "exit"
    BY <1>1, <1>3, <1>7
  <2>2. pc \in {"checking", "executing"} =>
          Len(d) < Len(shell.cmds) /\ \A n \in 1..Len(d) : d[n] = "exit"
    BY <1>1, <1>3, <1>7, <1>8, <1>9
  <2> QED
    BY <2>1, <2>2, <1>6, <1>9 DEF StopsAtTrouble
<1>12. RowsTell'
  <2>1. G!Turn = k + 1
    BY <1>1 DEF G!Turn
  <2>2. ASSUME NEW n \in Nat PROVE <<"allow", n>> \in auditLog' <=> WasStarted(n)'
    <3>1. <<"allow", n>> \in auditLog' <=> <<"allow", n>> \in auditLog
      OBVIOUS
    <3>2. <<"allow", n>> \in auditLog <=> WasStarted(n)
      BY DEF AuditInv, RowsTell
    <3>3. WasStarted(n) <=> (n \in 1..k \/ (shell.pc = "executing" /\ n = k + 1))
      BY <1>1, <1>7 DEF WasStarted
    <3>4. WasStarted(n)' <=> n \in 1..(k + 1) /\ d[n] # "denied"
      BY <1>1, <1>3, <1>6, <1>9 DEF WasStarted
    <3>5. n \in 1..k => d[n] # "denied"
      BY <1>3, <1>7
    <3>6. n = k + 1 => (d[n] # "denied" <=> shell.pc = "executing")
      BY <1>3
    <3>7. n \in 1..(k + 1) <=> n \in 1..k \/ n = k + 1
      BY <1>1
    <3> QED
      BY <3>1, <3>2, <3>3, <3>4, <3>5, <3>6, <3>7
  <2>3. ASSUME NEW n \in 1..Len(d), d[n] = "denied"
        PROVE  <<"deny", n>> \in auditLog' /\ G!ShellDenies(shell.cmds[n])
    <3>1. n = k + 1
      BY <2>3, <1>1, <1>3, <1>7
    <3>2. how = "denied"
      BY <2>3, <3>1, <1>3
    <3> QED
      BY <2>1, <3>1, <3>2
  <2> QED
    BY <2>2, <2>3, <1>6 DEF RowsTell, G!ShellDenies, G!Matches
<1> QED
  BY <1>10, <1>11, <1>12 DEF AuditInv

(* The log is right in the beginning, and every step of the gate keeps it. *)
LEMMA AuditStart == G!GateInit => AuditInv
<1> SUFFICES ASSUME G!GateInit PROVE AuditInv
  OBVIOUS
<1>1. shell = [pc |-> "idle", cmds |-> <<>>, done |-> <<>>] /\ auditLog = {}
  BY DEF G!GateInit
<1>2. ShellShape
  BY <1>1 DEF ShellShape, ShellFields
<1>3. StopsAtTrouble /\ RowsTell
  BY <1>1 DEF StopsAtTrouble, RowsTell, WasStarted
<1> QED
  BY <1>2, <1>3 DEF AuditInv

LEMMA AuditStep == AuditInv /\ G!GateNext => AuditInv'
<1> SUFFICES ASSUME AuditInv, G!GateNext PROVE AuditInv'
  OBVIOUS
<1>1. CASE G!Edit \/ G!ReadHooks \/ G!SwapHooks \/ \E c \in Calls : G!PreToolUse(c) \/ G!PostDone(c)
  <2>1. shell' = shell /\ auditLog' = auditLog
    BY <1>1 DEF G!Edit, G!ReadHooks, G!SwapHooks, G!PreToolUse, G!PostDone
  <2> QED
    BY <2>1 DEF AuditInv, ShellShape, StopsAtTrouble, RowsTell, WasStarted
<1>2. CASE \E c \in Calls : G!PostToolUse(c)
  <2>1. PICK c \in Calls : shell' = shell /\ auditLog' = auditLog \cup {<<"call", c>>}
    BY <1>2 DEF G!PostToolUse
  <2>2. \A n \in Nat : <<"allow", n>> \in auditLog' <=> <<"allow", n>> \in auditLog
    BY <2>1
  <2> QED
    BY <2>1, <2>2 DEF AuditInv, ShellShape, StopsAtTrouble, RowsTell, WasStarted
<1>3. CASE G!ShellRequest
  <2>1. PICK cmds \in G!BoundedSeq(ToolInputs, CommandMax) :
           shell' = [pc |-> IF cmds = <<>> THEN "answered" ELSE "checking", cmds |-> cmds, done |-> <<>>]
    BY <1>3 DEF G!ShellRequest
  <2>2. shell.pc = "idle" /\ auditLog' = auditLog
    BY <1>3 DEF G!ShellRequest
  <2>3. cmds \in Seq(ToolInputs) /\ (cmds # <<>> => Len(cmds) > 0)
    BY BoundedIsSeq, SafetyAssumption DEF G!GateAssumption
  <2>4. DOMAIN shell' = ShellFields /\ shell'.cmds = cmds /\ shell'.done = <<>>
        /\ shell'.pc = IF cmds = <<>> THEN "answered" ELSE "checking"
    BY <2>1 DEF ShellFields
  <2>5. ShellShape'
    BY <2>3, <2>4 DEF ShellShape
  <2>6. StopsAtTrouble'
    BY <2>3, <2>4 DEF StopsAtTrouble
  <2>7. RowsTell'
    <3>1. ASSUME NEW n \in Nat PROVE ~WasStarted(n)
      BY <2>2 DEF AuditInv, StopsAtTrouble, WasStarted
    <3>2. ASSUME NEW n \in Nat PROVE ~WasStarted(n)'
      BY <2>4 DEF WasStarted
    <3> QED
      BY <2>2, <2>4, <3>1, <3>2 DEF AuditInv, RowsTell
  <2> QED
    BY <2>5, <2>6, <2>7 DEF AuditInv
<1>4. CASE G!ShellDeny
  BY <1>4, FinishKeeps DEF G!ShellDeny, Hows
<1>5. CASE G!ShellRan
  <2>1. PICK how \in {"exit", "timeout", "fault"} : G!Finish(how)
    BY <1>5 DEF G!ShellRan
  <2>2. shell.pc = "executing" /\ auditLog' = auditLog
    BY <1>5 DEF G!ShellRan
  <2> QED
    BY <2>1, <2>2, FinishKeeps DEF Hows
<1>6. CASE G!ShellAllow
  <2>1. PICK k : k = Len(shell.done) /\ k \in Nat
    BY DEF AuditInv, ShellShape
  <2>2. /\ shell.pc = "checking" /\ auditLog' = auditLog \cup {<<"allow", k + 1>>}
        /\ shell' = [shell EXCEPT !.pc = "executing"]
    BY <1>6, <2>1 DEF G!ShellAllow, G!Turn
  <2>3. /\ DOMAIN shell' = ShellFields /\ shell'.pc = "executing"
        /\ shell'.cmds = shell.cmds /\ shell'.done = shell.done
    BY <2>2 DEF AuditInv, ShellShape, ShellFields
  <2>4. ShellShape' /\ StopsAtTrouble'
    BY <2>2, <2>3 DEF AuditInv, ShellShape, StopsAtTrouble
  <2>5. RowsTell'
    <3>1. ASSUME NEW n \in Nat PROVE <<"allow", n>> \in auditLog' <=> WasStarted(n)'
      <4>1. <<"allow", n>> \in auditLog' <=> <<"allow", n>> \in auditLog \/ n = k + 1
        BY <2>2
      <4>2. WasStarted(n)' <=> WasStarted(n) \/ n = k + 1
        BY <2>1, <2>2, <2>3 DEF WasStarted
      <4> QED
        BY <4>1, <4>2 DEF AuditInv, RowsTell
    <3>2. \A n \in 1..Len(shell.done) : shell.done[n] = "denied" =>
            <<"deny", n>> \in auditLog' /\ G!ShellDenies(shell.cmds[n])
      BY <2>2 DEF AuditInv, RowsTell
    <3> QED
      BY <3>1, <3>2, <2>3 DEF RowsTell, G!ShellDenies, G!Matches
  <2> QED
    BY <2>4, <2>5 DEF AuditInv
<1> QED
  BY <1>1, <1>2, <1>3, <1>4, <1>5, <1>6 DEF G!GateNext

(* The audit log and the world agree.                                      *)
LEMMA AuditTells == ASSUME AuditInv PROVE G!AuditTellsWhatRan
<1>1. PICK k : k = Len(shell.done) /\ k \in Nat /\ DOMAIN shell.done = 1..k
  BY DEF AuditInv, ShellShape
<1>2. PICK started : started = {n \in DOMAIN shell.done : shell.done[n] # "denied"} \cup
                               (IF shell.pc = "executing" THEN {G!Turn} ELSE {})
  OBVIOUS
<1>3. G!Turn = k + 1
  BY <1>1 DEF G!Turn
<1>4. ASSUME NEW n \in 1..CommandMax PROVE (<<"allow", n>> \in auditLog) = (n \in started)
  <2>1. n \in Nat
    BY SafetyAssumption DEF G!GateAssumption
  <2>2. n \in started <=> WasStarted(n)
    BY <1>1, <1>2, <1>3 DEF WasStarted
  <2> QED
    BY <2>1, <2>2 DEF AuditInv, RowsTell
<1>5. \A n \in DOMAIN shell.done : shell.done[n] = "denied" =>
         <<"deny", n>> \in auditLog /\ G!ShellDenies(shell.cmds[n])
  BY <1>1 DEF AuditInv, RowsTell
<1>6. \A n \in 1..(G!Turn - 2) : shell.done[n] = "exit"
  BY <1>1, <1>3 DEF AuditInv, StopsAtTrouble
<1> QED
  BY <1>2, <1>4, <1>5, <1>6 DEF G!AuditTellsWhatRan

-----------------------------------------------------------------------------
(* The turns and the audit take no part in each other's steps.             *)
LEMMA AloneOrStill ==
    ASSUME [SafetyNext]_<<focus, runners, backends>>
    PROVE  (T!TurnNext \/ UNCHANGED turnvars) /\ (G!GateNext \/ UNCHANGED gatevars)
BY DEF SafetyNext, runners, backends

(* The chunks of a turn are numbered upwards and one of them is final, a   *)
(* turn gives back its MCP stack and its registration, a cancellation that *)
(* was asked for stops it, and the audit log tells which shell commands    *)
(* ran: in every behaviour, with any turns, sessions, task ids, commands   *)
(* and rules (execute, cancel and the shell executor of the backends).     *)
THEOREM TurnsAccountedHolds == SafetySpec => []TurnsAccounted
<1>1. SafetyInit => TurnInv /\ AuditInv
  BY TurnStart, AuditStart DEF SafetyInit
<1>2. TurnInv /\ AuditInv /\ [SafetyNext]_<<focus, runners, backends>> => TurnInv' /\ AuditInv'
  <2> SUFFICES ASSUME TurnInv, AuditInv, [SafetyNext]_<<focus, runners, backends>>
               PROVE  TurnInv' /\ AuditInv'
    OBVIOUS
  <2>1. TurnInv'
    <3>1. CASE UNCHANGED turnvars
      BY <3>1 DEF turnvars, TurnInv, TurnShapes, NumbersAhead, Untangled, RegistryKnown,
                  TwinsKnown, AloneIsFound, AskedStops, HeldByRunning
    <3> QED
      BY <3>1, AloneOrStill, TurnStep
  <2>2. AuditInv'
    <3>1. CASE UNCHANGED gatevars
      BY <3>1 DEF gatevars, AuditInv, ShellShape, StopsAtTrouble, RowsTell, WasStarted
    <3> QED
      BY <3>1, AloneOrStill, AuditStep
  <2> QED
    BY <2>1, <2>2
<1>3. TurnInv /\ AuditInv => TurnsAccounted
  BY TurnsKeepTheirWord, AuditTells DEF TurnsAccounted
<1> QED
  BY <1>1, <1>2, <1>3, PTL DEF SafetySpec

-----------------------------------------------------------------------------
(* Days and slots *)

(* A nonempty set of days from some day on has a first one.                *)
LEMMA FirstOf ==
    ASSUME NEW a \in Nat, NEW b \in Int, NEW ds, ds \subseteq a..b, ds # {}
    PROVE  LET m == K!Min(ds) IN m \in ds /\ \A d \in ds : m <= d
<1>1. ds \subseteq Nat
  OBVIOUS
<1>2. \E x \in ds : \A y \in ds : ~(<<y, x>> \in OpToRel(<, Nat))
  BY <1>1, NatLessThanWellFounded, WFMin, Zenon
<1>3. PICK x \in ds : \A y \in ds : <<y, x>> \notin OpToRel(<, Nat)
  BY <1>2
<1>4. \A y \in ds : ~(y < x)
  BY <1>1, <1>3 DEF OpToRel
<1>5. \A y \in ds : x <= y
  BY <1>1, <1>4
<1> QED
  BY <1>5 DEF K!Min

(* A time is its day and its slot.                                         *)
LEMMA DayAndSlot ==
    ASSUME NEW t \in Nat
    PROVE  /\ K!Day(t) \in Nat /\ K!Slot(t) \in 0..(SlotsPerDay - 1)
           /\ t = K!Day(t) * SlotsPerDay + K!Slot(t)
BY SafetyAssumption, Z3 DEF K!TaskAssumption, K!Day, K!Slot

LEMMA DayOf ==
    ASSUME NEW d \in Nat, NEW e \in 0..(SlotsPerDay - 1)
    PROVE  /\ d * SlotsPerDay + e \in Nat
           /\ K!Day(d * SlotsPerDay + e) = d /\ K!Slot(d * SlotsPerDay + e) = e
BY SafetyAssumption, Z3 DEF K!TaskAssumption, K!Day, K!Slot

(* Any slot of an earlier day is before any slot of a later one.           *)
LEMMA EarlierDay ==
    ASSUME NEW d \in Nat, NEW e \in Nat, NEW s \in Nat \ {0}, d < e,
           NEW x \in 0..(s - 1), NEW y \in 0..(s - 1)
    PROVE  d * s + x < e * s + y
<1>1. d * s + s <= e * s
  BY Z3
<1>2. PICK p, q : p = d * s /\ q = e * s
  OBVIOUS
<1>3. p \in Nat /\ q \in Nat
  BY <1>2
<1>4. p + s <= q
  BY <1>1, <1>2
<1>5. p + x < q + y
  BY <1>3, <1>4
<1> QED
  BY <1>2, <1>5

(* An item as parse_task_file makes it: a loop has a window.               *)
ItemOK(i) ==
    /\ i.opens \in 0..(SlotsPerDay - 1) \/ i.opens = Unset
    /\ i.repeat => i.opens # Unset
    /\ i.gap \in Nat

LEMMA ParsedOK ==
    ASSUME NEW f \in TaskFiles, K!Parse(f) # Unset
    PROVE  ItemOK(K!Parse(f))
<1>1. (f.opens \in 0..(SlotsPerDay - 1) \/ f.opens = Unset) /\ f.gap \in Nat
  BY SafetyAssumption DEF K!TaskAssumption
<1>2. CASE ~f.enabled
  BY <1>2 DEF K!Parse, K!Disabled, ItemOK
<1>3. CASE f.enabled
  <2>1. f.valid /\ (f.lasts # Unset => f.opens # Unset) /\ K!Parse(f) = K!ParseWindow(f)
    BY <1>3 DEF K!Parse
  <2>2. K!ParseWindow(f).opens = f.opens /\ (K!ParseWindow(f).repeat => f.lasts # Unset)
        /\ K!ParseWindow(f).gap = f.gap
    BY DEF K!ParseWindow
  <2> QED
    BY <1>1, <2>1, <2>2 DEF ItemOK
<1> QED
  BY <1>2, <1>3

(* The next opening of the window is later than now, and the first one of  *)
(* an eligible day when the window closes on the day it opens.             *)
LEMMA NextOpening ==
    ASSUME NEW t \in Nat, NEW i, i.opens \in 0..(SlotsPerDay - 1),
           NEW w, w = K!NextWindowOpen(i, t), w # Unset
    PROVE  /\ w \in Nat /\ w > t
           /\ K!OpeningOf(i, w) = w
           /\ ~K!Spans(i) => \A o \in (t + 1)..(w - 1) : ~(K!Slot(o) = i.opens /\ K!DayMatches(i, K!Day(o)))
<1> PICK s : s = SlotsPerDay /\ s \in Nat \ {0}
  BY SafetyAssumption DEF K!TaskAssumption
<1> PICK e : e = i.opens /\ e \in 0..(s - 1)
  OBVIOUS
<1>1. PICK day, slot : /\ day = K!Day(t) /\ slot = K!Slot(t)
                       /\ day \in Nat /\ slot \in 0..(s - 1) /\ t = day * s + slot
  BY DayAndSlot
<1>2. PICK a : a = K!FirstDay(i, t)
  OBVIOUS
<1>3. a \in {day, day + 1} /\ (slot >= e => a = day + 1)
  BY <1>1, <1>2 DEF K!FirstDay
<1>4. PICK b : b = K!Day(K!Never) /\ b \in Nat
  <2>1. K!Never \in Nat
    BY SafetyAssumption DEF K!TaskAssumption, K!Never
  <2> QED
    BY <2>1, DayAndSlot
<1>5. PICK ds : ds = {d \in a..b : K!DayMatches(i, d)}
  OBVIOUS
<1>6. ds # {} /\ w = K!Min(ds) * s + e
  BY <1>2, <1>4, <1>5 DEF K!NextWindowOpen
<1>7. PICK m : m = K!Min(ds) /\ m \in ds /\ \A d \in ds : m <= d
  <2>1. a \in Nat /\ ds \subseteq a..b /\ ds # {} /\ b \in Int
    BY <1>1, <1>3, <1>4, <1>5, <1>6
  <2>2. K!Min(ds) \in ds /\ \A d \in ds : K!Min(ds) <= d
    BY <2>1, FirstOf
  <2> QED
    BY <2>2
<1>8. m \in Nat /\ a <= m /\ m <= b /\ w = m * s + e
  BY <1>1, <1>3, <1>4, <1>5, <1>6, <1>7
<1>9. w \in Nat /\ K!Day(w) = m /\ K!Slot(w) = e
  BY <1>8, DayOf
<1>10. w > t
  <2>1. CASE m = day
    BY <1>1, <1>3, <1>8, <2>1
  <2>2. CASE m > day
    <3>1. day * s + slot < m * s + e
      BY <1>1, <1>8, <2>2, EarlierDay
    <3> QED
      BY <1>1, <1>8, <3>1
  <2> QED
    BY <1>1, <1>3, <1>8, <2>1, <2>2
<1>11. K!OpeningOf(i, w) = w
  BY <1>8, <1>9 DEF K!OpeningOf
<1>12. ASSUME ~K!Spans(i), NEW o \in (t + 1)..(w - 1), K!Slot(o) = e, K!DayMatches(i, K!Day(o))
       PROVE  FALSE
  <2>1. o \in Nat /\ t < o /\ o < w
    BY <1>9
  <2>2. PICK d : d = K!Day(o) /\ d \in Nat /\ o = d * s + e
    BY <1>12, <2>1, DayAndSlot
  <2>3. d < m
    <3>1. m < d => m * s + e < d * s + e
      BY <1>8, <2>2, EarlierDay
    <3>2. m < d => w < o
      BY <1>8, <2>2, <3>1
    <3> QED
      BY <1>8, <1>9, <2>1, <2>2, <3>2
  <2>4. d >= day
    <3>1. d < day => d * s + e < day * s + slot
      BY <1>1, <2>2, EarlierDay
    <3>2. d < day => o < t
      BY <1>1, <2>2, <3>1
    <3> QED
      BY <1>1, <2>1, <2>2, <3>2
  <2>5. slot >= e => d > day
    <3>1. ASSUME slot >= e, d = day PROVE FALSE
      <4>1. PICK p : p = day * s /\ p \in Nat
        BY <1>1
      <4> QED
        BY <1>1, <2>1, <2>2, <3>1, <4>1
    <3> QED
      BY <1>1, <2>2, <2>4, <3>1
  <2>6. a <= d
    <3>1. slot < e => a = day
      BY <1>1, <1>2, <1>12 DEF K!FirstDay
    <3> QED
      BY <1>1, <1>3, <2>2, <2>4, <2>5, <3>1
  <2>7. d \in ds
    BY <1>1, <1>3, <1>4, <1>5, <1>8, <1>12, <2>2, <2>3, <2>6
  <2> QED
    BY <1>7, <1>8, <2>2, <2>3, <2>7
<1> QED
  BY <1>9, <1>10, <1>11, <1>12

(* The opening a fire is for is not in the future.                         *)
LEMMA OpeningPast ==
    ASSUME NEW t \in Nat, NEW i, i.opens \in 0..(SlotsPerDay - 1)
    PROVE  K!OpeningOf(i, t) \in Int /\ K!OpeningOf(i, t) <= t
<1> PICK s : s = SlotsPerDay /\ s \in Nat \ {0}
  BY SafetyAssumption DEF K!TaskAssumption
<1> PICK e : e = i.opens /\ e \in 0..(s - 1)
  OBVIOUS
<1>1. PICK day, slot : /\ day = K!Day(t) /\ slot = K!Slot(t)
                       /\ day \in Nat /\ slot \in 0..(s - 1) /\ t = day * s + slot
  BY DayAndSlot
<1>2. (day - 1) * s = day * s - s
  BY <1>1, Z3
<1>3. PICK p : p = day * s /\ p \in Nat
  BY <1>1
<1>4. K!OpeningOf(i, t) = IF slot >= e THEN p + e ELSE p - s + e
  BY <1>1, <1>2, <1>3 DEF K!OpeningOf
<1>5. slot \in 0..(s - 1) /\ t = p + slot
  BY <1>1, <1>3
<1>6. PICK q : q = K!OpeningOf(i, t)
  OBVIOUS
<1>7. q \in Int /\ q <= t
  BY <1>3, <1>4, <1>5, <1>6
<1> QED
  BY <1>6, <1>7

-----------------------------------------------------------------------------
(* The tasks *)

(* A loop that sleeps will wake at an opening, the first after now on an   *)
(* eligible day, for which it has not fired.                               *)
Sleeper(l) ==
    LET i == item[K!Gen(l)] IN
    /\ i.opens \in 0..(SlotsPerDay - 1)
    /\ wake[l] \in Nat /\ wake[l] >= now
    /\ fired[l] < wake[l]
    /\ K!OpeningOf(i, wake[l]) = wake[l]
    /\ ~K!Spans(i) => K!Earliest(i, wake[l])

TaskShapes ==
    /\ now \in Nat /\ tgen \in 0..TaskGens /\ treg \in 0..tgen
    /\ DOMAIN tpc = K!Loops /\ DOMAIN item = K!Gens
    /\ fired \in [K!Loops -> Int] /\ wake \in [K!Loops -> Int]
    /\ \A g \in K!Gens : ItemOK(item[g])

SleepInv ==
    /\ TaskShapes
    /\ \A l \in K!Loops : fired[l] <= now
    /\ \A l \in K!Loops : tpc[l] # "off" => K!Gen(l) <= tgen
    /\ \A l \in K!Loops : tpc[l] = "gap" => item[K!Gen(l)].opens # Unset
    /\ \A l \in K!Loops : tpc[l] = "asleep" => Sleeper(l)
    /\ ~again

(* Unless something else may have removed the checkpoint, one loop is      *)
(* alive at most: the registered one or the one the watcher awaits.        *)
Present == IF twatch.does = "idle" THEN treg ELSE twatch.awaits
CoverInv ==
    ~swept => /\ \A l \in K!Loops : tpc[l] # "off" => l = <<Present, "sched">>
              /\ \A l \in K!Loops : K!Holding(l) => mark

TaskInv == SleepInv /\ CoverInv

LEMMA LoopGen == \A l \in K!Loops : K!Gen(l) \in K!Gens
BY DEF K!Loops, K!Gen

(* One loop moves on; all else is as it was.                               *)
LEMMA LoopMoves ==
    ASSUME TaskInv, NEW l \in K!Loops, NEW p, NEW w, NEW f,
           tpc[l] # "off",
           tpc' = [tpc EXCEPT ![l] = p],
           wake' = [wake EXCEPT ![l] = w],
           fired' = [fired EXCEPT ![l] = f],
           wake' \in [K!Loops -> Int], fired' \in [K!Loops -> Int],
           f <= now,
           p = "gap" => item[K!Gen(l)].opens # Unset,
           p = "asleep" =>
              LET i == item[K!Gen(l)] IN
              /\ i.opens \in 0..(SlotsPerDay - 1)
              /\ w \in Nat /\ w >= now /\ f < w
              /\ K!OpeningOf(i, w) = w
              /\ ~K!Spans(i) => K!Earliest(i, w),
           p \in {"sending", "gap", "draining"} => swept \/ mark',
           ~again', UNCHANGED <<now, item, tgen, treg, twatch, swept>>
    PROVE  TaskInv'
<1>1. /\ DOMAIN tpc' = K!Loops
      /\ fired' \in [K!Loops -> Int] /\ wake' \in [K!Loops -> Int]
      /\ tpc'[l] = p /\ wake'[l] = w /\ fired'[l] = f
      /\ \A k \in K!Loops \ {l} : tpc'[k] = tpc[k] /\ wake'[k] = wake[k] /\ fired'[k] = fired[k]
  BY DEF TaskInv, SleepInv, TaskShapes
<1>2. TaskShapes'
  BY <1>1 DEF TaskInv, SleepInv, TaskShapes
<1>3. \A k \in K!Loops : fired'[k] <= now'
  BY <1>1 DEF TaskInv, SleepInv
<1>4. \A k \in K!Loops : tpc'[k] # "off" => K!Gen(k) <= tgen'
  BY <1>1 DEF TaskInv, SleepInv
<1>5. \A k \in K!Loops : tpc'[k] = "gap" => item'[K!Gen(k)].opens # Unset
  BY <1>1 DEF TaskInv, SleepInv
<1>6. ASSUME NEW k \in K!Loops, tpc'[k] = "asleep" PROVE Sleeper(k)'
  <2>1. CASE k = l
    BY <1>1, <1>6, <2>1 DEF Sleeper, K!Earliest
  <2>2. CASE k # l
    BY <1>1, <1>6, <2>2 DEF TaskInv, SleepInv, Sleeper, K!Earliest
  <2> QED
    BY <2>1, <2>2
<1>7. SleepInv'
  BY <1>2, <1>3, <1>4, <1>5, <1>6 DEF SleepInv
<1>8. CoverInv'
  <2> SUFFICES ASSUME ~swept
               PROVE  /\ \A k \in K!Loops : tpc'[k] # "off" => k = <<Present, "sched">>'
                      /\ \A k \in K!Loops : K!Holding(k)' => mark'
    BY DEF CoverInv
  <2>1. \A k \in K!Loops : tpc[k] # "off" => k = <<Present, "sched">>
    BY DEF TaskInv, CoverInv
  <2>2. \A k \in K!Loops \ {l} : tpc[k] = "off"
    BY <2>1
  <2>3. Present' = Present
    BY DEF Present
  <2>4. \A k \in K!Loops : tpc'[k] # "off" => k = <<Present, "sched">>'
    BY <1>1, <2>1, <2>3
  <2>5. ASSUME NEW k \in K!Loops, K!Holding(k)' PROVE mark'
    BY <1>1, <2>2, <2>5 DEF K!Holding
  <2> QED
    BY <2>4, <2>5
<1> QED
  BY <1>7, <1>8 DEF TaskInv

(* Going to sleep until the next window.                                   *)
LEMMA SleepKeeps ==
    ASSUME TaskInv, NEW l \in K!Loops, tpc[l] # "off", K!Sleep(l),
           item[K!Gen(l)].opens # Unset,
           UNCHANGED <<now, item, tgen, treg, twatch, swept, fired, again>>
    PROVE  TaskInv'
<1>1. PICK i : i = item[K!Gen(l)]
  OBVIOUS
<1>2. PICK w : w = K!NextWindowOpen(i, now)
  OBVIOUS
<1>3. now \in Nat /\ i.opens \in 0..(SlotsPerDay - 1)
  BY <1>1, LoopGen DEF TaskInv, SleepInv, TaskShapes, ItemOK
<1>4. /\ fired' \in [K!Loops -> Int] /\ wake \in [K!Loops -> Int]
      /\ fired[l] \in Int /\ fired[l] <= now /\ fired' = [fired EXCEPT ![l] = fired[l]] /\ ~again'
  BY DEF TaskInv, SleepInv, TaskShapes
<1>5. CASE w = Unset
  <2>1. tpc' = [tpc EXCEPT ![l] = "off"] /\ wake' = [wake EXCEPT ![l] = 0]
    BY <1>1, <1>2, <1>5 DEF K!Sleep
  <2>2. wake' \in [K!Loops -> Int]
    BY <1>4, <2>1
  <2> QED
    BY <1>4, <2>1, <2>2, LoopMoves
<1>6. CASE w # Unset
  <2>1. tpc' = [tpc EXCEPT ![l] = "asleep"] /\ wake' = [wake EXCEPT ![l] = w]
    BY <1>1, <1>2, <1>6 DEF K!Sleep
  <2>2. /\ w \in Nat /\ w > now /\ K!OpeningOf(i, w) = w
        /\ ~K!Spans(i) => K!Earliest(i, w)
    BY <1>2, <1>3, <1>6, NextOpening DEF K!Earliest
  <2>3. w >= now /\ fired[l] < w
    BY <1>3, <1>4, <2>2
  <2>4. wake' \in [K!Loops -> Int]
    BY <1>4, <2>1, <2>2
  <2> QED
    BY <1>1, <1>3, <1>4, <2>1, <2>2, <2>3, <2>4, LoopMoves
<1> QED
  BY <1>5, <1>6

(* A fire; a sleeping loop fires when its time has come.                   *)
LEMMA FireKeeps ==
    ASSUME TaskInv, NEW l \in K!Loops, tpc[l] # "off", K!Fire(l),
           tpc[l] = "asleep" => wake[l] = now,
           UNCHANGED <<now, item, tgen, treg, twatch, swept>>
    PROVE  TaskInv'
<1>1. PICK i : i = item[K!Gen(l)]
  OBVIOUS
<1>2. now \in Nat /\ (i.opens # Unset => i.opens \in 0..(SlotsPerDay - 1))
  BY <1>1, LoopGen DEF TaskInv, SleepInv, TaskShapes, ItemOK
<1>3. fired[l] \in Int /\ fired[l] <= now /\ fired = [fired EXCEPT ![l] = fired[l]]
  BY DEF TaskInv, SleepInv, TaskShapes
<1>4. PICK f : f = IF i.opens = Unset THEN fired[l] ELSE K!OpeningOf(i, now)
  OBVIOUS
<1>5. f \in Int /\ f <= now
  BY <1>2, <1>3, <1>4, OpeningPast
<1>6. fired' = [fired EXCEPT ![l] = f]
  BY <1>1, <1>3, <1>4 DEF K!Fire
<1>7. tpc' = [tpc EXCEPT ![l] = "sending"] /\ wake' = [wake EXCEPT ![l] = 0] /\ mark'
  BY DEF K!Fire
<1>8. ~again'
  <2>1. ~again
    BY DEF TaskInv, SleepInv
  <2>2. ASSUME tpc[l] = "asleep" PROVE fired[l] # K!OpeningOf(i, now)
    BY <1>1, <1>2, <1>3, <2>2 DEF TaskInv, SleepInv, Sleeper
  <2> QED
    BY <1>1, <2>1, <2>2 DEF K!Fire
<1>9. wake' \in [K!Loops -> Int] /\ fired' \in [K!Loops -> Int]
  BY <1>5, <1>6, <1>7 DEF TaskInv, SleepInv, TaskShapes
<1> QED
  BY <1>5, <1>6, <1>7, <1>8, <1>9, LoopMoves

LEMMA FireOrQueueKeeps ==
    ASSUME TaskInv, NEW l \in K!Loops, tpc[l] # "off", K!FireOrQueue(l),
           tpc[l] = "asleep" => wake[l] = now,
           UNCHANGED <<now, item, tgen, treg, twatch, swept>>
    PROVE  TaskInv'
<1>1. CASE K!Fire(l)
  BY <1>1, FireKeeps
<1>2. CASE K!Queue(l)
  <2>1. tpc' = [tpc EXCEPT ![l] = "queued"] /\ wake' = wake /\ fired' = fired /\ again' = again
    BY <1>2 DEF K!Queue
  <2>2. /\ fired[l] \in Int /\ fired[l] <= now /\ ~again'
        /\ fired' = [fired EXCEPT ![l] = fired[l]]
        /\ wake' \in [K!Loops -> Int] /\ fired' \in [K!Loops -> Int]
        /\ wake' = [wake EXCEPT ![l] = wake[l]]
    BY <2>1 DEF TaskInv, SleepInv, TaskShapes
  <2> QED
    BY <2>1, <2>2, LoopMoves
<1> QED
  BY <1>1, <1>2 DEF K!FireOrQueue

(* A loop leaves its place for one without a promise about its next wake.  *)
LEMMA LoopLeaves ==
    ASSUME TaskInv, NEW l \in K!Loops, tpc[l] # "off", NEW p, NEW w,
           tpc' = [tpc EXCEPT ![l] = p], wake' = [wake EXCEPT ![l] = w],
           p # "asleep", wake' \in [K!Loops -> Int],
           p = "gap" => item[K!Gen(l)].opens # Unset,
           p \in {"sending", "gap", "draining"} => swept \/ mark',
           UNCHANGED <<now, item, tgen, treg, twatch, swept, fired, again>>
    PROVE  TaskInv'
<1>1. fired' \in [K!Loops -> Int] /\ fired[l] <= now /\ ~again' /\ fired' = [fired EXCEPT ![l] = fired[l]]
  BY DEF TaskInv, SleepInv, TaskShapes
<1> QED
  BY <1>1, LoopMoves

(* Loops that are cancelled or new, and a new item of which no loop is     *)
(* alive, leave those asleep as they were.                                 *)
LEMMA OthersSleepOn ==
    ASSUME SleepInv, TaskShapes',
           \A l \in K!Loops : tpc'[l] \in {tpc[l], "off", "draining", "new"},
           \A l \in K!Loops : tpc'[l] # "off" => K!Gen(l) <= tgen',
           \A l \in K!Loops : tpc[l] # "off" => item'[K!Gen(l)] = item[K!Gen(l)],
           UNCHANGED <<now, wake, fired, again>>
    PROVE  SleepInv'
<1>1. ASSUME NEW l \in K!Loops, tpc'[l] = "asleep" PROVE Sleeper(l)'
  <2>1. tpc[l] = "asleep" /\ item'[K!Gen(l)] = item[K!Gen(l)]
    BY <1>1
  <2> QED
    BY <2>1 DEF SleepInv, Sleeper, K!Earliest
<1>2. ASSUME NEW l \in K!Loops, tpc'[l] = "gap" PROVE item'[K!Gen(l)].opens # Unset
  BY <1>2 DEF SleepInv
<1> QED
  BY <1>1, <1>2 DEF SleepInv

(* task.cancel() of a loop.                                                *)
LEMMA Cancelled ==
    ASSUME SleepInv, NEW l \in K!Loops, K!Cancel(l)
    PROVE  /\ DOMAIN tpc' = K!Loops
           /\ \A k \in K!Loops \ {l} : tpc'[k] = tpc[k]
           /\ tpc'[l] \in {"off", "draining"}
           /\ tpc'[l] = "draining" => tpc[l] \in {"sending", "draining"} /\ mark' = mark
BY DEF K!Cancel, SleepInv, TaskShapes

(* _unregister: afterwards no loop is new, the one that was registered is  *)
(* over or drains, with its checkpoint, and nothing is listed.             *)
LEMMA Unregistered ==
    ASSUME SleepInv, K!Unregister
    PROVE  /\ treg' = 0 /\ DOMAIN tpc' = K!Loops
           /\ \A l \in K!Loops : tpc'[l] \in {tpc[l], "off", "draining"}
           /\ \A l \in K!Loops : tpc'[l] # "off" => tpc[l] # "off"
           /\ CoverInv /\ twatch.does = "idle" /\ ~swept =>
                 \A l \in K!Loops : tpc'[l] # "off" =>
                    l = <<treg, "sched">> /\ (K!Holding(l)' => mark')
<1>1. CASE treg = 0
  <2>1. tpc' = tpc /\ mark' = mark /\ treg' = 0
    BY <1>1 DEF K!Unregister
  <2> QED
    BY <2>1 DEF SleepInv, TaskShapes, CoverInv, Present, K!Holding
<1>2. CASE treg # 0
  <2>1. PICK l : l = <<treg, "sched">>
    OBVIOUS
  <2>2. l \in K!Loops
    <3>1. treg \in K!Gens
      BY <1>2, SafetyAssumption DEF SleepInv, TaskShapes, K!Gens, K!TaskAssumption
    <3> QED
      BY <2>1, <3>1 DEF K!Loops
  <2>3. treg' = 0 /\ K!Cancel(l)
    BY <1>2, <2>1 DEF K!Unregister
  <2>4. /\ DOMAIN tpc' = K!Loops
        /\ \A k \in K!Loops \ {l} : tpc'[k] = tpc[k]
        /\ tpc'[l] \in {"off", "draining"}
        /\ tpc'[l] = "draining" => tpc[l] \in {"sending", "draining"} /\ mark' = mark
    BY <2>2, <2>3, Cancelled
  <2>5. ASSUME CoverInv, twatch.does = "idle", ~swept, NEW k \in K!Loops, tpc'[k] # "off"
        PROVE  k = l /\ (K!Holding(k)' => mark')
    <3>1. k = l
      BY <2>1, <2>4, <2>5 DEF CoverInv, Present
    <3>2. tpc'[l] = "draining" /\ mark
      BY <2>2, <2>4, <2>5, <3>1 DEF CoverInv, K!Holding
    <3> QED
      BY <2>4, <3>1, <3>2
  <2> QED
    BY <2>1, <2>3, <2>4, <2>5
<1> QED
  BY <1>1, <1>2

(* A step of one loop.                                                     *)
LEMMA LoopStepKeeps ==
    ASSUME TaskInv, NEW l \in K!Loops,
           \/ K!Start(l) \/ K!Opens(l) \/ K!Granted(l) \/ K!SendEnds(l)
           \/ K!GapOver(l) \/ K!Drained(l) \/ K!AdHocTimesOut(l)
    PROVE  TaskInv'
<1>1. CASE K!Start(l)
  <2>1. /\ tpc[l] = "new"
        /\ UNCHANGED <<now, item, tgen, treg, twatch, swept>>
    BY <1>1 DEF K!Start
  <2>2. CASE K!FireOrQueue(l)
    BY <2>1, <2>2, FireOrQueueKeeps
  <2>3. CASE K!Sleep(l) /\ item[K!Gen(l)].opens # Unset /\ UNCHANGED <<fired, again>>
    BY <2>1, <2>3, SleepKeeps
  <2> QED
    BY <1>1, <2>2, <2>3 DEF K!Start
<1>2. CASE K!Opens(l)
  <2>1. /\ tpc[l] = "asleep" /\ wake[l] = now
        /\ UNCHANGED <<now, item, tgen, treg, twatch, swept>>
    BY <1>2 DEF K!Opens
  <2>2. CASE K!FireOrQueue(l)
    BY <2>1, <2>2, FireOrQueueKeeps
  <2>3. CASE K!Sleep(l) /\ UNCHANGED <<fired, again>>
    <3>1. item[K!Gen(l)].opens # Unset
      BY <2>1, SafetyAssumption DEF TaskInv, SleepInv, Sleeper, K!TaskAssumption
    <3> QED
      BY <2>1, <2>3, <3>1, SleepKeeps
  <2> QED
    BY <1>2, <2>2, <2>3 DEF K!Opens
<1>3. CASE K!Granted(l)
  <2>1. /\ tpc[l] = "queued" /\ K!Fire(l)
        /\ UNCHANGED <<now, item, tgen, treg, twatch, swept>>
    BY <1>3 DEF K!Granted
  <2> QED
    BY <2>1, FireKeeps
<1>4. CASE K!SendEnds(l)
  <2>1. /\ tpc[l] = "sending"
        /\ UNCHANGED <<now, item, tgen, treg, twatch, swept, fired, again>>
    BY <1>4 DEF K!SendEnds
  <2>2. PICK i : i = item[K!Gen(l)]
    OBVIOUS
  <2>3. ItemOK(i) /\ wake \in [K!Loops -> Int] /\ now \in Nat
    BY <2>2, LoopGen DEF TaskInv, SleepInv, TaskShapes
  <2>4. CASE i.repeat /\ tpc' = [tpc EXCEPT ![l] = "gap"] /\ wake' = [wake EXCEPT ![l] = now + i.gap]
             /\ mark' = mark
    <3>1. i.opens # Unset /\ now + i.gap \in Int
      BY <2>3, <2>4 DEF ItemOK
    <3>2. wake' \in [K!Loops -> Int]
      BY <2>3, <2>4, <3>1
    <3>3. swept \/ mark'
      BY <2>1, <2>4 DEF TaskInv, CoverInv, K!Holding
    <3> QED
      BY <2>1, <2>2, <2>4, <3>1, <3>2, <3>3, LoopLeaves
  <2>5. CASE i.opens = Unset /\ tpc' = [tpc EXCEPT ![l] = "off"] /\ wake' = wake
    <3>1. wake' = [wake EXCEPT ![l] = wake[l]] /\ wake' \in [K!Loops -> Int]
      BY <2>3, <2>5
    <3> QED
      BY <2>1, <2>5, <3>1, LoopLeaves
  <2>6. CASE i.opens # Unset /\ K!Sleep(l)
    BY <2>1, <2>2, <2>6, SleepKeeps
  <2> QED
    BY <1>4, <2>2, <2>4, <2>5, <2>6 DEF K!SendEnds
<1>5. CASE K!GapOver(l)
  <2>1. /\ tpc[l] = "gap"
        /\ UNCHANGED <<now, item, tgen, treg, twatch, swept, fired, again>>
    BY <1>5 DEF K!GapOver
  <2>2. CASE tpc' = [tpc EXCEPT ![l] = "sending"] /\ wake' = [wake EXCEPT ![l] = 0] /\ mark' = mark
    <3>1. wake' \in [K!Loops -> Int]
      BY <2>2 DEF TaskInv, SleepInv, TaskShapes
    <3>2. swept \/ mark
      BY <2>1 DEF TaskInv, CoverInv, K!Holding
    <3> QED
      BY <2>1, <2>2, <3>1, <3>2, LoopLeaves
  <2>3. CASE K!Sleep(l)
    <3>1. item[K!Gen(l)].opens # Unset
      BY <2>1 DEF TaskInv, SleepInv
    <3> QED
      BY <2>1, <2>3, <3>1, SleepKeeps
  <2> QED
    BY <1>5, <2>2, <2>3 DEF K!GapOver
<1>6. CASE K!Drained(l)
  <2>1. /\ tpc[l] = "draining" /\ tpc' = [tpc EXCEPT ![l] = "off"] /\ wake' = wake
        /\ UNCHANGED <<now, item, tgen, treg, twatch, swept, fired, again>>
    BY <1>6 DEF K!Drained
  <2>2. wake' = [wake EXCEPT ![l] = wake[l]] /\ wake' \in [K!Loops -> Int]
    BY <2>1 DEF TaskInv, SleepInv, TaskShapes
  <2> QED
    BY <2>1, <2>2, LoopLeaves
<1>7. CASE K!AdHocTimesOut(l)
  <2>1. /\ l[2] = "adhoc" /\ tpc[l] # "off" /\ K!Cancel(l)
        /\ UNCHANGED <<now, item, treg, tgen, twatch, wake, fired, again, swept>>
    BY <1>7 DEF K!AdHocTimesOut
  <2>2. swept
    <3>1. l # <<Present, "sched">>
      BY <2>1
    <3> QED
      BY <2>1, <3>1 DEF TaskInv, CoverInv
  <2>3. /\ DOMAIN tpc' = K!Loops
        /\ \A k \in K!Loops \ {l} : tpc'[k] = tpc[k]
        /\ tpc'[l] \in {"off", "draining"}
    BY <2>1, Cancelled DEF TaskInv
  <2>4. TaskShapes'
    BY <2>1, <2>3 DEF TaskInv, SleepInv, TaskShapes
  <2>5. \A k \in K!Loops : tpc'[k] # "off" => K!Gen(k) <= tgen'
    BY <2>1, <2>3 DEF TaskInv, SleepInv
  <2>6. \A k \in K!Loops : tpc'[k] \in {tpc[k], "off", "draining", "new"}
    BY <2>3
  <2>7. SleepInv'
    BY <2>1, <2>4, <2>5, <2>6, OthersSleepOn DEF TaskInv
  <2> QED
    BY <2>1, <2>2, <2>7 DEF TaskInv, CoverInv
<1> QED
  BY <1>1, <1>2, <1>3, <1>4, <1>5, <1>6, <1>7

(* The watcher, the ad-hoc endpoint and the clock.                         *)
LEMMA ChangeKeeps ==
    ASSUME TaskInv, NEW f \in TaskFiles, K!Change(f)
    PROVE  TaskInv'
<1>1. /\ twatch.does = "idle" /\ K!Parse(f) # Unset /\ tgen < TaskGens /\ tgen' = tgen + 1
      /\ item' = [item EXCEPT ![tgen + 1] = K!Parse(f)]
      /\ twatch' = [does |-> "register", awaits |-> treg]
      /\ UNCHANGED <<now, wake, fired, again, swept>>
  BY DEF K!Change
<1>2. /\ treg' = 0 /\ DOMAIN tpc' = K!Loops
      /\ \A l \in K!Loops : tpc'[l] \in {tpc[l], "off", "draining"}
      /\ \A l \in K!Loops : tpc'[l] # "off" => tpc[l] # "off"
      /\ ~swept => \A l \in K!Loops : tpc'[l] # "off" =>
                      l = <<treg, "sched">> /\ (K!Holding(l)' => mark')
  <2>1. K!Unregister
    BY DEF K!Change
  <2> QED
    BY <1>1, <2>1, Unregistered DEF TaskInv
<1>3. tgen \in 0..TaskGens /\ TaskGens \in Nat /\ tgen' \in 0..TaskGens
  BY <1>1, SafetyAssumption DEF TaskInv, SleepInv, TaskShapes, K!TaskAssumption
<1>4. ItemOK(K!Parse(f))
  BY <1>1, ParsedOK
<1>5. DOMAIN item' = K!Gens /\ \A g \in K!Gens : ItemOK(item'[g])
  BY <1>1, <1>4 DEF TaskInv, SleepInv, TaskShapes
<1>6. TaskShapes'
  BY <1>1, <1>2, <1>3, <1>5 DEF TaskInv, SleepInv, TaskShapes
<1>7. \A l \in K!Loops : tpc[l] # "off" => item'[K!Gen(l)] = item[K!Gen(l)]
  <2> SUFFICES ASSUME NEW l \in K!Loops, tpc[l] # "off" PROVE item'[K!Gen(l)] = item[K!Gen(l)]
    OBVIOUS
  <2>1. K!Gen(l) \in K!Gens /\ K!Gen(l) <= tgen
    BY LoopGen DEF TaskInv, SleepInv
  <2>2. K!Gen(l) # tgen + 1
    BY <1>3, <2>1 DEF K!Gens
  <2> QED
    BY <1>1, <2>1, <2>2 DEF TaskInv, SleepInv, TaskShapes
<1>8. \A l \in K!Loops : tpc'[l] # "off" => K!Gen(l) <= tgen'
  <2> SUFFICES ASSUME NEW l \in K!Loops, tpc'[l] # "off" PROVE K!Gen(l) <= tgen'
    OBVIOUS
  <2>1. K!Gen(l) \in K!Gens /\ K!Gen(l) <= tgen
    BY <1>2, LoopGen DEF TaskInv, SleepInv
  <2> QED
    BY <1>1, <1>3, <2>1 DEF K!Gens
<1>9. SleepInv'
  BY <1>1, <1>2, <1>6, <1>7, <1>8, OthersSleepOn DEF TaskInv
<1>10. Present' = treg
  BY <1>1 DEF Present
<1> QED
  BY <1>1, <1>2, <1>9, <1>10 DEF TaskInv, CoverInv, K!Holding

LEMMA WatcherKeeps ==
    ASSUME TaskInv, K!Registered \/ K!Delete \/ K!WatcherExits \/ K!Scan \/ K!AdHoc
    PROVE  TaskInv'
<1>1. CASE K!Registered
  <2>1. /\ twatch.does = "register" /\ K!AwaitOver /\ treg' = tgen
        /\ twatch' = [does |-> "idle", awaits |-> 0]
        /\ UNCHANGED <<now, item, tgen, wake, mark, fired, again, swept>>
    BY <1>1 DEF K!Registered
  <2>2. /\ DOMAIN tpc' = K!Loops
        /\ \A l \in K!Loops : l # <<tgen, "sched">> => tpc'[l] = tpc[l]
        /\ \A l \in K!Loops : tpc'[l] \in {tpc[l], "new"}
    BY <1>1 DEF K!Registered, TaskInv, SleepInv, TaskShapes
  <2>3. TaskShapes'
    BY <2>1, <2>2 DEF TaskInv, SleepInv, TaskShapes
  <2>4. tgen \in Nat /\ \A l \in K!Loops : l = <<tgen, "sched">> => K!Gen(l) = tgen
    BY SafetyAssumption DEF TaskInv, SleepInv, TaskShapes, K!Gen, K!TaskAssumption
  <2>5. \A l \in K!Loops : tpc'[l] # "off" => K!Gen(l) <= tgen'
    BY <2>1, <2>2, <2>4 DEF TaskInv, SleepInv
  <2>6. SleepInv'
    BY <2>1, <2>2, <2>3, <2>5, OthersSleepOn DEF TaskInv
  <2>7. CoverInv'
    <3> SUFFICES ASSUME ~swept
                 PROVE  /\ \A l \in K!Loops : tpc'[l] # "off" => l = <<Present, "sched">>'
                        /\ \A l \in K!Loops : K!Holding(l)' => mark'
      BY <2>1 DEF CoverInv
    <3>1. \A l \in K!Loops : tpc[l] = "off"
      <4> SUFFICES ASSUME NEW l \in K!Loops, tpc[l] # "off" PROVE FALSE
        OBVIOUS
      <4>1. l = <<twatch.awaits, "sched">>
        BY <2>1 DEF TaskInv, CoverInv, Present
      <4>2. twatch.awaits # 0
        BY <4>1, LoopGen DEF K!Gen, K!Gens
      <4> QED
        BY <2>1, <4>1, <4>2 DEF K!AwaitOver
    <3>2. Present' = tgen
      BY <2>1 DEF Present
    <3> QED
      BY <2>2, <3>1, <3>2 DEF K!Holding
  <2> QED
    BY <2>6, <2>7 DEF TaskInv
<1>2. CASE K!Delete \/ K!WatcherExits
  <2>1. /\ twatch.does = "idle" /\ K!Unregister
        /\ UNCHANGED <<now, item, tgen, wake, fired, again>>
    BY <1>2 DEF K!Delete, K!WatcherExits
  <2>2. /\ treg' = 0 /\ DOMAIN tpc' = K!Loops
        /\ \A l \in K!Loops : tpc'[l] \in {tpc[l], "off", "draining"}
        /\ \A l \in K!Loops : tpc'[l] # "off" => tpc[l] # "off"
        /\ ~swept => \A l \in K!Loops : tpc'[l] # "off" =>
                        l = <<treg, "sched">> /\ (K!Holding(l)' => mark')
    BY <2>1, Unregistered DEF TaskInv
  <2>3. TaskShapes'
    BY <2>1, <2>2 DEF TaskInv, SleepInv, TaskShapes
  <2>4. SleepInv'
    BY <2>1, <2>2, <2>3, OthersSleepOn DEF TaskInv, SleepInv
  <2>5. CoverInv'
    <3>1. CASE swept'
      BY <3>1 DEF CoverInv
    <3>2. CASE ~swept'
      <4>1. ~swept /\ twatch' = [does |-> "scan", awaits |-> treg]
        BY <1>2, <3>2 DEF K!Delete, K!WatcherExits
      <4>2. Present' = treg
        BY <4>1 DEF Present
      <4> QED
        BY <2>2, <4>1, <4>2 DEF CoverInv, K!Holding
    <3> QED
      BY <3>1, <3>2
  <2> QED
    BY <2>4, <2>5 DEF TaskInv
<1>3. CASE K!Scan
  <2>1. /\ twatch.does = "scan" /\ K!AwaitOver /\ twatch' = [does |-> "idle", awaits |-> 0]
        /\ swept' = (swept \/ \E l \in K!Loops : K!Holding(l))
        /\ UNCHANGED <<now, item, treg, tgen, tpc, wake, fired, again>>
    BY <1>3 DEF K!Scan
  <2>2. TaskShapes'
    BY <2>1 DEF TaskInv, SleepInv, TaskShapes
  <2>3. SleepInv'
    BY <2>1, <2>2, OthersSleepOn DEF TaskInv, SleepInv
  <2>4. CoverInv'
    <3> SUFFICES ASSUME ~swept' PROVE \A l \in K!Loops : tpc[l] = "off"
      BY <2>1 DEF CoverInv, K!Holding
    <3> SUFFICES ASSUME NEW l \in K!Loops, tpc[l] # "off" PROVE FALSE
      OBVIOUS
    <3>1. l = <<twatch.awaits, "sched">>
      BY <2>1 DEF TaskInv, CoverInv, Present
    <3>2. twatch.awaits # 0
      BY <3>1, LoopGen DEF K!Gen, K!Gens
    <3> QED
      BY <2>1, <3>1, <3>2 DEF K!AwaitOver
  <2> QED
    BY <2>3, <2>4 DEF TaskInv
<1>4. CASE K!AdHoc
  <2>1. /\ tpc' = [tpc EXCEPT ![<<treg, "adhoc">>] = "new"] /\ swept'
        /\ UNCHANGED <<now, item, treg, tgen, twatch, wake, fired, again>>
    BY <1>4 DEF K!AdHoc
  <2>2. /\ DOMAIN tpc' = K!Loops
        /\ \A l \in K!Loops : l # <<treg, "adhoc">> => tpc'[l] = tpc[l]
        /\ \A l \in K!Loops : tpc'[l] \in {tpc[l], "new"}
    BY <2>1 DEF TaskInv, SleepInv, TaskShapes
  <2>3. TaskShapes'
    BY <2>1, <2>2 DEF TaskInv, SleepInv, TaskShapes
  <2>4. treg <= tgen /\ \A l \in K!Loops : l = <<treg, "adhoc">> => K!Gen(l) = treg
    BY SafetyAssumption DEF TaskInv, SleepInv, TaskShapes, K!Gen, K!TaskAssumption
  <2>5. \A l \in K!Loops : tpc'[l] # "off" => K!Gen(l) <= tgen'
    BY <2>1, <2>2, <2>4 DEF TaskInv, SleepInv
  <2>6. SleepInv'
    BY <2>1, <2>2, <2>3, <2>5, OthersSleepOn DEF TaskInv
  <2> QED
    BY <2>1, <2>6 DEF TaskInv, CoverInv
<1> QED
  BY <1>1, <1>2, <1>3, <1>4

LEMMA TickKeeps ==
    ASSUME TaskInv, K!Tick
    PROVE  TaskInv'
<1>1. /\ \A l \in K!Loops : ~K!Due(l)
      /\ now' = now + 1
      /\ UNCHANGED <<item, treg, tgen, tpc, wake, mark, twatch, fired, again, swept>>
  BY DEF K!Tick
<1>2. TaskShapes'
  BY <1>1 DEF TaskInv, SleepInv, TaskShapes
<1>3. now \in Nat /\ fired \in [K!Loops -> Int]
  BY DEF TaskInv, SleepInv, TaskShapes
<1>4. \A l \in K!Loops : fired'[l] <= now'
  BY <1>1, <1>3 DEF TaskInv, SleepInv
<1>5. ASSUME NEW l \in K!Loops, tpc'[l] = "asleep" PROVE Sleeper(l)'
  <2>1. PICK i, w : i = item[K!Gen(l)] /\ w = wake[l]
    OBVIOUS
  <2>2. /\ i.opens \in 0..(SlotsPerDay - 1) /\ w \in Nat /\ w >= now /\ fired[l] < w
        /\ K!OpeningOf(i, w) = w
        /\ ~K!Spans(i) => K!Earliest(i, w)
    BY <1>1, <1>5, <2>1 DEF TaskInv, SleepInv, Sleeper
  <2>3. w # now
    BY <1>1, <1>5, <2>1 DEF K!Due
  <2>4. w >= now'
    BY <1>1, <1>3, <2>2, <2>3
  <2>5. (now' + 1)..(w - 1) \subseteq (now + 1)..(w - 1)
    BY <1>1, <1>3, <2>2
  <2>6. ~K!Spans(i) => K!Earliest(i, w)'
    BY <2>2, <2>5 DEF K!Earliest
  <2> QED
    BY <1>1, <2>1, <2>2, <2>4, <2>6 DEF Sleeper
<1>6. SleepInv'
  BY <1>1, <1>2, <1>4, <1>5 DEF TaskInv, SleepInv
<1>7. CoverInv'
  BY <1>1 DEF TaskInv, CoverInv, Present, K!Holding
<1> QED
  BY <1>6, <1>7 DEF TaskInv

LEMMA TaskStart == K!TaskInit => TaskInv
<1> SUFFICES ASSUME K!TaskInit PROVE TaskInv
  OBVIOUS
<1>1. ItemOK(K!Disabled)
  BY DEF ItemOK, K!Disabled
<1>2. TaskShapes
  BY <1>1, SafetyAssumption DEF K!TaskInit, TaskShapes, K!TaskAssumption
<1>3. \A l \in K!Loops : tpc[l] = "off" /\ fired[l] <= now
  BY SafetyAssumption DEF K!TaskInit, K!TaskAssumption
<1>4. ~again
  BY DEF K!TaskInit
<1> QED
  BY <1>2, <1>3, <1>4 DEF TaskInv, SleepInv, CoverInv, K!Holding

LEMMA TaskStep == TaskInv /\ K!TaskNext => TaskInv'
BY LoopStepKeeps, ChangeKeeps, WatcherKeeps, TickKeeps DEF K!TaskNext

(* What the tasks promise follows.                                         *)
LEMMA TasksKeepTheirWord ==
    ASSUME TaskInv
    PROVE  WindowsKept
<1>1. K!OncePerWindow
  BY DEF TaskInv, SleepInv, K!OncePerWindow
<1>2. K!NoWindowMissed
  BY DEF TaskInv, SleepInv, Sleeper, K!NoWindowMissed
<1>3. K!CheckpointCoversRun
  BY DEF TaskInv, CoverInv, K!CheckpointCoversRun, K!Holding
<1> QED
  BY <1>1, <1>2, <1>3 DEF WindowsKept

(* A run of a task wakes once for an opening of its window and misses      *)
(* none, and its checkpoint is there while it runs, however the file is    *)
(* edited, removed or run ad hoc, with any windows, any length of the day  *)
(* and any cap (tasks.py, run_task and TaskRunner).                        *)
THEOREM WindowsKeptHolds == SafetySpec => []WindowsKept
<1>1. SafetyInit => TaskInv
  BY TaskStart DEF SafetyInit
<1>2. TaskInv /\ [SafetyNext]_<<focus, runners, backends>> => TaskInv'
  <2> SUFFICES ASSUME TaskInv, [SafetyNext]_<<focus, runners, backends>>
               PROVE  TaskInv'
    OBVIOUS
  <2>1. K!TaskNext \/ UNCHANGED taskvars
    BY DEF SafetyNext, runners, backends
  <2>2. CASE UNCHANGED taskvars
    <3>1. SleepInv'
      BY <2>2 DEF taskvars, TaskInv, SleepInv, TaskShapes, Sleeper, K!Earliest
    <3>2. CoverInv'
      BY <2>2 DEF taskvars, TaskInv, CoverInv, Present, K!Holding
    <3> QED
      BY <3>1, <3>2 DEF TaskInv
  <2> QED
    BY <2>1, <2>2, TaskStep
<1>3. TaskInv => WindowsKept
  BY TasksKeepTheirWord
<1> QED
  BY <1>1, <1>2, <1>3, PTL DEF SafetySpec

-----------------------------------------------------------------------------
(* Continuations *)

(* The registry is a dictionary: its keys are ordered, and each is there   *)
(* once.                                                                   *)
KeysOnce ==
    /\ \A i, j \in 1..Len(order) : order[i] = order[j] => i = j
    /\ \A p \in Paths : items[p] # None <=> \E i \in 1..Len(order) : order[i] = p

(* Only a continuation that waits for several upstreams has partial state. *)
OnlyFanIns == \A k \in Keys : fanin[k] # None => items[k[1]] # None /\ FanIn(items[k[1]])

ContInv ==
    /\ TypeOK /\ KeysOnce /\ OnlyFanIns
    /\ CapsRespected /\ CountsOnce /\ NotStale /\ NothingAfterClose

NotifyStart == [fanin |-> Evict(fanin), fires |-> fires]

LEMMA NotifyLadder ==
   ASSUME NEW session, NEW up, NEW res, order \in Seq(Paths), NEW S, 
          NotifyStart \in S,
          \A n \in 1..Len(order), v \in S : Visit(v, order[n], session, up, res) \in S
   PROVE \E st \in [0..Len(order) -> S] : 
            /\ st[0] = NotifyStart
            /\ \A n \in 1..Len(order) : st[n] = Visit(st[n - 1], order[n], session, up, res)
            /\ st[Len(order)] = Visited(session, up, res)
<1>1. PICK N \in Nat : N = Len(order) /\ DOMAIN order = 1..N
  OBVIOUS
<1>2. PICK F : F = [n \in 1..N |-> [v \in S |-> Visit(v, order[n], session, up, res)]]
  OBVIOUS
<1>3. \A n \in 1..N, v \in S : F[n][v] = Visit(v, order[n], session, up, res)
  BY <1>2
<1>4. \A n \in 1..N, v \in S : F[n][v] \in S
  BY <1>1, <1>3
<1>5. PICK g \in [SUBSET (1..N) -> S] : FoldsLeft(g, N, S, F, NotifyStart)
  BY <1>4, FoldLeftExists
<1> DEFINE iter[s \in SUBSET (1..N)] == IF s = {} THEN NotifyStart ELSE Visit(iter[s \ {Max(s)}], order[Max(s)], session, up, res)
<1>6. g = [s \in SUBSET (1..N) |-> IF s = {} THEN NotifyStart ELSE Visit(g[s \ {Max(s)}], order[Max(s)], session, up, res)]
  <2>1. \A s \in SUBSET (1..N) : s # {} => Max(s) \in 1..N /\ g[s \ {Max(s)}] \in S
    BY GreatestUpTo
  <2>2. \A s \in SUBSET (1..N) : g[s] = IF s = {} THEN NotifyStart ELSE Visit(g[s \ {Max(s)}], order[Max(s)], session, up, res)
    BY <1>3, <1>5, <2>1 DEF FoldsLeft
  <2> QED BY <2>2
<1>7. iter = [s \in SUBSET (1..N) |-> IF s = {} THEN NotifyStart ELSE Visit(iter[s \ {Max(s)}], order[Max(s)], session, up, res)]
  BY <1>6
<1>8. Visited(session, up, res) = iter[1..N]
  BY <1>1 DEF NotifyStart, Visited, FoldLeft, MapThenFoldSet
<1> HIDE DEF iter
<1>9. FoldsLeft(iter, N, S, F, NotifyStart)
  <2>1. \A s \in SUBSET (1..N) : s # {} => Max(s) \in 1..N
    BY GreatestUpTo
  <2> QED BY <1>7, <1>3, <2>1 DEF FoldsLeft
<1>10. PICK st \in [0..N -> S] : Ladder(st, N, F, NotifyStart) /\ st[N] = iter[1..N]
  <2>1. PICK it : it = iter
    OBVIOUS
  <2>2. FoldsLeft(it, N, S, F, NotifyStart)
    BY <1>9, <2>1
  <2>3. PICK st \in [0..N -> S] : Ladder(st, N, F, NotifyStart) /\ st[N] = it[1..N]
    BY <1>4, <2>2, FoldLadder
  <2> QED BY <2>1, <2>3
<1>11. \A n \in 1..N : st[n - 1] \in S /\ st[n] = Visit(st[n - 1], order[n], session, up, res)
  <2>1. \A n \in 1..N : n - 1 \in 0..N
    BY <1>1
  <2>2. \A n \in 1..N : st[n - 1] \in S
    BY <1>10, <2>1
  <2> QED BY <1>3, <1>10, <2>2 DEF Ladder
<1> QED BY <1>1, <1>8, <1>10, <1>11 DEF Ladder


(* One call of notify.  A round of its loop leaves a state in which the    *)
(* entries are fresh, belong to fan-ins and hold no more than was counted, *)
(* and an entry that is gone has fired.                                    *)
NewCount(k, session, up, res) ==
    IF k[2] = session /\ items[k[1]] # None /\ Matches(items[k[1]], up, res)
      THEN counted[k] \cup {up} ELSE counted[k]
Begun(fs) == {fs[f].key : f \in Active(fs) \ Active(fires)}

EntryOK(k, e, session, up, res) ==
    /\ e \in Entry
    /\ e.age <= TTL
    /\ items[k[1]] # None /\ FanIn(items[k[1]])
    /\ e.seen \subseteq NewCount(k, session, up, res)
EntriesOK(fi, session, up, res) ==
    /\ DOMAIN fi = Keys
    /\ \A k \in Keys : fi[k] # None => EntryOK(k, fi[k], session, up, res)
GoneFired(fi, fs) == \A k \in Keys : Evict(fanin)[k] # None /\ fi[k] = None => k \in Begun(fs)
CapsOK(fs) ==
    /\ Cardinality(Active(fs)) <= GlobalCap
    /\ \A n \in Names : \E d \in Defs : d.name = n /\ Cardinality(Named(fs, n)) <= d.cap
FiresOK(fs) ==
    /\ DOMAIN fs = FireIds
    /\ \A f \in FireIds : fs[f] # None => fs[f] \in Fire /\ fs[f].age <= TTL
    /\ \A f \in FireIds : fires[f] # None => fs[f] = fires[f]

RoundOK(st, session, up, res) ==
    /\ EntriesOK(st.fanin, session, up, res) /\ GoneFired(st.fanin, st.fires)
    /\ CapsOK(st.fires) /\ FiresOK(st.fires)

(* The fires of one more fire.                                             *)
LEMMA OneMoreFire ==
    ASSUME NEW fs, DOMAIN fs = FireIds, NEW d \in Defs, NEW key \in Keys, NEW age \in 0..TTL,
           Cardinality(Active(fs)) < GlobalCap
    PROVE  \E f \in FireIds, x \in Fire :
              /\ fs[f] = None /\ x.key = key /\ x.name = d.name /\ x.age = age
              /\ Started(fs, d, key, age) = [fs EXCEPT ![f] = x]
<1>1. IsFiniteSet(FireIds) /\ Cardinality(FireIds) = GlobalCap + 1
  <2>1. GlobalCap + 1 \in Nat /\ FireIds = 1..GlobalCap + 1
    BY ContinuationAssumption DEF FireIds
  <2> QED BY <2>1, FS_Interval, ContinuationAssumption
<1>2. PICK U : U = FireIds \ Active(fs)
  OBVIOUS
<1>3. U # {} /\ U \subseteq Nat
  <2>1. Active(fs) \subseteq FireIds /\ (U = {} => Active(fs) = FireIds)
    BY <1>2 DEF Active
  <2>2. U \subseteq Nat
    BY <1>2 DEF FireIds
  <2> QED BY <1>1, <2>1, <2>2, ContinuationAssumption
<1>4. \E f \in U : \A y \in U : f <= y
  BY <1>3, LeastNumber
<1>5. PICK f : f = Min(U)
  OBVIOUS
<1>6. f \in U
  BY <1>4, <1>5 DEF Min
<1>7. f \in FireIds /\ fs[f] = None
  BY <1>2, <1>6 DEF Active
<1>8. PICK x : x = [name |-> d.name, key |-> key, age |-> age,
                    phase |-> IF d.delay THEN "delay" ELSE "sending"]
  OBVIOUS
<1>9. x \in Fire /\ x.key = key /\ x.name = d.name /\ x.age = age
  <2>1. d.name \in Names /\ age \in 0..TTL + 1
    BY ContinuationAssumption DEF Names
  <2> QED BY <1>8, <2>1 DEF Fire
<1>10. Started(fs, d, key, age) = [fs EXCEPT ![f] = x]
  BY <1>2, <1>5, <1>8 DEF Started
<1> QED BY <1>7, <1>9, <1>10

Grown(gs, fs, k) == CapsOK(gs) /\ FiresOK(gs) /\ Begun(gs) = Begun(fs) \cup {k}

(* A fire that passes the throttles keeps within them, and in what began.  *)
LEMMA FireWithinCaps ==
    ASSUME NEW fs, FiresOK(fs), CapsOK(fs), NEW d \in Defs, ~Shed(fs, d),
           NEW f \in FireIds, fs[f] = None, NEW x \in Fire, x.name = d.name, x.age <= TTL
    PROVE  Grown([fs EXCEPT ![f] = x], fs, x.key)
<1> DEFINE gs == [fs EXCEPT ![f] = x]
<1>0. x # None
  BY NoneAssumption
<1>1. gs[f] = x /\ DOMAIN gs = FireIds /\ \A g \in FireIds : g # f => gs[g] = fs[g]
  BY DEF FiresOK
<1> HIDE DEF gs
<1>2. Active(gs) = Active(fs) \cup {f} /\ f \notin Active(fs)
  BY <1>0, <1>1 DEF Active
<1>3. \A n : Named(gs, n) = Named(fs, n) \cup (IF n = d.name THEN {f} ELSE {})
  BY <1>0, <1>1, <1>2 DEF Named, Active
<1>4. IsFiniteSet(FireIds) /\ GlobalCap \in Nat
  BY FS_Interval, ContinuationAssumption DEF FireIds
<1>5. \A W \in SUBSET FireIds : IsFiniteSet(W) /\ Cardinality(W) \in Nat
  BY <1>4, FS_Subset, FS_CardinalityType
<1>6. ASSUME NEW W \in SUBSET FireIds, f \notin W
      PROVE  Cardinality(W \cup {f}) = Cardinality(W) + 1
  BY <1>5, <1>6, FS_AddElement
<1>7. Active(fs) \in SUBSET FireIds /\ \A n : Named(fs, n) \in SUBSET FireIds /\ f \notin Named(fs, n)
  BY <1>2 DEF Active, Named
<1>8. /\ Cardinality(Active(fs)) \in Nat /\ Cardinality(Active(fs)) < GlobalCap
      /\ Cardinality(Named(fs, d.name)) \in Nat /\ Cardinality(Named(fs, d.name)) < d.cap
  <2>1. d.cap \in Nat
    BY ContinuationAssumption
  <2> QED BY <1>4, <1>5, <1>7, <2>1 DEF Shed
<1>9. Cardinality(Active(gs)) <= GlobalCap
  <2>1. Cardinality(Active(gs)) = Cardinality(Active(fs)) + 1
    BY <1>2, <1>6, <1>7
  <2> QED BY <1>4, <1>8, <2>1
<1>10. ASSUME NEW n \in Names
       PROVE  \E e \in Defs : e.name = n /\ Cardinality(Named(gs, n)) <= e.cap
  <2>1. CASE n = d.name
    <3>1. Cardinality(Named(gs, n)) = Cardinality(Named(fs, n)) + 1
      BY <1>3, <1>6, <1>7, <2>1
    <3>2. d.cap \in Nat
      BY ContinuationAssumption
    <3> QED BY <1>8, <2>1, <3>1, <3>2
  <2>2. CASE n # d.name
    <3>1. Named(gs, n) = Named(fs, n)
      BY <1>3, <2>2
    <3> QED BY <3>1 DEF CapsOK
  <2> QED BY <2>1, <2>2
<1>11. FiresOK(gs)
  BY <1>1 DEF FiresOK
<1>12. Begun(gs) = Begun(fs) \cup {x.key}
  <2>1. f \notin Active(fires)
    BY <1>0 DEF FiresOK, Active
  <2>2. \A g \in Active(fs) : gs[g] = fs[g] /\ g # f
    BY <1>1, <1>2 DEF Active
  <2>3. Active(gs) \ Active(fires) = (Active(fs) \ Active(fires)) \cup {f}
    BY <1>2, <2>1
  <2>4. PICK B : B = Active(fs) \ Active(fires)
    OBVIOUS
  <2>5. \A g \in B : gs[g] = fs[g]
    BY <2>2, <2>4
  <2>6. {gs[g].key : g \in B \cup {f}} = {fs[g].key : g \in B} \cup {x.key}
    BY <1>1, <2>5
  <2> QED BY <2>3, <2>4, <2>6 DEF Begun
<1> QED BY <1>9, <1>10, <1>11, <1>12 DEF CapsOK, Grown, gs

Rounds(session, up, res) ==
    {st \in [fanin : [Keys -> Entry \cup {None}], fires : [FireIds -> Fire \cup {None}]] :
        RoundOK(st, session, up, res)}

(* What a round does: nothing; record the upstream in an entry; or fire    *)
(* and clear the entry.                                                    *)
Recorded(st, v, key, session, up, res) ==
    \E e \in Entry \cup {None} :
        /\ e = None => st.fanin[key] = None
        /\ e # None => EntryOK(key, e, session, up, res)
        /\ v = [fanin |-> [st.fanin EXCEPT ![key] = e], fires |-> st.fires]
Fired(st, v, key) ==
    \E f \in FireIds, x \in Fire :
        /\ st.fires[f] = None /\ x.key = key /\ x.name = items[key[1]].name /\ x.age <= TTL
        /\ ~Shed(st.fires, items[key[1]])
        /\ v = [fanin |-> [st.fanin EXCEPT ![key] = None], fires |-> [st.fires EXCEPT ![f] = x]]

LEMMA RoundOutcome ==
    ASSUME NEW session \in Sessions, NEW up \in Kinds, NEW res,
           NEW st \in Rounds(session, up, res), NEW p \in Paths, items[p] \in Defs
    PROVE  LET v == Visit(st, p, session, up, res)
               key == <<p, session>>
           IN  v = st \/ Recorded(st, v, key, session, up, res) \/ Fired(st, v, key)
<1>0. <<p, session>> \in Keys
  BY DEF Keys
<1>1. PICK key \in Keys : key = <<p, session>> /\ key[1] = p /\ key[2] = session
  BY <1>0
<1>2. PICK d \in Defs : d = items[p]
  OBVIOUS
<1>3. /\ st.fanin \in [Keys -> Entry \cup {None}] /\ st.fires \in [FireIds -> Fire \cup {None}]
      /\ st = [fanin |-> st.fanin, fires |-> st.fires]
  BY DEF Rounds
<1>3a. d # None
  BY NoneAssumption
<1>4. /\ EntriesOK(st.fanin, session, up, res) /\ FiresOK(st.fires) /\ CapsOK(st.fires)
  BY DEF Rounds, RoundOK
<1>5. PICK entry : entry = IF FanIn(d) THEN Note(st.fanin[key], up) ELSE None
  OBVIOUS
<1>6. PICK age : age = IF FanIn(d) /\ st.fanin[key] # None THEN st.fanin[key].age ELSE 0
  OBVIOUS
<1>7. PICK ready : ready = IF FanIn(d) THEN Satisfied(d, entry.seen) ELSE TRUE
  OBVIOUS
<1>8. Visit(st, p, session, up, res) =
        IF ~Matches(d, up, res) THEN st
        ELSE IF ~ready \/ Shed(st.fires, d) THEN [st EXCEPT !.fanin[key] = entry]
        ELSE [fanin |-> [st.fanin EXCEPT ![key] = None],
              fires |-> Started(st.fires, d, key, age)]
  BY <1>1, <1>2, <1>5, <1>6, <1>7 DEF Visit
<1>9. st.fanin[key] # None => EntryOK(key, st.fanin[key], session, up, res)
  BY <1>4 DEF EntriesOK
<1>10. age \in 0..TTL
  BY <1>6, <1>9, ContinuationAssumption DEF EntryOK, Entry
<1>11. ASSUME Matches(d, up, res), ~ready \/ Shed(st.fires, d)
       PROVE  Recorded(st, [st EXCEPT !.fanin[key] = entry], key, session, up, res)
  <2>1. [st EXCEPT !.fanin[key] = entry] = [fanin |-> [st.fanin EXCEPT ![key] = entry], fires |-> st.fires]
    BY <1>3
  <2>2. CASE ~FanIn(d)
    <3>1. entry = None
      BY <1>5, <2>2
    <3>2. st.fanin[key] = None
      BY <1>1, <1>2, <1>9, <2>2 DEF EntryOK
    <3> QED BY <2>1, <3>1, <3>2 DEF Recorded
  <2>3. CASE FanIn(d)
    <3>1. entry = Note(st.fanin[key], up)
      BY <1>5, <2>3
    <3>2. NewCount(key, session, up, res) = counted[key] \cup {up}
      BY <1>1, <1>2, <1>3a, <1>11 DEF NewCount
    <3>3. EntryOK(key, entry, session, up, res)
      <4>1. CASE st.fanin[key] = None
        <5>1. entry = [seen |-> {up}, age |-> 0]
          BY <3>1, <4>1 DEF Note
        <5> QED BY <1>1, <1>2, <1>3a, <2>3, <3>2, <5>1, ContinuationAssumption DEF EntryOK, Entry
      <4>2. CASE st.fanin[key] # None
        <5>1. PICK old : old = st.fanin[key]
          OBVIOUS
        <5>2. EntryOK(key, old, session, up, res) /\ old # None
          BY <1>9, <4>2, <5>1
        <5>3. entry = IF up \notin old.seen THEN [seen |-> old.seen \cup {up}, age |-> 0] ELSE old
          BY <3>1, <5>1, <5>2 DEF Note
        <5>4. CASE up \in old.seen
          BY <5>2, <5>3, <5>4
        <5>5. CASE up \notin old.seen
          BY <3>2, <5>2, <5>3, <5>5, ContinuationAssumption DEF EntryOK, Entry
        <5> QED BY <5>4, <5>5
      <4> QED BY <4>1, <4>2
    <3>4. entry \in Entry /\ entry # None
      BY <3>3, NoneAssumption DEF EntryOK
    <3> QED BY <2>1, <3>3, <3>4 DEF Recorded
  <2> QED BY <2>2, <2>3
<1>12. ASSUME ~Shed(st.fires, d)
       PROVE  Fired(st, [fanin |-> [st.fanin EXCEPT ![key] = None],
                         fires |-> Started(st.fires, d, key, age)], key)
  <2>1. PICK fs : fs = st.fires
    OBVIOUS
  <2>2. Cardinality(Active(fs)) < GlobalCap
    <3>1. Active(fs) \subseteq FireIds /\ IsFiniteSet(FireIds)
      BY FS_Interval, ContinuationAssumption DEF FireIds, Active
    <3>2. Cardinality(Active(fs)) \in Nat
      BY <3>1, FS_Subset, FS_CardinalityType
    <3> QED BY <1>12, <2>1, <3>2, ContinuationAssumption DEF Shed
  <2>3. DOMAIN fs = FireIds
    BY <1>4, <2>1 DEF FiresOK
  <2>4. PICK f \in FireIds, x \in Fire :
              /\ fs[f] = None /\ x.key = key /\ x.name = d.name /\ x.age = age
              /\ Started(fs, d, key, age) = [fs EXCEPT ![f] = x]
    BY <1>10, <2>2, <2>3, OneMoreFire
  <2>5. x.age <= TTL
    BY <1>10, <2>4
  <2> QED BY <1>1, <1>2, <1>12, <2>1, <2>4, <2>5 DEF Fired
<1> QED BY <1>1, <1>8, <1>11, <1>12

(* So every round leaves such a state.                                     *)
LEMMA RoundKeeps ==
    ASSUME NEW session \in Sessions, NEW up \in Kinds, NEW res,
           NEW st \in Rounds(session, up, res), NEW p \in Paths, items[p] \in Defs
    PROVE  Visit(st, p, session, up, res) \in Rounds(session, up, res)
<1>0. <<p, session>> \in Keys
  BY DEF Keys
<1>1. PICK key \in Keys : key = <<p, session>> /\ key[1] = p
  BY <1>0
<1>2. PICK v : v = Visit(st, p, session, up, res)
  OBVIOUS
<1>3. v = st \/ Recorded(st, v, key, session, up, res) \/ Fired(st, v, key)
  BY <1>1, <1>2, RoundOutcome
<1>4. /\ st.fanin \in [Keys -> Entry \cup {None}] /\ st.fires \in [FireIds -> Fire \cup {None}]
  BY DEF Rounds
<1>5. /\ EntriesOK(st.fanin, session, up, res) /\ GoneFired(st.fanin, st.fires)
      /\ FiresOK(st.fires) /\ CapsOK(st.fires)
  BY DEF Rounds, RoundOK
<1>6. CASE Recorded(st, v, key, session, up, res)
  <2>1. PICK e \in Entry \cup {None} :
        /\ e = None => st.fanin[key] = None
        /\ e # None => EntryOK(key, e, session, up, res)
        /\ v = [fanin |-> [st.fanin EXCEPT ![key] = e], fires |-> st.fires]
    BY <1>6 DEF Recorded
  <2>2. PICK fi : fi = [st.fanin EXCEPT ![key] = e]
    OBVIOUS
  <2>3. fi \in [Keys -> Entry \cup {None}] /\ v.fanin = fi /\ v.fires = st.fires
    BY <1>4, <2>1, <2>2
  <2>4. fi[key] = e /\ \A k \in Keys : k # key => fi[k] = st.fanin[k]
    BY <1>4, <2>2
  <2>5. EntriesOK(fi, session, up, res)
    BY <1>5, <2>1, <2>3, <2>4 DEF EntriesOK
  <2>6. GoneFired(fi, st.fires)
    BY <1>5, <2>1, <2>4 DEF GoneFired
  <2>7. RoundOK(v, session, up, res)
    BY <1>5, <2>3, <2>5, <2>6 DEF RoundOK
  <2>8. v \in [fanin : [Keys -> Entry \cup {None}], fires : [FireIds -> Fire \cup {None}]]
    BY <1>4, <2>1, <2>2, <2>3
  <2> QED BY <1>2, <2>7, <2>8 DEF Rounds
<1>7. CASE Fired(st, v, key)
  <2>1. PICK f \in FireIds, x \in Fire :
        /\ st.fires[f] = None /\ x.key = key /\ x.name = items[key[1]].name /\ x.age <= TTL
        /\ ~Shed(st.fires, items[key[1]])
        /\ v = [fanin |-> [st.fanin EXCEPT ![key] = None], fires |-> [st.fires EXCEPT ![f] = x]]
    BY <1>7 DEF Fired
  <2>2. PICK fi, fs, gs : fi = [st.fanin EXCEPT ![key] = None] /\ fs = st.fires /\ gs = [st.fires EXCEPT ![f] = x]
    OBVIOUS
  <2>3. /\ fi \in [Keys -> Entry \cup {None}] /\ gs \in [FireIds -> Fire \cup {None}]
        /\ v = [fanin |-> fi, fires |-> gs]
    BY <1>4, <2>1, <2>2
  <2>4. fi[key] = None /\ \A k \in Keys : k # key => fi[k] = st.fanin[k]
    BY <1>4, <2>2
  <2>5. CapsOK(gs) /\ FiresOK(gs) /\ Begun(gs) = Begun(fs) \cup {x.key}
    <3>1. PICK d \in Defs : d = items[key[1]]
      BY <1>1
    <3>2. FiresOK(fs) /\ CapsOK(fs) /\ ~Shed(fs, d) /\ fs[f] = None /\ x.name = d.name
      BY <1>5, <2>1, <2>2, <3>1
    <3>3. gs = [fs EXCEPT ![f] = x] /\ x.age <= TTL
      BY <2>1, <2>2
    <3>4. Grown([fs EXCEPT ![f] = x], fs, x.key)
      BY <3>2, <3>3, FireWithinCaps
    <3> QED BY <3>3, <3>4 DEF Grown
  <2>6. EntriesOK(fi, session, up, res)
    BY <1>5, <2>3, <2>4 DEF EntriesOK
  <2>7. GoneFired(fi, gs)
    BY <1>5, <2>1, <2>2, <2>4, <2>5 DEF GoneFired
  <2>8. v.fanin = fi /\ v.fires = gs
    BY <2>3
  <2>9. RoundOK(v, session, up, res)
    BY <2>5, <2>6, <2>7, <2>8 DEF RoundOK
  <2>10. v \in [fanin : [Keys -> Entry \cup {None}], fires : [FireIds -> Fire \cup {None}]]
    BY <2>3
  <2> QED BY <1>2, <2>9, <2>10 DEF Rounds
<1> QED BY <1>2, <1>3, <1>6, <1>7

(* The state in which the loop begins.                                     *)
LEMMA StartOK ==
    ASSUME ContInv, NEW session \in Sessions, NEW up \in Kinds, NEW res
    PROVE  /\ NotifyStart \in Rounds(session, up, res)
           /\ Begun(NotifyStart.fires) = {}
<1>1. PICK fi : fi = Evict(fanin)
  OBVIOUS
<1>2. /\ fanin \in [Keys -> Entry \cup {None}] /\ fires \in [FireIds -> Fire \cup {None}]
  BY DEF ContInv, TypeOK
<1>3. fi \in [Keys -> Entry \cup {None}]
      /\ \A k \in Keys : fi[k] # None => fi[k] = fanin[k] /\ fanin[k] # None /\ ~(fanin[k].age > TTL)
  BY <1>1, <1>2 DEF Evict
<1>4. EntriesOK(fi, session, up, res)
  <2> SUFFICES ASSUME NEW k \in Keys, fi[k] # None
               PROVE  EntryOK(k, fi[k], session, up, res)
    BY <1>3 DEF EntriesOK
  <2>1. PICK e \in Entry : e = fi[k] /\ e = fanin[k] /\ fanin[k] # None /\ ~(e.age > TTL)
    BY <1>3
  <2>2. e.age <= TTL
    BY <2>1, ContinuationAssumption DEF Entry
  <2>3. e.seen \subseteq counted[k]
    BY <2>1 DEF ContInv, CountsOnce
  <2>4. counted[k] \subseteq NewCount(k, session, up, res)
    BY DEF NewCount
  <2>5. items[k[1]] # None /\ FanIn(items[k[1]])
    BY <2>1 DEF ContInv, OnlyFanIns
  <2> QED BY <2>1, <2>2, <2>3, <2>4, <2>5 DEF EntryOK
<1>5. GoneFired(fi, fires)
  BY <1>1 DEF GoneFired
<1>6. CapsOK(fires)
  BY DEF ContInv, CapsRespected, CapsOK
<1>7. FiresOK(fires)
  BY <1>2 DEF FiresOK, ContInv, NotStale, Active
<1>8. NotifyStart.fanin = fi /\ NotifyStart.fires = fires
  BY <1>1 DEF NotifyStart
<1>9. RoundOK(NotifyStart, session, up, res)
  BY <1>4, <1>5, <1>6, <1>7, <1>8 DEF RoundOK
<1>10. NotifyStart \in [fanin : [Keys -> Entry \cup {None}], fires : [FireIds -> Fire \cup {None}]]
  BY <1>1, <1>2, <1>3 DEF NotifyStart
<1> QED BY <1>8, <1>9, <1>10 DEF Rounds, Begun

(* An item is visited once, so the entry of one that fired stays cleared.  *)
Cleared(fi, fs) == \A k \in Keys : fi[k] # None => k \notin Begun(fs)
AfterLoop(v, session, up, res) ==
    v \in Rounds(session, up, res) /\ Cleared(v.fanin, v.fires)

LEMMA LoopEnds ==
    ASSUME ContInv, NEW session \in Sessions, NEW up \in Kinds, NEW res
    PROVE  AfterLoop(Visited(session, up, res), session, up, res)
<1>1. PICK S : S = Rounds(session, up, res)
  OBVIOUS
<1>2. order \in Seq(Paths) /\ Len(order) \in Nat
  BY DEF ContInv, TypeOK
<1>3. \A n \in 1..Len(order) : order[n] \in Paths /\ items[order[n]] \in Defs
  <2> SUFFICES ASSUME NEW n \in 1..Len(order) PROVE order[n] \in Paths /\ items[order[n]] \in Defs
    OBVIOUS
  <2>1. order[n] \in Paths
    BY <1>2
  <2>2. items[order[n]] # None
    BY <2>1 DEF ContInv, KeysOnce
  <2> QED BY <2>1, <2>2 DEF ContInv, TypeOK
<1>4. \A n \in 1..Len(order), v \in S : Visit(v, order[n], session, up, res) \in S
  BY <1>1, <1>3, RoundKeeps
<1>5. NotifyStart \in S /\ Begun(NotifyStart.fires) = {}
  BY <1>1, StartOK
<1>6. PICK st \in [0..Len(order) -> S] :
            /\ st[0] = NotifyStart
            /\ \A n \in 1..Len(order) : st[n] = Visit(st[n - 1], order[n], session, up, res)
            /\ st[Len(order)] = Visited(session, up, res)
  BY <1>2, <1>4, <1>5, NotifyLadder
<1> DEFINE NotYet(n) == \A m \in n + 1..Len(order) : <<order[m], session>> \notin Begun(st[n].fires)
           Through == {n \in 0..Len(order) : Cleared(st[n].fanin, st[n].fires) /\ NotYet(n)}
<1>7. 0 \in Through
  BY <1>2, <1>5, <1>6 DEF Cleared
<1>8. ASSUME NEW n \in 1..Len(order), n - 1 \in Through PROVE n \in Through
  <2>1. PICK a \in S : a = st[n - 1]
    BY <1>6
  <2>2. PICK v : v = st[n]
    OBVIOUS
  <2>3. v = Visit(a, order[n], session, up, res)
    BY <1>6, <2>1, <2>2
  <2>4. PICK p \in Paths : p = order[n] /\ items[p] \in Defs
    BY <1>3
  <2>5. PICK key \in Keys : key = <<p, session>> /\ key[1] = p
    <3>1. <<p, session>> \in Keys
      BY DEF Keys
    <3> QED BY <3>1
  <2>6. v = a \/ Recorded(a, v, key, session, up, res) \/ Fired(a, v, key)
    BY <1>1, <2>3, <2>4, <2>5, RoundOutcome
  <2>7. a.fanin \in [Keys -> Entry \cup {None}] /\ a.fires \in [FireIds -> Fire \cup {None}]
        /\ FiresOK(a.fires) /\ CapsOK(a.fires)
    BY <1>1, <2>1 DEF Rounds, RoundOK
  <2>8. Cleared(a.fanin, a.fires) /\ key \notin Begun(a.fires)
    <3>1. n \in n - 1 + 1..Len(order)
      OBVIOUS
    <3> QED BY <1>8, <2>1, <2>4, <2>5, <3>1
  <2>9. \A m \in n + 1..Len(order) : <<order[m], session>> \notin Begun(a.fires) /\ <<order[m], session>> # key
    <3> SUFFICES ASSUME NEW m \in n + 1..Len(order)
                 PROVE  <<order[m], session>> \notin Begun(a.fires) /\ <<order[m], session>> # key
      OBVIOUS
    <3>1. m \in n - 1 + 1..Len(order) /\ m \in 1..Len(order) /\ m # n
      OBVIOUS
    <3>2. order[m] # order[n]
      BY <3>1 DEF ContInv, KeysOnce
    <3> QED BY <1>8, <2>1, <2>4, <2>5, <3>1, <3>2
  <2>10. Cleared(v.fanin, v.fires) /\ \A m \in n + 1..Len(order) : <<order[m], session>> \notin Begun(v.fires)
    <3>1. CASE v = a
      BY <2>8, <2>9, <3>1
    <3>2. CASE Recorded(a, v, key, session, up, res)
      <4>1. PICK e : v = [fanin |-> [a.fanin EXCEPT ![key] = e], fires |-> a.fires]
        BY <3>2 DEF Recorded
      <4>2. v.fires = a.fires /\ \A k \in Keys : k # key => v.fanin[k] = a.fanin[k]
        BY <2>7, <4>1
      <4> QED BY <2>8, <2>9, <4>2 DEF Cleared
    <3>3. CASE Fired(a, v, key)
      <4>1. PICK f \in FireIds, x \in Fire :
              /\ a.fires[f] = None /\ x.key = key /\ x.name = items[key[1]].name /\ x.age <= TTL
              /\ ~Shed(a.fires, items[key[1]])
              /\ v = [fanin |-> [a.fanin EXCEPT ![key] = None], fires |-> [a.fires EXCEPT ![f] = x]]
        BY <3>3 DEF Fired
      <4>2. PICK fs, d : fs = a.fires /\ d = items[key[1]]
        OBVIOUS
      <4>3. FiresOK(fs) /\ CapsOK(fs) /\ d \in Defs /\ ~Shed(fs, d) /\ fs[f] = None /\ x.name = d.name /\ x.age <= TTL
        BY <2>4, <2>5, <2>7, <4>1, <4>2
      <4>4. Grown([fs EXCEPT ![f] = x], fs, x.key)
        BY <4>3, FireWithinCaps
      <4>5. Begun(v.fires) = Begun(a.fires) \cup {key}
        BY <4>1, <4>2, <4>4 DEF Grown
      <4>6. v.fanin[key] = None /\ \A k \in Keys : k # key => v.fanin[k] = a.fanin[k]
        BY <2>7, <4>1
      <4>7. Cleared(v.fanin, v.fires)
        BY <2>8, <4>5, <4>6 DEF Cleared
      <4> QED BY <2>9, <4>5, <4>7
    <3> QED BY <2>6, <3>1, <3>2, <3>3
  <2> QED BY <2>2, <2>10
<1>9. 0..Len(order) \subseteq Through
  <2> HIDE DEF Through
  <2> QED BY <1>2, <1>7, <1>8, UpTo
<1>10. Len(order) \in Through
  BY <1>2, <1>9
<1>11. st[Len(order)] \in S
  BY <1>2, <1>6
<1> QED BY <1>1, <1>6, <1>10, <1>11 DEF AfterLoop

LEMMA NotifyKeeps ==
    ASSUME ContInv, NEW session \in Sessions, NEW up \in Kinds, NEW res \in Results,
           Notify(session, up, res)
    PROVE  ContInv'
<1>1. PICK v : v = Visited(session, up, res)
  OBVIOUS
<1>2. AfterLoop(v, session, up, res)
  BY <1>1, LoopEnds
<1>3. PICK fi, fs : fi = v.fanin /\ fs = v.fires
  OBVIOUS
<1>4. fi \in [Keys -> Entry \cup {None}] /\ fs \in [FireIds -> Fire \cup {None}]
  BY <1>2, <1>3 DEF AfterLoop, Rounds
<1>5. /\ EntriesOK(fi, session, up, res) /\ CapsOK(fs) /\ FiresOK(fs) /\ Cleared(fi, fs)
  BY <1>2, <1>3 DEF AfterLoop, Rounds, RoundOK
<1>6. closing = "no" /\ fanin' = fi /\ fires' = fs /\ UNCHANGED <<items, order, closing>>
  BY <1>1, <1>3 DEF Notify
<1>7. counted' = [k \in Keys |-> IF k \in Begun(fs) THEN {} ELSE NewCount(k, session, up, res)]
  <2>1. {fs[f].key : f \in Active(fs) \ Active(fires)} = Begun(fs)
    BY DEF Begun
  <2> QED BY <1>1, <1>3, <2>1 DEF Notify, NewCount
<1>8. \A k \in Keys : NewCount(k, session, up, res) \in SUBSET Kinds
  BY DEF NewCount, ContInv, TypeOK
<1>9. TypeOK'
  <2>1. counted' \in [Keys -> SUBSET Kinds]
    BY <1>7, <1>8
  <2>2. /\ items \in [Paths -> Defs \cup {None}] /\ order \in Seq(Paths)
        /\ \A p \in Paths : items[p] # None <=> Contains(order, p)
        /\ closing \in {"no", "draining", "done"}
    BY DEF ContInv, TypeOK
  <2> QED BY <1>4, <1>6, <2>1, <2>2 DEF TypeOK
<1>10. KeysOnce'
  BY <1>6 DEF ContInv, KeysOnce
<1>11. OnlyFanIns'
  BY <1>5, <1>6 DEF OnlyFanIns, EntriesOK, EntryOK, FanIn
<1>12. CapsRespected'
  BY <1>5, <1>6 DEF CapsRespected, CapsOK, Active, Named
<1>13. CountsOnce'
  <2> SUFFICES ASSUME NEW k \in Keys, fi[k] # None PROVE fi[k].seen \subseteq counted'[k]
    BY <1>6 DEF CountsOnce
  <2>1. k \notin Begun(fs)
    BY <1>5 DEF Cleared
  <2>2. counted'[k] = NewCount(k, session, up, res)
    BY <1>7, <2>1
  <2> QED BY <1>5, <2>2 DEF EntriesOK, EntryOK
<1>14. NotStale'
  BY <1>5, <1>6 DEF NotStale, FiresOK, Active
<1>15. NothingAfterClose'
  BY <1>6 DEF NothingAfterClose
<1> QED BY <1>9, <1>10, <1>11, <1>12, <1>13, <1>14, <1>15 DEF ContInv

(* A change of a file clears the partial state of its continuation.        *)
LEMMA FileKeeps ==
    ASSUME ContInv, NEW p \in Paths, NEW d \in Defs, Register(p, d) \/ Unregister(p)
    PROVE  ContInv'
<1>1. /\ items \in [Paths -> Defs \cup {None}] /\ order \in Seq(Paths)
      /\ fanin \in [Keys -> Entry \cup {None}] /\ counted \in [Keys -> SUBSET Kinds]
      /\ \A q \in Paths : items[q] # None <=> \E i \in 1..Len(order) : order[i] = q
      /\ \A i, j \in 1..Len(order) : order[i] = order[j] => i = j
      /\ fires \in [FireIds -> Fire \cup {None}] /\ closing \in {"no", "draining", "done"}
  BY DEF ContInv, TypeOK, KeysOnce
<1>2. PICK o : o = RemoveFirst(order, p)
  OBVIOUS
<1>3. /\ o \in Seq(Paths)
      /\ \A i, j \in 1..Len(o) : o[i] = o[j] => i = j
      /\ \A x : (\E i \in 1..Len(o) : o[i] = x) <=> x # p /\ \E i \in 1..Len(order) : order[i] = x
  <2>1. KeysApart(order)
    BY <1>1 DEF KeysApart
  <2>2. order \in Seq(Paths)
    BY <1>1
  <2>3. o \in Seq(Paths) /\ KeysApart(o) /\ OnlyLost(o, order, p)
    BY <1>2, <2>1, <2>2, KeyRemoved
  <2> QED BY <2>3 DEF KeysApart, OnlyLost
<1>4. UNCHANGED <<fires, closing>> /\ ClearFanIn(p) /\ Recount(p)
  BY DEF Register, Unregister
<1>5. \A k \in Keys : k[1] = p => fanin'[k] = None /\ counted'[k] = {}
  <2>1. ASSUME NEW k \in Keys, k[1] = p, items[p] = None PROVE fanin[k] = None
    BY <2>1 DEF ContInv, OnlyFanIns
  <2> QED BY <1>4, <2>1 DEF ClearFanIn, Forget, Recount
<1>6. \A k \in Keys : k[1] # p => fanin'[k] = fanin[k] /\ counted'[k] = counted[k]
  BY <1>4 DEF ClearFanIn, Forget, Recount
<1>7. fanin' \in [Keys -> Entry \cup {None}] /\ counted' \in [Keys -> SUBSET Kinds]
  BY <1>1, <1>4 DEF ClearFanIn, Forget, Recount
<1>8. /\ items' \in [Paths -> Defs \cup {None}]
      /\ \A q \in Paths : q # p => items'[q] = items[q]
      /\ order' \in Seq(Paths)
      /\ \A i, j \in 1..Len(order') : order'[i] = order'[j] => i = j
      /\ \A q \in Paths : items'[q] # None <=> \E i \in 1..Len(order') : order'[i] = q
  <2>1. CASE Register(p, d)
    <3>1. order' = Append(o, p) /\ items' = [items EXCEPT ![p] = d]
      BY <1>2, <2>1 DEF Register
    <3>0. o \in Seq(Paths)
      BY <1>3
    <3>1a. Append(o, p) \in Seq(Paths)
      BY <3>0
    <3>2. PICK r \in Seq(Paths) : r = Append(o, p)
      BY <3>1a
    <3>3. Len(r) = Len(o) + 1 /\ Len(o) \in Nat
      BY <1>3, <3>2
    <3>4. r[Len(o) + 1] = p
      BY <1>3, <3>2
    <3>5. \A i \in 1..Len(o) : r[i] = o[i] /\ o[i] # p
      BY <1>3, <3>2
    <3>6. \A i, j \in 1..Len(r) : r[i] = r[j] => i = j
      <4> SUFFICES ASSUME NEW i \in 1..Len(r), NEW j \in 1..Len(r), r[i] = r[j] PROVE i = j
        OBVIOUS
      <4>1. (i \in 1..Len(o) \/ i = Len(o) + 1) /\ (j \in 1..Len(o) \/ j = Len(o) + 1)
        BY <3>3
      <4> QED BY <1>3, <3>4, <3>5, <4>1
    <3>7. ASSUME NEW q \in Paths
          PROVE  items'[q] # None <=> \E i \in 1..Len(r) : r[i] = q
      <4>1. CASE q = p
        BY <1>1, <3>1, <3>3, <3>4, <4>1, NoneAssumption
      <4>2. CASE q # p
        <5>1. items'[q] = items[q]
          BY <1>1, <3>1, <4>2
        <5>2. (\E i \in 1..Len(r) : r[i] = q) <=> \E i \in 1..Len(o) : o[i] = q
          <6>1. ASSUME NEW i \in 1..Len(r), r[i] = q PROVE i \in 1..Len(o)
            BY <3>3, <3>4, <4>2, <6>1
          <6>2. \A i \in 1..Len(o) : i \in 1..Len(r)
            BY <3>3
          <6> QED BY <3>5, <6>1, <6>2
        <5> QED BY <1>1, <1>3, <4>2, <5>1, <5>2
      <4> QED BY <4>1, <4>2
    <3> QED BY <1>1, <3>1, <3>2, <3>6, <3>7
  <2>2. CASE Unregister(p)
    <3>1. order' = o /\ items' = [items EXCEPT ![p] = None]
      BY <1>2, <2>2 DEF Unregister
    <3> QED BY <1>1, <1>3, <3>1
  <2> QED BY <2>1, <2>2
<1>9. TypeOK'
  BY <1>1, <1>4, <1>7, <1>8 DEF TypeOK, Contains
<1>10. KeysOnce'
  BY <1>8 DEF KeysOnce
<1>11. OnlyFanIns'
  <2> SUFFICES ASSUME NEW k \in Keys, fanin'[k] # None
               PROVE  items'[k[1]] # None /\ FanIn(items'[k[1]])
    BY DEF OnlyFanIns, FanIn
  <2>1. k[1] # p /\ fanin[k] # None /\ k[1] \in Paths
    BY <1>5, <1>6 DEF Keys
  <2>2. items'[k[1]] = items[k[1]]
    BY <1>8, <2>1
  <2> QED BY <2>1, <2>2 DEF ContInv, OnlyFanIns
<1>12. CapsRespected'
  BY <1>4 DEF ContInv, CapsRespected, Active, Named
<1>13. CountsOnce'
  BY <1>5, <1>6 DEF ContInv, CountsOnce
<1>14. NotStale' /\ NothingAfterClose'
  BY <1>4 DEF ContInv, NotStale, NothingAfterClose, Active
<1> QED BY <1>9, <1>10, <1>11, <1>12, <1>13, <1>14 DEF ContInv

(* The other steps end fires, or let them go on, and let entries age.      *)
LEMMA FewerFires ==
    ASSUME ContInv, NEW gs, fires' = gs,
           \A f \in FireIds : gs[f] # None =>
               /\ fires[f] # None
               /\ gs[f].name = fires[f].name /\ gs[f].age = fires[f].age
    PROVE  CapsRespected' /\ NotStale' /\ Active(fires)' \subseteq Active(fires)
<1>1. Active(gs) \subseteq Active(fires)
  BY DEF Active
<1>2. \A n : Named(gs, n) \subseteq Named(fires, n)
  BY DEF Active, Named
<1>3. IsFiniteSet(FireIds) /\ GlobalCap \in Nat
  BY FS_Interval, ContinuationAssumption DEF FireIds
<1>4. \A W \in SUBSET FireIds : \A U \in SUBSET W :
        Cardinality(W) \in Nat /\ Cardinality(U) \in Nat /\ Cardinality(U) <= Cardinality(W)
  BY <1>3, FS_Subset, FS_CardinalityType
<1>5. Active(fires) \in SUBSET FireIds /\ \A n : Named(fires, n) \in SUBSET FireIds
  BY DEF Active, Named
<1>6. Cardinality(Active(gs)) <= GlobalCap
  <2>1. Cardinality(Active(fires)) <= GlobalCap
    BY DEF ContInv, CapsRespected
  <2> QED BY <1>1, <1>3, <1>4, <1>5, <2>1
<1>7. ASSUME NEW n \in Names
      PROVE  \E d \in Defs : d.name = n /\ Cardinality(Named(gs, n)) <= d.cap
  <2>1. PICK d \in Defs : d.name = n /\ Cardinality(Named(fires, n)) <= d.cap
    BY DEF ContInv, CapsRespected
  <2>2. d.cap \in Nat
    BY ContinuationAssumption
  <2>3. /\ Cardinality(Named(fires, n)) \in Nat /\ Cardinality(Named(gs, n)) \in Nat
        /\ Cardinality(Named(gs, n)) <= Cardinality(Named(fires, n))
    BY <1>2, <1>4, <1>5
  <2>4. Cardinality(Named(gs, n)) <= d.cap
    BY <2>1, <2>2, <2>3
  <2> QED BY <2>1, <2>4
<1>8. CapsRespected'
  BY <1>6, <1>7 DEF CapsRespected, Active, Named
<1>9. NotStale'
  BY <1>1 DEF ContInv, NotStale, Active
<1> QED BY <1>1, <1>8, <1>9 DEF Active

(* ContInv is inductive.                                                   *)
LEMMA ContStart == Init => ContInv
<1> SUFFICES ASSUME Init PROVE ContInv
  OBVIOUS
<1>1. TypeOK
  <2>1. <<>> \in Seq(Paths) /\ \A p : ~Contains(<<>>, p)
    BY DEF Contains
  <2> QED BY <2>1 DEF Init, TypeOK
<1>2. KeysOnce /\ OnlyFanIns /\ CountsOnce
  BY DEF Init, KeysOnce, OnlyFanIns, CountsOnce
<1>3. Active(fires) = {} /\ \A n : Named(fires, n) = {}
  BY DEF Init, Active, Named
<1>4. NotStale /\ NothingAfterClose
  BY <1>3 DEF NotStale, NothingAfterClose
<1>5. CapsRespected
  <2>1. Cardinality({}) = 0
    BY FS_EmptySet
  <2>2. GlobalCap \in Nat /\ \A d \in Defs : d.cap \in Nat
    BY ContinuationAssumption
  <2> QED BY <1>3, <2>1, <2>2 DEF CapsRespected, Names
<1> QED BY <1>1, <1>2, <1>4, <1>5 DEF ContInv

LEMMA FireStepKeeps ==
    ASSUME ContInv, NEW f \in FireIds, DelayOver(f) \/ FireEnds(f)
    PROVE  ContInv'
<1>1. fires \in [FireIds -> Fire \cup {None}] /\ fires[f] \in Fire
  BY DEF ContInv, TypeOK, DelayOver, FireEnds
<1>2. PICK gs : gs = fires'
  OBVIOUS
<1>3. gs \in [FireIds -> Fire \cup {None}]
  <2>1. CASE DelayOver(f)
    <3>1. PICK x \in Fire : x = [fires[f] EXCEPT !.phase = "sending"]
      BY <1>1 DEF Fire
    <3>2. gs = [fires EXCEPT ![f] = x]
      BY <1>2, <2>1, <3>1 DEF DelayOver
    <3> QED BY <1>1, <3>2
  <2>2. CASE FireEnds(f)
    BY <1>1, <1>2, <2>2 DEF FireEnds
  <2> QED BY <2>1, <2>2
<1>4. \A g \in FireIds : gs[g] # None =>
        fires[g] # None /\ gs[g].name = fires[g].name /\ gs[g].age = fires[g].age
  <2>1. CASE DelayOver(f)
    <3>1. fires[f] # None /\ gs = [fires EXCEPT ![f] = [fires[f] EXCEPT !.phase = "sending"]]
      BY <1>2, <2>1 DEF DelayOver
    <3>2. PICK x : x = [fires[f] EXCEPT !.phase = "sending"]
      OBVIOUS
    <3>3. x.name = fires[f].name /\ x.age = fires[f].age
      BY <1>1, <3>2 DEF Fire
    <3>4. gs[f] = x /\ \A g \in FireIds : g # f => gs[g] = fires[g]
      BY <1>1, <3>1, <3>2
    <3> QED BY <3>1, <3>3, <3>4
  <2>2. CASE FireEnds(f)
    BY <1>1, <1>2, <2>2 DEF FireEnds
  <2> QED BY <2>1, <2>2
<1>5. CapsRespected' /\ NotStale' /\ Active(fires)' \subseteq Active(fires)
  BY <1>2, <1>4, FewerFires
<1>6. UNCHANGED <<items, order, fanin, closing, counted>>
  BY DEF DelayOver, FireEnds
<1>7. TypeOK'
  BY <1>2, <1>3, <1>6 DEF ContInv, TypeOK
<1>8. KeysOnce' /\ OnlyFanIns' /\ CountsOnce'
  BY <1>6 DEF ContInv, KeysOnce, OnlyFanIns, CountsOnce, FanIn
<1>9. NothingAfterClose'
  BY <1>5, <1>6 DEF ContInv, NothingAfterClose
<1> QED BY <1>5, <1>7, <1>8, <1>9 DEF ContInv

LEMMA ClosingKeeps ==
    ASSUME ContInv, Close \/ Drained \/ DrainTimesOut
    PROVE  ContInv'
<1>1. fires \in [FireIds -> Fire \cup {None}]
  BY DEF ContInv, TypeOK
<1>2. PICK gs : gs = fires'
  OBVIOUS
<1>3. /\ gs \in [FireIds -> Fire \cup {None}]
      /\ \A g \in FireIds : gs[g] # None =>
            fires[g] # None /\ gs[g].name = fires[g].name /\ gs[g].age = fires[g].age
  <2>1. gs = fires \/ gs = [f \in FireIds |-> None]
    BY <1>2 DEF Close, Drained, DrainTimesOut
  <2> QED BY <1>1, <2>1
<1>4. CapsRespected' /\ NotStale' /\ Active(fires)' \subseteq Active(fires)
  BY <1>2, <1>3, FewerFires
<1>5. UNCHANGED <<items, order, fanin, counted>>
  BY DEF Close, Drained, DrainTimesOut
<1>6. closing' \in {"draining", "done"} /\ (closing' = "done" => Active(fires)' = {})
  <2>1. CASE Close
    BY <2>1 DEF Close, Active
  <2>2. CASE Drained
    BY <2>2 DEF Drained, Active
  <2>3. CASE DrainTimesOut
    BY <2>3 DEF DrainTimesOut, Active
  <2> QED BY <2>1, <2>2, <2>3
<1>7. TypeOK'
  BY <1>2, <1>3, <1>5, <1>6 DEF ContInv, TypeOK
<1>8. KeysOnce' /\ OnlyFanIns' /\ CountsOnce'
  BY <1>5 DEF ContInv, KeysOnce, OnlyFanIns, CountsOnce, FanIn
<1>9. NothingAfterClose'
  BY <1>6 DEF NothingAfterClose
<1> QED BY <1>4, <1>7, <1>8, <1>9 DEF ContInv

LEMMA AgesKeep ==
    ASSUME ContInv, Tick
    PROVE  ContInv'
<1>1. UNCHANGED <<items, order, fires, closing, counted>>
  BY DEF Tick
<1>2. fanin \in [Keys -> Entry \cup {None}]
  BY DEF ContInv, TypeOK
<1>3. ASSUME NEW k \in Keys
      PROVE  /\ fanin'[k] \in Entry \cup {None} /\ (fanin'[k] # None => fanin[k] # None)
             /\ fanin'[k] # None => fanin'[k].seen = fanin[k].seen
  <2>1. CASE fanin[k] # None /\ fanin[k].age <= TTL
    <3>1. PICK e \in Entry : e = fanin[k]
      BY <1>2, <2>1
    <3>2. fanin'[k] = [e EXCEPT !.age = e.age + 1]
      BY <2>1, <3>1 DEF Tick
    <3>3. fanin'[k] \in Entry /\ fanin'[k].seen = e.seen
      BY <2>1, <3>1, <3>2, ContinuationAssumption DEF Entry
    <3> QED BY <2>1, <3>1, <3>3
  <2>2. CASE ~(fanin[k] # None /\ fanin[k].age <= TTL)
    <3>1. fanin'[k] = fanin[k]
      BY <2>2 DEF Tick
    <3> QED BY <1>2, <3>1
  <2> QED BY <2>1, <2>2
<1>4. fanin' \in [Keys -> Entry \cup {None}]
  <2>1. fanin' = [k \in Keys |-> fanin'[k]]
    BY DEF Tick
  <2> QED BY <1>3, <2>1
<1>5. TypeOK'
  BY <1>1, <1>4 DEF ContInv, TypeOK
<1>6. KeysOnce' /\ OnlyFanIns'
  BY <1>1, <1>3 DEF ContInv, KeysOnce, OnlyFanIns, FanIn
<1>7. CountsOnce'
  BY <1>1, <1>3 DEF ContInv, CountsOnce
<1>8. CapsRespected' /\ NotStale' /\ NothingAfterClose'
  BY <1>1 DEF ContInv, CapsRespected, NotStale, NothingAfterClose, Active, Named
<1> QED BY <1>5, <1>6, <1>7, <1>8 DEF ContInv

LEMMA ContStep == ContInv /\ Next => ContInv'
<1> SUFFICES ASSUME ContInv, Next PROVE ContInv'
  OBVIOUS
<1>1. ASSUME NEW s \in Sessions, NEW k \in Kinds, NEW r \in Results, Notify(s, k, r)
      PROVE  ContInv'
  BY <1>1, NotifyKeeps
<1>2. ASSUME NEW p \in Paths, Unregister(p) PROVE ContInv'
  <2>1. items[p] \in Defs
    BY <1>2 DEF Unregister, ContInv, TypeOK
  <2> QED BY <1>2, <2>1, FileKeeps
<1>3. ASSUME NEW p \in Paths, NEW d \in Defs, Register(p, d) PROVE ContInv'
  BY <1>3, FileKeeps
<1>4. ASSUME NEW f \in FireIds, DelayOver(f) \/ FireEnds(f) PROVE ContInv'
  BY <1>4, FireStepKeeps
<1> QED BY <1>1, <1>2, <1>3, <1>4, ClosingKeeps, AgesKeep DEF Next

LEMMA ShedStep ==
    ASSUME ContInv, Next, NEW k \in Keys,
           fanin[k] # None, fanin[k].age <= TTL, fanin'[k] = None
    PROVE  \/ Unregister(k[1]) \/ \E d \in Defs : Register(k[1], d)
           \/ \E f \in FireIds : fires[f] = None /\ fires'[f] # None /\ fires'[f].key = k
<1>1. fanin[k] \in Entry
  BY DEF ContInv, TypeOK
<1>2. ASSUME NEW s \in Sessions, NEW n \in Kinds, NEW r \in Results, Notify(s, n, r)
      PROVE  \E f \in FireIds : fires[f] = None /\ fires'[f] # None /\ fires'[f].key = k
  <2>1. PICK v : v = Visited(s, n, r)
    OBVIOUS
  <2>2. GoneFired(v.fanin, v.fires) /\ fanin' = v.fanin /\ fires' = v.fires
    BY <1>2, <2>1, LoopEnds DEF AfterLoop, Rounds, RoundOK, Notify
  <2>3. Evict(fanin)[k] # None
    <3>1. ~(fanin[k].age > TTL)
      BY <1>1, ContinuationAssumption DEF Entry
    <3> QED BY <3>1 DEF Evict
  <2>4. k \in Begun(v.fires)
    BY <2>2, <2>3 DEF GoneFired
  <2> QED BY <2>2, <2>4 DEF Begun, Active
<1>3. ASSUME NEW p \in Paths, ClearFanIn(p) PROVE p = k[1]
  BY <1>3 DEF ClearFanIn, Forget
<1>4. ASSUME NEW p \in Paths, Unregister(p) PROVE Unregister(k[1])
  BY <1>3, <1>4 DEF Unregister
<1>5. ASSUME NEW p \in Paths, NEW d \in Defs, Register(p, d) PROVE Register(k[1], d)
  BY <1>3, <1>5 DEF Register
<1>6. ASSUME Tick PROVE FALSE
  <2>1. fanin'[k] = [fanin[k] EXCEPT !.age = fanin[k].age + 1]
    BY <1>6 DEF Tick
  <2>2. fanin'[k] \in Entry
    BY <1>1, <2>1, ContinuationAssumption DEF Entry
  <2> QED BY <2>2, NoneAssumption
<1>7. ASSUME UNCHANGED fanin PROVE FALSE
  BY <1>7
<1>8. CASE \E s \in Sessions, n \in Kinds, r \in Results : Notify(s, n, r)
  BY <1>2, <1>8
<1>9. CASE \E p \in Paths : Unregister(p) \/ \E d \in Defs : Register(p, d)
  BY <1>4, <1>5, <1>9
<1>10. CASE \E f \in FireIds : DelayOver(f) \/ FireEnds(f)
  BY <1>7, <1>10 DEF DelayOver, FireEnds
<1>11. CASE Close \/ Drained \/ DrainTimesOut
  BY <1>7, <1>11 DEF Close, Drained, DrainTimesOut
<1> QED BY <1>6, <1>8, <1>9, <1>10, <1>11 DEF Next

(* The runner stands still while another component moves.                  *)
LEMMA RunnerStill == ASSUME ContInv, UNCHANGED vars PROVE ContInv'
<1>1. UNCHANGED <<items, order, fanin, fires, closing, counted>>
  BY DEF vars
<1>2. TypeOK' /\ KeysOnce' /\ OnlyFanIns'
  BY <1>1 DEF ContInv, TypeOK, KeysOnce, OnlyFanIns, FanIn
<1>3. CapsRespected' /\ CountsOnce' /\ NotStale' /\ NothingAfterClose'
  BY <1>1 DEF ContInv, CapsRespected, CountsOnce, NotStale, NothingAfterClose, Active, Named
<1> QED BY <1>2, <1>3 DEF ContInv

(* No cap of the continuation runner is exceeded although one notify may   *)
(* fire every item, a completion counts once, an entry beyond its TTL      *)
(* justifies no fire, and close leaves none behind: with any files,        *)
(* definitions, sessions and caps (continuations.py, ContinuationRunner).  *)
THEOREM ContinuationsHold == SafetySpec => []ContinuationsSound
<1>1. SafetyInit => ContInv
  BY ContStart DEF SafetyInit
<1>2. ContInv /\ [SafetyNext]_<<focus, runners, backends>> => ContInv'
  <2> SUFFICES ASSUME ContInv, [SafetyNext]_<<focus, runners, backends>>
               PROVE  ContInv'
    OBVIOUS
  <2>1. Next \/ UNCHANGED vars
    BY DEF SafetyNext, runners, backends
  <2>2. CASE UNCHANGED vars
    BY <2>2, RunnerStill
  <2> QED
    BY <2>1, <2>2, ContStep
<1>3. ContInv => ContinuationsSound
  BY DEF ContInv, ContinuationsSound
<1> QED
  BY <1>1, <1>2, <1>3, PTL DEF SafetySpec

(* A fan-in that was throttled is not forgotten (#656): an entry within    *)
(* its TTL goes away only when its continuation fires or its file changes, *)
(* with any files, definitions, sessions and caps (notify).                *)
THEOREM ShedKeepsFanInHolds == SafetySpec => ShedKeepsFanIn
<1> DEFINE Lost(k) == fanin[k] # None /\ fanin[k].age <= TTL /\ fanin'[k] = None
           Because(k) ==
             \/ Unregister(k[1]) \/ \E d \in Defs : Register(k[1], d)
             \/ \E f \in FireIds : fires[f] = None /\ fires'[f] # None /\ fires'[f].key = k
<1>1. SafetyInit => ContInv
  BY ContStart DEF SafetyInit
<1>2. ContInv /\ [SafetyNext]_<<focus, runners, backends>> => ContInv'
  <2> SUFFICES ASSUME ContInv, [SafetyNext]_<<focus, runners, backends>>
               PROVE  ContInv'
    OBVIOUS
  <2>1. Next \/ UNCHANGED vars
    BY DEF SafetyNext, runners, backends
  <2> QED
    BY <2>1, RunnerStill, ContStep
<1>3. ContInv /\ [SafetyNext]_<<focus, runners, backends>>
      => [\A k \in Keys : Lost(k) => Because(k)]_vars
  <2> SUFFICES ASSUME ContInv, [SafetyNext]_<<focus, runners, backends>>, ~UNCHANGED vars,
                      NEW k \in Keys, Lost(k)
               PROVE  Because(k)
    OBVIOUS
  <2>1. Next
    BY DEF SafetyNext, runners, backends
  <2> QED
    BY <2>1, ShedStep
<1> QED
  BY <1>1, <1>2, <1>3, PTL DEF SafetySpec, ShedKeepsFanIn

-----------------------------------------------------------------------------
(* The gate before a tool call *)

RuleStep(verdict, rule, tool, input) ==
    IF verdict = "deny" \/ ~G!Hit(rule, tool, input) THEN verdict
    ELSE IF rule.action = "deny" THEN "deny" ELSE "warn"
Verdicts == {"allow", "warn", "deny"}

LEMMA EvaluateLadder ==
    ASSUME NEW S, NEW rules \in Seq(S), NEW tool, NEW input
    PROVE  \E st \in [0..Len(rules) -> Verdicts] :
              /\ st[0] = "allow"
              /\ \A n \in 1..Len(rules) : st[n] = RuleStep(st[n - 1], rules[n], tool, input)
              /\ st[Len(rules)] = G!Evaluate(tool, input, rules)
<1>1. PICK N \in Nat : N = Len(rules) /\ DOMAIN rules = 1..N
  OBVIOUS
<1>2. PICK F : F = [n \in 1..N |-> [v \in Verdicts |-> RuleStep(v, rules[n], tool, input)]]
  OBVIOUS
<1>3. \A n \in 1..N, v \in Verdicts : F[n][v] = RuleStep(v, rules[n], tool, input)
  BY <1>2
<1>4. \A n \in 1..N, v \in Verdicts : F[n][v] \in Verdicts
  BY <1>3 DEF RuleStep, Verdicts
<1>4a. "allow" \in Verdicts
  BY DEF Verdicts
<1>5. PICK g \in [SUBSET (1..N) -> Verdicts] : FoldsLeft(g, N, Verdicts, F, "allow")
  BY <1>4, <1>4a, FoldLeftExists
<1> DEFINE iter[s \in SUBSET (1..N)] ==
             IF s = {} THEN "allow" ELSE RuleStep(iter[s \ {Max(s)}], rules[Max(s)], tool, input)
<1>6. \A s \in SUBSET (1..N) : s # {} => Max(s) \in 1..N
  BY GreatestUpTo
<1>7. g = [s \in SUBSET (1..N) |->
             IF s = {} THEN "allow" ELSE RuleStep(g[s \ {Max(s)}], rules[Max(s)], tool, input)]
  <2>1. \A s \in SUBSET (1..N) :
          g[s] = IF s = {} THEN "allow" ELSE RuleStep(g[s \ {Max(s)}], rules[Max(s)], tool, input)
    BY <1>3, <1>5, <1>6 DEF FoldsLeft
  <2> QED BY <2>1
<1>8. iter = [s \in SUBSET (1..N) |->
             IF s = {} THEN "allow" ELSE RuleStep(iter[s \ {Max(s)}], rules[Max(s)], tool, input)]
  BY <1>7
<1>9. G!Evaluate(tool, input, rules) = iter[1..N]
  BY <1>1 DEF G!Evaluate, G!FoldLeft, G!MapThenFoldSet, G!Max, Max, RuleStep
<1> HIDE DEF iter
<1>10. PICK it : it = iter
  OBVIOUS
<1>11. FoldsLeft(it, N, Verdicts, F, "allow")
  BY <1>3, <1>6, <1>8, <1>10 DEF FoldsLeft
<1>12. PICK st \in [0..N -> Verdicts] : Ladder(st, N, F, "allow") /\ st[N] = it[1..N]
  BY <1>4, <1>4a, <1>11, FoldLadder
<1>13. \A n \in 1..N : st[n - 1] \in Verdicts
  BY <1>12
<1>14. \A n \in 1..N : st[n] = RuleStep(st[n - 1], rules[n], tool, input)
  BY <1>3, <1>12, <1>13 DEF Ladder
<1> QED BY <1>1, <1>9, <1>10, <1>12, <1>14 DEF Ladder

(* The verdict of a loop over the rules is that of the strictest that fits *)
Fitting(rules, tool, input) == {n \in DOMAIN rules : G!Hit(rules[n], tool, input)}
Decides(v, rules, fits) ==
    /\ v \in Verdicts
    /\ v = "deny" <=> \E n \in fits : rules[n].action = "deny"
    /\ v = "allow" <=> fits = {}

LEMMA StrictestDecides ==
    ASSUME NEW S, NEW rules \in Seq(S), NEW tool, NEW input
    PROVE  Decides(G!Evaluate(tool, input, rules), rules, Fitting(rules, tool, input))
<1>1. PICK N \in Nat : N = Len(rules) /\ DOMAIN rules = 1..N
  OBVIOUS
<1>2. PICK st \in [0..N -> Verdicts] :
              /\ st[0] = "allow"
              /\ \A n \in 1..N : st[n] = RuleStep(st[n - 1], rules[n], tool, input)
              /\ st[N] = G!Evaluate(tool, input, rules)
  BY <1>1, EvaluateLadder
<1> DEFINE Upto(n) == {m \in 1..n : G!Hit(rules[m], tool, input)}
           Through == {n \in 0..N : Decides(st[n], rules, Upto(n))}
<1>3. 0 \in Through
  <2>1. Upto(0) = {}
    OBVIOUS
  <2> QED BY <1>2, <2>1 DEF Decides, Verdicts
<1>4. ASSUME NEW n \in 1..N, n - 1 \in Through PROVE n \in Through
  <2>1. PICK v : v = st[n - 1]
    OBVIOUS
  <2>2. PICK w : w = st[n]
    OBVIOUS
  <2>3. w = RuleStep(v, rules[n], tool, input)
    BY <1>2, <2>1, <2>2
  <2>4. PICK U : U = Upto(n - 1)
    OBVIOUS
  <2>5. Decides(v, rules, U)
    BY <1>4, <2>1, <2>4
  <2>6. Upto(n) = U \cup (IF G!Hit(rules[n], tool, input) THEN {n} ELSE {})
    BY <2>4
  <2>7. Decides(w, rules, Upto(n))
    <3> HIDE DEF Upto
    <3>1. CASE ~G!Hit(rules[n], tool, input)
      <4>1. w = v /\ Upto(n) = U
        BY <2>3, <2>6, <3>1 DEF RuleStep
      <4> QED BY <2>5, <4>1
    <3>2. CASE G!Hit(rules[n], tool, input)
      <4>1. Upto(n) = U \cup {n}
        BY <2>6, <3>2
      <4>2. w = IF v = "deny" \/ rules[n].action = "deny" THEN "deny" ELSE "warn"
        BY <2>3, <3>2 DEF RuleStep
      <4> QED BY <2>5, <4>1, <4>2 DEF Decides, Verdicts
    <3> QED BY <3>1, <3>2
  <2> QED BY <2>2, <2>7
<1>5. 0..N \subseteq Through
  <2> HIDE DEF Through
  <2> QED BY <1>3, <1>4, UpTo
<1>6. Decides(st[N], rules, Upto(N))
  <2>1. N \in Through
    BY <1>5
  <2> QED BY <2>1
<1>7. Upto(N) = Fitting(rules, tool, input)
  BY <1>1 DEF Fitting
<1> QED BY <1>2, <1>6, <1>7

(* load_extension_rules yields rules.                                      *)
LEMMA LoadedRules ==
    ASSUME NEW f \in G!HookFiles
    PROVE  G!LoadExtensions(f) \in Seq(Entries \ {Junk})
<1>1. CASE f \in {Missing, Malformed}
  <2>1. <<>> \in Seq(Entries \ {Junk})
    OBVIOUS
  <2> QED BY <1>1, <2>1 DEF G!LoadExtensions
<1>2. CASE f \notin {Missing, Malformed}
  <2>1. f \in Seq(Entries)
    BY <1>2, BoundedIsSeq DEF G!HookFiles
  <2>2. PICK N \in Nat : N = Len(f) /\ DOMAIN f = 1..N
    BY <2>1
  <2>3. PICK S : S = Seq(Entries \ {Junk})
    OBVIOUS
  <2>4. <<>> \in S
    BY <2>3
  <2> DEFINE Take(rules, n) == IF f[n] = Junk THEN rules ELSE Append(rules, f[n])
  <2>5. PICK F : F = [n \in 1..N |-> [v \in S |-> Take(v, n)]]
    OBVIOUS
  <2>6. \A n \in 1..N, v \in S : F[n][v] = Take(v, n)
    BY <2>5
  <2>7. \A n \in 1..N, v \in S : F[n][v] \in S
    <3> SUFFICES ASSUME NEW n \in 1..N, NEW v \in S PROVE Take(v, n) \in S
      BY <2>6
    <3>1. CASE f[n] = Junk
      BY <3>1
    <3>2. CASE f[n] # Junk
      <4>1. f[n] \in Entries \ {Junk}
        BY <2>1, <2>2, <3>2
      <4>2. v \in Seq(Entries \ {Junk})
        BY <2>3
      <4>3. Append(v, f[n]) \in Seq(Entries \ {Junk})
        BY <4>1, <4>2
      <4> QED BY <2>3, <3>2, <4>3
    <3> QED BY <3>1, <3>2
  <2> HIDE DEF Take
  <2>8. PICK g \in [SUBSET (1..N) -> S] : FoldsLeft(g, N, S, F, <<>>)
    BY <2>4, <2>7, FoldLeftExists
  <2> DEFINE iter[s \in SUBSET (1..N)] == IF s = {} THEN <<>> ELSE Take(iter[s \ {Max(s)}], Max(s))
  <2>9. \A s \in SUBSET (1..N) : s # {} => Max(s) \in 1..N
    BY GreatestUpTo
  <2>10. g = [s \in SUBSET (1..N) |-> IF s = {} THEN <<>> ELSE Take(g[s \ {Max(s)}], Max(s))]
    <3>1. \A s \in SUBSET (1..N) : g[s] = IF s = {} THEN <<>> ELSE Take(g[s \ {Max(s)}], Max(s))
      BY <2>6, <2>8, <2>9 DEF FoldsLeft
    <3> QED BY <3>1
  <2>11. iter = [s \in SUBSET (1..N) |-> IF s = {} THEN <<>> ELSE Take(iter[s \ {Max(s)}], Max(s))]
    BY <2>10
  <2>12. G!LoadExtensions(f) = iter[1..N]
    BY <1>2, <2>2 DEF G!LoadExtensions, G!FoldLeft, G!MapThenFoldSet, G!Max, Max, Take
  <2> HIDE DEF iter
  <2>13. PICK it : it = iter
    OBVIOUS
  <2>14. FoldsLeft(it, N, S, F, <<>>)
    BY <2>6, <2>9, <2>11, <2>13 DEF FoldsLeft
  <2>15. PICK st \in [0..N -> S] : Ladder(st, N, F, <<>>) /\ st[N] = it[1..N]
    BY <2>4, <2>7, <2>14, FoldLadder
  <2> QED BY <2>3, <2>12, <2>13, <2>15
<1> QED BY <1>1, <1>2

(* The rules in force and those being loaded are rules.                    *)
RulesInv ==
    /\ extensions \in Seq(Entries \ {Junk})
    /\ parsing # Missing => parsing \in Seq(Entries \ {Junk})
    /\ hookFile \in G!HookFiles
    /\ DOMAIN call = Calls

LEMMA RulesStart == G!GateInit => RulesInv
<1> SUFFICES ASSUME G!GateInit PROVE RulesInv
  OBVIOUS
<1>1. hookFile \in G!HookFiles
  BY DEF G!GateInit, G!HookFiles
<1>2. extensions = G!LoadExtensions(hookFile) /\ parsing = Missing /\ DOMAIN call = Calls
  BY DEF G!GateInit
<1> QED BY <1>1, <1>2, LoadedRules DEF RulesInv

LEMMA RulesStep == RulesInv /\ G!GateNext => RulesInv'
<1> SUFFICES ASSUME RulesInv, G!GateNext PROVE RulesInv'
  OBVIOUS
<1>1. DOMAIN call' = Calls
  <2>1. ASSUME NEW c \in Calls, G!PreToolUse(c) \/ G!PostDone(c) \/ G!PostToolUse(c)
        PROVE  DOMAIN call' = Calls
    BY <2>1 DEF G!PreToolUse, G!PostDone, G!PostToolUse, RulesInv
  <2>2. ASSUME UNCHANGED call PROVE DOMAIN call' = Calls
    BY <2>2 DEF RulesInv
  <2> QED BY <2>1, <2>2 DEF G!GateNext, G!Edit, G!ReadHooks, G!SwapHooks, G!ShellRequest,
             G!ShellDeny, G!ShellAllow, G!ShellRan, G!claudeState
<1>2. CASE G!Edit
  BY <1>1, <1>2 DEF G!Edit, RulesInv
<1>3. CASE G!ReadHooks
  BY <1>1, <1>3, LoadedRules DEF G!ReadHooks, RulesInv
<1>4. CASE G!SwapHooks
  BY <1>1, <1>4 DEF G!SwapHooks, RulesInv
<1>5. CASE UNCHANGED <<extensions, parsing, hookFile>>
  BY <1>1, <1>5 DEF RulesInv
<1> QED BY <1>2, <1>3, <1>4, <1>5 DEF G!GateNext, G!PreToolUse, G!PostDone, G!PostToolUse,
           G!ShellRequest, G!ShellDeny, G!ShellAllow, G!ShellRan, G!hookConfig

(* A call that leaves the gate does so in PreToolUse.                      *)
LEMMA GateDecides ==
    ASSUME RulesInv, G!GateNext, NEW c \in Calls, call[c].pc = "new", call'[c].pc # "new"
    PROVE  LET fits == Fitting(G!ActiveRules, call'[c].tool, call'[c].input)
           IN  /\ (call'[c].pc = "denied") = (\E n \in fits : G!ActiveRules[n].action = "deny")
               /\ (call'[c].verdict = "allow") = (fits = {})
<1>1. G!PreToolUse(c)
  <2>1. ASSUME UNCHANGED call PROVE FALSE
    BY <2>1
  <2>2. ASSUME NEW x \in Calls, G!PreToolUse(x) PROVE x = c
    BY <2>2 DEF G!PreToolUse, RulesInv
  <2>3. ASSUME NEW x \in Calls, G!PostDone(x) PROVE FALSE
    BY <2>1, <2>3 DEF G!PostDone
  <2>4. ASSUME NEW x \in Calls, G!PostToolUse(x) PROVE FALSE
    BY <2>4 DEF G!PostToolUse, RulesInv
  <2> QED BY <2>1, <2>2, <2>3, <2>4 DEF G!GateNext, G!Edit, G!ReadHooks, G!SwapHooks,
             G!ShellRequest, G!ShellDeny, G!ShellAllow, G!ShellRan, G!claudeState
<1>2. PICK rules : rules = G!ActiveRules
  OBVIOUS
<1>3. PICK tool \in ToolNames, input \in ToolInputs :
         call' = [call EXCEPT ![c] = [pc |-> IF G!Evaluate(tool, input, rules) = "deny" THEN "denied" ELSE "running",
                                      tool |-> tool, input |-> input,
                                      verdict |-> G!Evaluate(tool, input, rules)]]
  BY <1>1, <1>2 DEF G!PreToolUse
<1>4. PICK v : v = G!Evaluate(tool, input, rules)
  OBVIOUS
<1>5. /\ call'[c].pc = IF v = "deny" THEN "denied" ELSE "running"
      /\ call'[c].tool = tool /\ call'[c].input = input /\ call'[c].verdict = v
  BY <1>3, <1>4 DEF RulesInv
<1>6. \E S : rules \in Seq(S)
  <2>1. PICK B : B = {Baseline[n] : n \in DOMAIN Baseline}
    OBVIOUS
  <2>2. PICK S : S = B \cup Entries
    OBVIOUS
  <2>3. Baseline \in Seq(B)
    BY <2>1, SafetyAssumption DEF G!GateAssumption
  <2>4. Baseline \in Seq(S)
    BY <2>2, <2>3
  <2>5. extensions \in Seq(S)
    BY <2>2 DEF RulesInv
  <2>6. rules \in Seq(S)
    BY <1>2, <2>4, <2>5 DEF G!ActiveRules
  <2> QED BY <2>6
<1>7. PICK fits : fits = Fitting(rules, tool, input)
  OBVIOUS
<1>8. Decides(v, rules, fits)
  BY <1>4, <1>6, <1>7, StrictestDecides
<1>9. /\ (call'[c].pc = "denied") = (\E n \in fits : rules[n].action = "deny")
      /\ (call'[c].verdict = "allow") = (fits = {})
  BY <1>5, <1>8 DEF Decides, Verdicts
<1> QED BY <1>2, <1>5, <1>7, <1>9

(* The strictest rule in force decides a tool call, whatever the order and *)
(* the number of the rules and whenever hooks.yaml is swapped              *)
(* (evaluate_pre_tool_use and the PreToolUse hook of the claude backend).  *)
THEOREM StrictestWinsHolds == SafetySpec => StrictestWins
<1> DEFINE Decided(c) ==
             LET fits == {n \in DOMAIN G!ActiveRules : G!Hit(G!ActiveRules[n], call'[c].tool, call'[c].input)}
             IN  /\ (call'[c].pc = "denied") = (\E n \in fits : G!ActiveRules[n].action = "deny")
                 /\ (call'[c].verdict = "allow") = (fits = {})
<1>1. SafetyInit => RulesInv
  BY RulesStart DEF SafetyInit
<1>2. RulesInv /\ [SafetyNext]_<<focus, runners, backends>> => RulesInv'
  <2> SUFFICES ASSUME RulesInv, [SafetyNext]_<<focus, runners, backends>>
               PROVE  RulesInv'
    OBVIOUS
  <2>1. CASE UNCHANGED gatevars
    BY <2>1 DEF gatevars, RulesInv
  <2> QED
    BY <2>1, AloneOrStill, RulesStep
<1>3. RulesInv /\ [SafetyNext]_<<focus, runners, backends>>
      => [\A c \in Calls : call[c].pc = "new" /\ call'[c].pc # "new" => Decided(c)]_(G!gatevars)
  <2> SUFFICES ASSUME RulesInv, [SafetyNext]_<<focus, runners, backends>>, ~UNCHANGED G!gatevars,
                      NEW c \in Calls, call[c].pc = "new", call'[c].pc # "new"
               PROVE  Decided(c)
    OBVIOUS
  <2>1. G!GateNext
    BY AloneOrStill DEF gatevars, G!gatevars
  <2> QED
    BY <2>1, GateDecides DEF Fitting
<1> QED
  BY <1>1, <1>2, <1>3, PTL DEF SafetySpec, StrictestWins, G!StrictestWins

-----------------------------------------------------------------------------
(* The pairing of calls and responses read back from a gemini history.     *)

QueueOK(q, n) == KeysApart(q) /\ \A i \in 1..Len(q) : q[i] \in 1..n

(* A call that is in none of the pending tables.                           *)
PairedOff(p) ==
    /\ p \in 1..Len(calls) /\ p \notin byId
    /\ \A i \in 1..Len(byIndex) : byIndex[i] # p
    /\ \A t \in Tools : \A i \in 1..Len(byName[t]) : byName[t][i] # p

AfcRow == [of : Nat, paired : Nat, n : Nat]
AfcTables ==
    /\ calls \in Seq(Tools)
    /\ openCalls \subseteq 1..Len(calls) /\ byId \subseteq 1..Len(calls)
    /\ byName \in [Tools -> Seq(Nat)] /\ byIndex \in Seq(Nat)
    /\ QueueOK(byIndex, Len(calls)) /\ \A t \in Tools : QueueOK(byName[t], Len(calls))
AfcRows ==
    /\ unpaired \in Nat /\ trows \in Seq(AfcRow)
    /\ \A i \in 1..Len(trows) :
          IF trows[i].paired = 0 THEN trows[i].n \in 1..unpaired ELSE PairedOff(trows[i].paired)
    /\ withIds => \A i \in 1..Len(trows) : trows[i].paired = trows[i].of
    /\ \A i, j \in 1..Len(trows) :
          i # j => \/ trows[i].paired # trows[j].paired
                   \/ trows[i].paired = 0 /\ trows[i].n # trows[j].n
AfcInv == AfcTables /\ AfcRows /\ (withIds => byId = openCalls)

LEMMA AfcStarts == A!AfcInit => AfcInv
BY DEF A!AfcInit, AfcInv, AfcTables, AfcRows, QueueOK, KeysApart

LEMMA AfcRemoves == \A q, p : A!RemoveFirst(q, p) = RemoveFirst(q, p)
BY DEF RemoveFirst, A!RemoveFirst, RemoveAt, A!RemoveAt, SelectInSeq, A!SelectInSeq, Min, A!Min

(* A queue a call is removed from.                                         *)
LEMMA QueueWithout ==
    ASSUME NEW q \in Seq(Nat), NEW n \in Nat, QueueOK(q, n), NEW p
    PROVE  LET r == RemoveFirst(q, p)
           IN  /\ r \in Seq(Nat) /\ QueueOK(r, n)
               /\ \A i \in 1..Len(r) : r[i] # p
               /\ \A x : (\A i \in 1..Len(q) : q[i] # x) => \A i \in 1..Len(r) : r[i] # x
<1>1. KeysApart(q)
  BY DEF QueueOK
<1>2. PICK r : r = RemoveFirst(q, p)
  OBVIOUS
<1>3. r \in Seq(Nat) /\ KeysApart(r) /\ OnlyLost(r, q, p)
  BY <1>1, <1>2, KeyRemoved
<1>4. \A i \in 1..Len(r) : r[i] # p /\ \E k \in 1..Len(q) : q[k] = r[i]
  BY <1>3 DEF OnlyLost
<1>5. \A i \in 1..Len(r) : r[i] \in 1..n
  BY <1>4 DEF QueueOK
<1>6. ASSUME NEW x, \A i \in 1..Len(q) : q[i] # x, NEW i \in 1..Len(r) PROVE r[i] # x
  BY <1>4, <1>6
<1> QED BY <1>2, <1>3, <1>4, <1>5, <1>6 DEF QueueOK

(* A queue a new call is appended to.                                      *)
LEMMA QueueWith ==
    ASSUME NEW q \in Seq(Nat), NEW n \in Nat, QueueOK(q, n)
    PROVE  LET r == Append(q, n + 1)
           IN  /\ r \in Seq(Nat) /\ QueueOK(r, n + 1)
               /\ \A x \in 1..n : (\A i \in 1..Len(q) : q[i] # x) => \A i \in 1..Len(r) : r[i] # x
<1>0. n + 1 \in Nat
  OBVIOUS
<1>1. Append(q, n + 1) \in Seq(Nat)
  BY <1>0
<1>2. PICK r \in Seq(Nat) : r = Append(q, n + 1)
  BY <1>1
<1>3. Len(r) = Len(q) + 1 /\ Len(q) \in Nat
  BY <1>2
<1>4. r[Len(q) + 1] = n + 1
  BY <1>2
<1>5. \A i \in 1..Len(q) : r[i] = q[i]
  BY <1>2
<1>6. \A i \in 1..Len(q) : q[i] \in 1..n
  BY DEF QueueOK
<1>7. \A i \in 1..Len(r) : i \in 1..Len(q) \/ i = Len(q) + 1
  BY <1>3
<1>8. \A i \in 1..Len(r) : r[i] \in 1..n + 1
  <2>1. ASSUME NEW i \in 1..Len(r) PROVE r[i] \in 1..n + 1
    <3>1. CASE i \in 1..Len(q)
      <4>1. r[i] = q[i] /\ q[i] \in 1..n
        BY <1>5, <1>6, <3>1
      <4> QED BY <4>1
    <3>2. CASE i = Len(q) + 1
      BY <1>4, <3>2
    <3> QED BY <1>7, <3>1, <3>2
  <2> QED BY <2>1
<1>9. ASSUME NEW i \in 1..Len(r), NEW j \in 1..Len(r), r[i] = r[j] PROVE i = j
  <2>1. (i \in 1..Len(q) \/ i = Len(q) + 1) /\ (j \in 1..Len(q) \/ j = Len(q) + 1)
    BY <1>7
  <2>2. ASSUME NEW k \in 1..Len(q) PROVE r[k] # n + 1
    <3>1. r[k] = q[k]
      BY <1>5
    <3>2. q[k] \in 1..n
      BY <1>6
    <3>3. q[k] # n + 1
      BY <3>2
    <3> QED BY <3>1, <3>3
  <2>3. CASE i \in 1..Len(q) /\ j \in 1..Len(q)
    <3>1. q[i] = q[j]
      BY <1>5, <1>9, <2>3
    <3> QED BY <2>3, <3>1 DEF QueueOK, KeysApart
  <2>4. CASE i = Len(q) + 1 /\ j = Len(q) + 1
    BY <2>4
  <2>5. CASE i \in 1..Len(q) /\ j = Len(q) + 1
    BY <1>4, <1>9, <2>2, <2>5
  <2>6. CASE i = Len(q) + 1 /\ j \in 1..Len(q)
    BY <1>4, <1>9, <2>2, <2>6
  <2> QED BY <2>1, <2>3, <2>4, <2>5, <2>6
<1>10. ASSUME NEW x \in 1..n, \A i \in 1..Len(q) : q[i] # x, NEW i \in 1..Len(r) PROVE r[i] # x
  <2>1. CASE i \in 1..Len(q)
    BY <1>5, <1>10, <2>1
  <2>2. CASE i = Len(q) + 1
    BY <1>4, <2>2
  <2> QED BY <1>7, <2>1, <2>2
<1> QED BY <1>2, <1>8, <1>9, <1>10 DEF QueueOK, KeysApart

(* What a response is paired with is pending.                              *)
LEMMA MatchPending ==
    ASSUME AfcInv, NEW t \in Tools, NEW c, NEW p, p = A!Match(c, t)
    PROVE  p = 0 \/ (p \in 1..Len(calls) /\ ~PairedOff(p))
<1>1. CASE withIds /\ c \in byId
  BY <1>1 DEF A!Match, AfcInv, AfcTables, PairedOff
<1>2. CASE byName[t] # <<>> /\ p = Head(byName[t])
  <2>1. PICK q \in Seq(Nat) : q = byName[t]
    BY DEF AfcInv, AfcTables
  <2>2. 1 \in 1..Len(q) /\ Head(q) = q[1]
    BY <1>2, <2>1
  <2>3. q[1] \in 1..Len(calls)
    BY <2>1, <2>2 DEF AfcInv, AfcTables, QueueOK
  <2> QED BY <1>2, <2>1, <2>2, <2>3 DEF PairedOff
<1>3. CASE byIndex # <<>> /\ p = Head(byIndex)
  <2>1. PICK q \in Seq(Nat) : q = byIndex
    BY DEF AfcInv, AfcTables
  <2>2. 1 \in 1..Len(q) /\ Head(q) = q[1]
    BY <1>3, <2>1
  <2>3. q[1] \in 1..Len(calls)
    BY <2>1, <2>2 DEF AfcInv, AfcTables, QueueOK
  <2> QED BY <1>3, <2>1, <2>2, <2>3 DEF PairedOff
<1> QED BY <1>1, <1>2, <1>3 DEF A!Match

(* A paired call leaves the tables.                                        *)
LEMMA UnpendKeeps ==
    ASSUME AfcTables, NEW p, A!Unpend(p), UNCHANGED calls, openCalls' \subseteq openCalls
    PROVE  /\ AfcTables'
           /\ byId' = byId \ {p}
           /\ p \in 1..Len(calls) => PairedOff(p)'
           /\ \A x : PairedOff(x) => PairedOff(x)'
<1>1. PICK n \in Nat : n = Len(calls)
  BY DEF AfcTables
<1>2. byId' = byId \ {p} /\ byIndex' = RemoveFirst(byIndex, p) /\ byName' = [t \in Tools |-> RemoveFirst(byName[t], p)]
  BY AfcRemoves DEF A!Unpend
<1>3. /\ byIndex' \in Seq(Nat) /\ QueueOK(byIndex', n)
      /\ \A i \in 1..Len(byIndex') : byIndex'[i] # p
      /\ \A x : (\A i \in 1..Len(byIndex) : byIndex[i] # x) => \A i \in 1..Len(byIndex') : byIndex'[i] # x
  <2>1. PICK q \in Seq(Nat) : q = byIndex
    BY DEF AfcTables
  <2>2. QueueOK(q, n)
    BY <1>1, <2>1 DEF AfcTables
  <2>3. PICK r : r = RemoveFirst(q, p)
    OBVIOUS
  <2>4. /\ r \in Seq(Nat) /\ QueueOK(r, n)
        /\ \A i \in 1..Len(r) : r[i] # p
        /\ \A x : (\A i \in 1..Len(q) : q[i] # x) => \A i \in 1..Len(r) : r[i] # x
    BY <2>2, <2>3, QueueWithout
  <2> QED BY <1>2, <2>1, <2>3, <2>4
<1>4. ASSUME NEW t \in Tools
      PROVE  /\ byName'[t] \in Seq(Nat) /\ QueueOK(byName'[t], n)
             /\ \A i \in 1..Len(byName'[t]) : byName'[t][i] # p
             /\ \A x : (\A i \in 1..Len(byName[t]) : byName[t][i] # x) => \A i \in 1..Len(byName'[t]) : byName'[t][i] # x
  <2>1. PICK q \in Seq(Nat) : q = byName[t]
    BY DEF AfcTables
  <2>2. QueueOK(q, n)
    BY <1>1, <2>1 DEF AfcTables
  <2>3. PICK r : r = RemoveFirst(q, p)
    OBVIOUS
  <2>4. /\ r \in Seq(Nat) /\ QueueOK(r, n)
        /\ \A i \in 1..Len(r) : r[i] # p
        /\ \A x : (\A i \in 1..Len(q) : q[i] # x) => \A i \in 1..Len(r) : r[i] # x
    BY <2>2, <2>3, QueueWithout
  <2>5. byName'[t] = r
    BY <1>2, <2>1, <2>3
  <2> QED BY <2>1, <2>4, <2>5
<1>5. byName' \in [Tools -> Seq(Nat)]
  BY <1>2, <1>4
<1>6. AfcTables'
  <2>1. QueueOK(byIndex, Len(calls))' /\ \A t \in Tools : QueueOK(byName[t], Len(calls))'
    BY <1>1, <1>3, <1>4 DEF QueueOK, KeysApart
  <2> QED BY <1>2, <1>3, <1>5, <2>1 DEF AfcTables
<1>7. p \in 1..Len(calls) => PairedOff(p)'
  BY <1>2, <1>3, <1>4 DEF PairedOff
<1>8. ASSUME NEW x, PairedOff(x) PROVE PairedOff(x)'
  <2>1. /\ x \in 1..Len(calls) /\ x \notin byId
        /\ \A i \in 1..Len(byIndex) : byIndex[i] # x
        /\ \A t \in Tools : \A i \in 1..Len(byName[t]) : byName[t][i] # x
    BY <1>8 DEF PairedOff
  <2>2. \A i \in 1..Len(byIndex') : byIndex'[i] # x
    BY <1>3, <2>1
  <2>3. \A t \in Tools : \A i \in 1..Len(byName'[t]) : byName'[t][i] # x
    BY <1>4, <2>1
  <2> QED BY <1>2, <2>1, <2>2, <2>3 DEF PairedOff
<1> QED BY <1>2, <1>6, <1>7, <1>8

(* A new call enters the tables.                                           *)
LEMMA PendKeeps ==
    ASSUME AfcInv, NEW t \in Tools, A!Pend(t), UNCHANGED <<withIds, unpaired, trows>>
    PROVE  AfcInv'
<1>1. PICK n \in Nat : n = Len(calls)
  BY DEF AfcInv, AfcTables
<1>2. PICK cc \in Seq(Tools) : cc = calls
  BY DEF AfcInv, AfcTables
<1>3. calls' \in Seq(Tools) /\ Len(calls') = n + 1
  <2>1. Append(cc, t) \in Seq(Tools)
    BY <1>2
  <2>2. Len(Append(cc, t)) = Len(cc) + 1
    BY <1>2
  <2> QED BY <1>1, <1>2, <2>1, <2>2 DEF A!Pend
<1>4. /\ openCalls' = openCalls \cup {n + 1}
      /\ byId' = IF withIds THEN byId \cup {n + 1} ELSE byId
      /\ byName' = [byName EXCEPT ![t] = Append(byName[t], n + 1)]
      /\ byIndex' = Append(byIndex, n + 1)
  BY <1>1 DEF A!Pend
<1>5. /\ byIndex' \in Seq(Nat) /\ QueueOK(byIndex', n + 1)
      /\ \A x \in 1..n : (\A i \in 1..Len(byIndex) : byIndex[i] # x) => \A i \in 1..Len(byIndex') : byIndex'[i] # x
  <2>1. PICK q \in Seq(Nat) : q = byIndex
    BY DEF AfcInv, AfcTables
  <2>2. QueueOK(q, n)
    BY <1>1, <2>1 DEF AfcInv, AfcTables
  <2>3. PICK r : r = Append(q, n + 1)
    OBVIOUS
  <2>4. /\ r \in Seq(Nat) /\ QueueOK(r, n + 1)
        /\ \A x \in 1..n : (\A i \in 1..Len(q) : q[i] # x) => \A i \in 1..Len(r) : r[i] # x
    BY <2>2, <2>3, QueueWith
  <2> QED BY <1>4, <2>1, <2>3, <2>4
<1>6. ASSUME NEW u \in Tools
      PROVE  /\ byName'[u] \in Seq(Nat) /\ QueueOK(byName'[u], n + 1)
             /\ \A x \in 1..n : (\A i \in 1..Len(byName[u]) : byName[u][i] # x) => \A i \in 1..Len(byName'[u]) : byName'[u][i] # x
  <2>1. PICK q \in Seq(Nat) : q = byName[u]
    BY DEF AfcInv, AfcTables
  <2>2. QueueOK(q, n)
    BY <1>1, <2>1 DEF AfcInv, AfcTables
  <2>3. CASE u = t
    <3>3. PICK r : r = Append(q, n + 1)
      OBVIOUS
    <3>4. /\ r \in Seq(Nat) /\ QueueOK(r, n + 1)
          /\ \A x \in 1..n : (\A i \in 1..Len(q) : q[i] # x) => \A i \in 1..Len(r) : r[i] # x
      BY <2>2, <3>3, QueueWith
    <3>5. byName'[u] = r
      BY <1>4, <2>1, <2>3, <3>3 DEF AfcInv, AfcTables
    <3> QED BY <2>1, <3>4, <3>5
  <2>4. CASE u # t
    <3>1. byName'[u] = q
      BY <1>4, <2>1, <2>4 DEF AfcInv, AfcTables
    <3>2. QueueOK(q, n + 1)
      BY <2>2 DEF QueueOK
    <3> QED BY <2>1, <3>1, <3>2
  <2> QED BY <2>3, <2>4
<1>7. byName' \in [Tools -> Seq(Nat)]
  BY <1>4, <1>6 DEF AfcInv, AfcTables
<1>8. openCalls' \subseteq 1..n + 1 /\ byId' \subseteq 1..n + 1
  <2>1. openCalls \subseteq 1..n /\ byId \subseteq 1..n
    BY <1>1 DEF AfcInv, AfcTables
  <2>2. 1..n \subseteq 1..n + 1 /\ n + 1 \in 1..n + 1
    OBVIOUS
  <2> QED BY <1>4, <2>1, <2>2
<1>9. AfcTables'
  <2>1. QueueOK(byIndex, Len(calls))' /\ \A u \in Tools : QueueOK(byName[u], Len(calls))'
    BY <1>3, <1>5, <1>6 DEF QueueOK, KeysApart
  <2> QED BY <1>3, <1>5, <1>7, <1>8, <2>1 DEF AfcTables
<1>10. ASSUME NEW x, PairedOff(x) PROVE PairedOff(x)'
  <2>1. /\ x \in 1..n /\ x \notin byId
        /\ \A i \in 1..Len(byIndex) : byIndex[i] # x
        /\ \A u \in Tools : \A i \in 1..Len(byName[u]) : byName[u][i] # x
    BY <1>1, <1>10 DEF PairedOff
  <2>2. \A i \in 1..Len(byIndex') : byIndex'[i] # x
    BY <1>5, <2>1
  <2>3. \A u \in Tools : \A i \in 1..Len(byName'[u]) : byName'[u][i] # x
    BY <1>6, <2>1
  <2>4. x \in 1..n + 1 /\ x \notin byId'
    BY <1>4, <2>1
  <2> QED BY <1>3, <2>2, <2>3, <2>4 DEF PairedOff
<1>11. AfcRows'
  <2>1. PICK rr : rr = trows
    OBVIOUS
  <2>2. trows' = rr /\ unpaired' = unpaired /\ withIds' = withIds
    BY <2>1
  <2>3. AfcRows
    BY DEF AfcInv
  <2>4. ASSUME NEW i \in 1..Len(rr)
        PROVE  IF rr[i].paired = 0 THEN rr[i].n \in 1..unpaired ELSE PairedOff(rr[i].paired)'
    BY <1>10, <2>1, <2>3, <2>2 DEF AfcRows
  <2> QED BY <2>1, <2>2, <2>3, <2>4 DEF AfcRows
<1> QED BY <1>4, <1>9, <1>11 DEF AfcInv

(* A response of the history before the turn.                              *)
LEMMA AnswerFacts ==
    ASSUME AfcInv, NEW a \in A!Answers
    PROVE  /\ a[2] \in Tools /\ a[1] \in Nat
           /\ withIds => a[1] \in openCalls /\ A!Match(a[1], a[2]) = a[1]
<1>1. CASE \E c \in openCalls : a = <<c, calls[c]>>
  <2>1. PICK c \in openCalls : a = <<c, calls[c]>>
    BY <1>1
  <2>2. c \in 1..Len(calls) /\ calls[c] \in Tools
    BY DEF AfcInv, AfcTables
  <2> QED BY <2>1, <2>2 DEF A!Match, AfcInv
<1>2. CASE ~withIds /\ a \in {0} \X Tools
  BY <1>2
<1> QED BY <1>1, <1>2 DEF A!Answers

LEMMA PrefixResponseKeeps ==
    ASSUME AfcInv, NEW a \in A!Answers, A!PrefixResponse(a[1], a[2])
    PROVE  AfcInv'
<1>1. PICK p : p = A!Match(a[1], a[2])
  OBVIOUS
<1>2. AfcTables /\ A!Unpend(p) /\ UNCHANGED calls /\ openCalls' \subseteq openCalls
  BY <1>1 DEF A!PrefixResponse, AfcInv
<1>3. /\ AfcTables' /\ byId' = byId \ {p}
      /\ \A x : PairedOff(x) => PairedOff(x)'
  BY <1>2, UnpendKeeps
<1>4. withIds => byId' = openCalls'
  BY <1>1, <1>3, AnswerFacts DEF AfcInv, A!PrefixResponse
<1>5. AfcRows'
  <2>1. PICK rr : rr = trows
    OBVIOUS
  <2>2. trows' = rr /\ unpaired' = unpaired /\ withIds' = withIds
    BY <2>1 DEF A!PrefixResponse
  <2>3. AfcRows
    BY DEF AfcInv
  <2>4. ASSUME NEW i \in 1..Len(rr)
        PROVE  IF rr[i].paired = 0 THEN rr[i].n \in 1..unpaired ELSE PairedOff(rr[i].paired)'
    BY <1>3, <2>1, <2>3, <2>2 DEF AfcRows
  <2> QED BY <2>1, <2>2, <2>3, <2>4 DEF AfcRows
<1> QED BY <1>3, <1>4, <1>5 DEF AfcInv, A!PrefixResponse

(* A response of the turn: its row has an id of its own.                   *)
LEMMA ResponseKeeps ==
    ASSUME AfcInv, NEW a \in A!Answers, A!Response(a[1], a[2])
    PROVE  AfcInv'
<1>1. PICK p : p = A!Match(a[1], a[2])
  OBVIOUS
<1>2. AfcTables /\ A!Unpend(p) /\ UNCHANGED calls /\ openCalls' \subseteq openCalls
  BY <1>1 DEF A!Response, AfcInv
<1>3. /\ AfcTables' /\ byId' = byId \ {p}
      /\ \A x : PairedOff(x) => PairedOff(x)'
      /\ p \in 1..Len(calls) => PairedOff(p)'
  BY <1>2, UnpendKeeps
<1>4. withIds => byId' = openCalls'
  BY <1>1, <1>3, AnswerFacts DEF AfcInv, A!Response
<1>5. p = 0 \/ (p \in 1..Len(calls) /\ ~PairedOff(p))
  BY <1>1, AnswerFacts, MatchPending
<1>6. a[1] \in Nat /\ (withIds => p = a[1]) /\ Len(calls) \in Nat
  BY <1>1, <1>2, AnswerFacts DEF AfcTables
<1>7. PICK m : m = unpaired'
  OBVIOUS
<1>8. unpaired \in Nat /\ m = (IF p = 0 THEN unpaired + 1 ELSE unpaired) /\ m \in Nat
  BY <1>1, <1>7 DEF A!Response, AfcInv, AfcRows
<1>9. PICK row : row = [of |-> a[1], paired |-> p, n |-> m]
  OBVIOUS
<1>10. row \in AfcRow /\ row.of = a[1] /\ row.paired = p /\ row.n = m
  BY <1>5, <1>6, <1>8, <1>9 DEF AfcRow
<1>11. PICK rr \in Seq(AfcRow) : rr = trows
  BY DEF AfcInv, AfcRows
<1>12. PICK ss : ss = Append(rr, row)
  OBVIOUS
<1>13. trows' = ss /\ withIds' = withIds
  BY <1>1, <1>7, <1>9, <1>11, <1>12 DEF A!Response
<1>14. ss \in Seq(AfcRow)
  BY <1>10, <1>12
<1>15. Len(ss) = Len(rr) + 1 /\ Len(rr) \in Nat
  BY <1>12
<1>16. ss[Len(rr) + 1] = row
  BY <1>12
<1>17. \A i \in 1..Len(rr) : ss[i] = rr[i]
  BY <1>12
<1>18. \A i \in 1..Len(ss) : i \in 1..Len(rr) \/ i = Len(rr) + 1
  BY <1>15
<1>19. ASSUME NEW i \in 1..Len(rr)
       PROVE  IF rr[i].paired = 0 THEN rr[i].n \in 1..unpaired ELSE PairedOff(rr[i].paired)
  BY <1>11 DEF AfcInv, AfcRows
<1>20. ASSUME NEW i \in 1..Len(ss)
       PROVE  IF ss[i].paired = 0 THEN ss[i].n \in 1..m ELSE PairedOff(ss[i].paired)'
  <2>1. CASE i \in 1..Len(rr)
    <3>1. ss[i] = rr[i]
      BY <1>17, <2>1
    <3>2. rr[i].paired = 0 => rr[i].n \in 1..m
      BY <1>8, <1>19, <2>1
    <3> QED BY <1>3, <1>19, <2>1, <3>1, <3>2
  <2>2. CASE i = Len(rr) + 1
    <3>1. ss[i] = row
      BY <1>16, <2>2
    <3>2. p = 0 => m \in 1..m
      BY <1>8
    <3> QED BY <1>3, <1>5, <1>10, <3>1, <3>2
  <2> QED BY <1>18, <2>1, <2>2
<1>21. ASSUME withIds, NEW i \in 1..Len(ss) PROVE ss[i].paired = ss[i].of
  <2>1. \A k \in 1..Len(rr) : rr[k].paired = rr[k].of
    BY <1>11, <1>21 DEF AfcInv, AfcRows
  <2> QED BY <1>6, <1>10, <1>16, <1>17, <1>18, <1>21, <2>1
<1>22. ASSUME NEW i \in 1..Len(rr)
       PROVE  rr[i].paired # p \/ (p = 0 /\ rr[i].n # m)
  <2>1. CASE p = 0 /\ rr[i].paired = 0
    <3>1. rr[i].n \in 1..unpaired /\ m = unpaired + 1
      BY <1>8, <1>19, <2>1
    <3> QED BY <1>8, <2>1, <3>1
  <2>2. CASE p # 0
    BY <1>5, <1>19, <2>2
  <2> QED BY <2>1, <2>2
<1>23. ASSUME NEW i \in 1..Len(ss), NEW j \in 1..Len(ss), i # j
       PROVE  \/ ss[i].paired # ss[j].paired
              \/ ss[i].paired = 0 /\ ss[i].n # ss[j].n
  <2>1. CASE i \in 1..Len(rr) /\ j \in 1..Len(rr)
    <3>1. ss[i] = rr[i] /\ ss[j] = rr[j]
      BY <1>17, <2>1
    <3>2. \/ rr[i].paired # rr[j].paired
          \/ rr[i].paired = 0 /\ rr[i].n # rr[j].n
      BY <1>11, <1>23, <2>1 DEF AfcInv, AfcRows
    <3> QED BY <3>1, <3>2
  <2>2. CASE i \in 1..Len(rr) /\ j = Len(rr) + 1
    <3>1. ss[i] = rr[i] /\ ss[j] = row
      BY <1>16, <1>17, <2>2
    <3> QED BY <1>10, <1>22, <2>2, <3>1
  <2>3. CASE j \in 1..Len(rr) /\ i = Len(rr) + 1
    <3>1. ss[j] = rr[j] /\ ss[i] = row
      BY <1>16, <1>17, <2>3
    <3> QED BY <1>10, <1>22, <2>3, <3>1
  <2> QED BY <1>18, <1>23, <2>1, <2>2, <2>3
<1>24. AfcRows'
  <2>1. unpaired' \in Nat /\ trows' \in Seq(AfcRow)
    BY <1>7, <1>8, <1>13, <1>14
  <2>2. \A i \in 1..Len(ss) :
          IF ss[i].paired = 0 THEN ss[i].n \in 1..m ELSE PairedOff(ss[i].paired)'
    BY <1>20
  <2>3. withIds => \A i \in 1..Len(ss) : ss[i].paired = ss[i].of
    BY <1>21
  <2>4. \A i, j \in 1..Len(ss) :
          i # j => \/ ss[i].paired # ss[j].paired
                   \/ ss[i].paired = 0 /\ ss[i].n # ss[j].n
    BY <1>23
  <2> QED BY <1>7, <1>13, <2>1, <2>2, <2>3, <2>4 DEF AfcRows
<1> QED BY <1>3, <1>4, <1>24, <1>13 DEF AfcInv

LEMMA AfcNextKeeps == AfcInv /\ [A!AfcNext]_afcvars => AfcInv'
<1> SUFFICES ASSUME AfcInv, [A!AfcNext]_afcvars PROVE AfcInv'
  OBVIOUS
<1>1. CASE UNCHANGED afcvars
  <2>1. AfcTables' = AfcTables
    BY <1>1 DEF afcvars, AfcTables, QueueOK, KeysApart
  <2>2. AfcRows' = AfcRows
    BY <1>1 DEF afcvars, AfcRows, PairedOff
  <2> QED BY <1>1, <2>1, <2>2 DEF afcvars, AfcInv
<1>2. ASSUME NEW t \in Tools, A!PrefixCall(t) \/ A!Call(t) PROVE AfcInv'
  BY <1>2, PendKeeps DEF A!PrefixCall, A!Call
<1>3. ASSUME NEW a \in A!Answers, A!PrefixResponse(a[1], a[2]) \/ A!Response(a[1], a[2]) PROVE AfcInv'
  BY <1>3, PrefixResponseKeeps, ResponseKeeps
<1>4. CASE A!TurnStarts
  <2>1. UNCHANGED <<withIds, calls, openCalls, byId, byName, byIndex, fromPrefix, unpaired, trows, crossed>>
    BY <1>4 DEF A!TurnStarts
  <2>2. AfcTables'
    BY <2>1 DEF AfcInv, AfcTables, QueueOK, KeysApart
  <2>3. \A x : PairedOff(x) => PairedOff(x)'
    BY <2>1 DEF PairedOff
  <2>4. AfcRows'
    BY <2>1, <2>3 DEF AfcInv, AfcRows
  <2> QED BY <2>1, <2>2, <2>4 DEF AfcInv
<1> QED BY <1>1, <1>2, <1>3, <1>4 DEF A!AfcNext

LEMMA AfcIs == AfcInv => A!IdsPairExactly /\ A!ResultIdsDistinct
<1> SUFFICES ASSUME AfcInv PROVE A!IdsPairExactly /\ A!ResultIdsDistinct
  OBVIOUS
<1>1. DOMAIN trows = 1..Len(trows)
  BY DEF AfcInv, AfcRows
<1> QED BY <1>1 DEF AfcInv, AfcRows, A!IdsPairExactly, A!ResultIdsDistinct

-----------------------------------------------------------------------------
(* The tool calls and outputs of a streamed OpenAI run.                    *)

StreamCall == [tool : StreamTools, id : BOOLEAN]
TraceRow == [call : Nat, under : Nat, tool : StreamTools \cup {"unknown"}]
PendingSynth ==
    \A c : (\E i \in 1..Len(synth) : synth[i] = c) <=> c \in startTimes /\ ~callsMade[c].id
StreamInv ==
    /\ callsMade \in Seq(StreamCall) /\ answeredCalls \subseteq 1..Len(callsMade)
    /\ startTimes = 1..Len(callsMade) \ answeredCalls
    /\ synth \in Seq(Nat) /\ Ascending(synth) /\ PendingSynth
    /\ traced \in Seq(TraceRow)
    /\ \A k \in 1..Len(traced) : traced[k].under = traced[k].call

LEMMA StreamStarts == O!StreamInit => StreamInv
BY DEF O!StreamInit, StreamInv, PendingSynth, Ascending

LEMMA StreamRemoves == \A q, p : O!RemoveFirst(q, p) = RemoveFirst(q, p)
BY DEF RemoveFirst, O!RemoveFirst, RemoveAt, O!RemoveAt, SelectInSeq, O!SelectInSeq, Min, O!Min

(* A tool call.                                                            *)
LEMMA ToolCallKeeps ==
    ASSUME StreamInv, NEW t \in StreamTools, NEW withId \in BOOLEAN, O!ToolCall(t, withId)
    PROVE  StreamInv'
<1>1. PICK cs \in Seq(StreamCall) : cs = callsMade
  BY DEF StreamInv
<1>2. PICK n \in Nat : n = Len(cs)
  OBVIOUS
<1>3. PICK x \in StreamCall : x = [tool |-> t, id |-> withId]
  BY DEF StreamCall
<1>4. PICK ds : ds = Append(cs, x)
  OBVIOUS
<1>5. /\ callsMade' = ds /\ startTimes' = startTimes \cup {n + 1}
      /\ synth' = IF withId THEN synth ELSE Append(synth, n + 1)
      /\ UNCHANGED <<answeredCalls, traced>>
  BY <1>1, <1>2, <1>3, <1>4 DEF O!ToolCall
<1>6. ds \in Seq(StreamCall)
  BY <1>4
<1>7. Len(ds) = n + 1
  BY <1>2, <1>4
<1>8. ds[n + 1] = x
  BY <1>2, <1>4
<1>9. \A i \in 1..n : ds[i] = cs[i]
  BY <1>2, <1>4
<1>10. answeredCalls \subseteq 1..n /\ startTimes = 1..n \ answeredCalls
  BY <1>1, <1>2 DEF StreamInv
<1>11. answeredCalls \subseteq 1..n + 1 /\ startTimes' = 1..n + 1 \ answeredCalls
  <2>1. 1..n + 1 = 1..n \cup {n + 1} /\ n + 1 \notin 1..n
    OBVIOUS
  <2> QED BY <1>5, <1>10, <2>1
<1>12. PICK q \in Seq(Nat) : q = synth
  BY DEF StreamInv
<1>13. Ascending(q) /\ \A c : (\E i \in 1..Len(q) : q[i] = c) <=> c \in startTimes /\ ~cs[c].id
  BY <1>1, <1>12 DEF StreamInv, PendingSynth
<1>14. \A c \in startTimes : c \in 1..n /\ ds[c] = cs[c]
  BY <1>9, <1>10
<1>15. n + 1 \notin startTimes
  BY <1>10
<1>16. CASE withId
  <2>1. synth' = q /\ x.id
    BY <1>3, <1>5, <1>12, <1>16
  <2>2. ASSUME NEW c PROVE (\E i \in 1..Len(q) : q[i] = c) <=> c \in startTimes' /\ ~ds[c].id
    <3>1. CASE c = n + 1
      BY <1>8, <1>13, <1>15, <2>1, <3>1
    <3>2. CASE c # n + 1
      BY <1>5, <1>13, <1>14, <3>2
    <3> QED BY <3>1, <3>2
  <2>3. PendingSynth'
    BY <1>5, <2>1, <2>2 DEF PendingSynth
  <2>4. synth' \in Seq(Nat) /\ Ascending(synth)'
    BY <1>12, <1>13, <2>1 DEF Ascending
  <2> QED BY <1>5, <1>6, <1>7, <1>11, <2>3, <2>4 DEF StreamInv
<1>17. CASE ~withId
  <2>0. n + 1 \in Nat
    OBVIOUS
  <2>1. Append(q, n + 1) \in Seq(Nat)
    BY <2>0
  <2>2. PICK r \in Seq(Nat) : r = Append(q, n + 1)
    BY <2>1
  <2>3. Len(r) = Len(q) + 1 /\ Len(q) \in Nat
    BY <2>2
  <2>4. r[Len(q) + 1] = n + 1
    BY <2>2
  <2>5. \A i \in 1..Len(q) : r[i] = q[i]
    BY <2>2
  <2>6. synth' = r /\ ~x.id
    BY <1>3, <1>5, <1>12, <1>17, <2>2
  <2>7. \A i \in 1..Len(r) : i \in 1..Len(q) \/ i = Len(q) + 1
    BY <2>3
  <2>8. \A i \in 1..Len(q) : q[i] \in 1..n
    BY <1>13, <1>14
  <2>9. Ascending(r)
    <3> SUFFICES ASSUME NEW i \in 1..Len(r), NEW j \in 1..Len(r), i < j PROVE r[i] < r[j]
      BY DEF Ascending
    <3>1. i \in 1..Len(q)
      BY <2>3
    <3>2. CASE j \in 1..Len(q)
      BY <1>13, <2>5, <3>1, <3>2 DEF Ascending
    <3>3. CASE j = Len(q) + 1
      <4>1. r[i] \in 1..n /\ r[j] = n + 1
        BY <2>4, <2>5, <2>8, <3>1, <3>3
      <4> QED BY <4>1
    <3> QED BY <2>7, <3>2, <3>3
  <2>10. ASSUME NEW c PROVE (\E i \in 1..Len(r) : r[i] = c) <=> c \in startTimes' /\ ~ds[c].id
    <3>1. CASE c = n + 1
      <4>1. Len(q) + 1 \in 1..Len(r)
        BY <2>3
      <4> QED BY <1>5, <1>8, <2>4, <2>6, <3>1, <4>1
    <3>2. CASE c # n + 1
      <4>1. (\E i \in 1..Len(r) : r[i] = c) <=> (\E i \in 1..Len(q) : q[i] = c)
        <5>1. ASSUME NEW i \in 1..Len(r), r[i] = c PROVE \E k \in 1..Len(q) : q[k] = c
          BY <2>4, <2>5, <2>7, <3>2, <5>1
        <5>2. ASSUME NEW i \in 1..Len(q), q[i] = c PROVE \E k \in 1..Len(r) : r[k] = c
          <6>1. i \in 1..Len(r)
            BY <2>3
          <6> QED BY <2>5, <5>2, <6>1
        <5> QED BY <5>1, <5>2
      <4> QED BY <1>5, <1>13, <1>14, <3>2, <4>1
    <3> QED BY <3>1, <3>2
  <2>11. PendingSynth'
    BY <1>5, <2>6, <2>10 DEF PendingSynth
  <2>12. synth' \in Seq(Nat) /\ Ascending(synth)'
    BY <2>6, <2>9 DEF Ascending
  <2> QED BY <1>5, <1>6, <1>7, <1>11, <2>11, <2>12 DEF StreamInv
<1> QED BY <1>16, <1>17

(* An output: the made-up ids are given back in the order of the calls.    *)
LEMMA ToolOutputKeeps ==
    ASSUME StreamInv, NEW c \in 1..MaxCalls, O!ToolOutput(c)
    PROVE  StreamInv'
<1>1. PICK cs \in Seq(StreamCall) : cs = callsMade
  BY DEF StreamInv
<1>2. PICK n \in Nat : n = Len(cs)
  OBVIOUS
<1>3. /\ c \in 1..n /\ c \notin answeredCalls
      /\ ~cs[c].id => \A d \in 1..(c - 1) : cs[d].id \/ d \in answeredCalls
      /\ answeredCalls' = answeredCalls \cup {c}
  BY <1>1, <1>2 DEF O!ToolOutput
<1>4. PICK q \in Seq(Nat) : q = synth
  BY DEF StreamInv
<1>5. Ascending(q) /\ \A d : (\E i \in 1..Len(q) : q[i] = d) <=> d \in startTimes /\ ~cs[d].id
  BY <1>1, <1>4 DEF StreamInv, PendingSynth
<1>6. answeredCalls \subseteq 1..n /\ startTimes = 1..n \ answeredCalls
  BY <1>1, <1>2 DEF StreamInv
<1>7. c \in startTimes
  BY <1>3, <1>6
<1>8. O!CallOf(c) = c
  <2>1. CASE cs[c].id
    BY <1>1, <2>1 DEF O!CallOf
  <2>2. CASE ~cs[c].id
    <3>1. PICK i \in 1..Len(q) : q[i] = c
      BY <1>5, <1>7, <2>2
    <3>2. q # <<>> /\ 1 \in 1..Len(q) /\ Head(q) = q[1]
      BY <3>1
    <3>3. q[1] \in startTimes /\ ~cs[q[1]].id
      BY <1>5, <3>2
    <3>4. q[1] \in 1..n /\ q[1] \notin answeredCalls
      BY <1>6, <3>3
    <3>5. ~(q[1] \in 1..(c - 1))
      BY <1>3, <2>2, <3>3, <3>4
    <3>6. q[1] >= c
      BY <1>3, <3>4, <3>5
    <3>7. i = 1
      <4>1. CASE 1 < i
        <5>1. q[1] < q[i]
          BY <1>5, <3>2, <4>1 DEF Ascending
        <5> QED BY <1>3, <3>1, <3>4, <3>6, <5>1
      <4> QED BY <4>1
    <3> QED BY <1>1, <1>4, <2>2, <3>1, <3>2, <3>7 DEF O!CallOf
  <2> QED BY <2>1, <2>2
<1>9. PICK r : r = RemoveFirst(q, c)
  OBVIOUS
<1>10. r \in Seq(Nat) /\ Ascending(r) /\ OnlyLost(r, q, c)
  BY <1>5, <1>9, AscendingRemoved
<1>11. PICK row : row = [call |-> c, under |-> c, tool |-> cs[c].tool]
  OBVIOUS
<1>12. row \in TraceRow /\ row.under = row.call
  <2>1. cs[c] \in StreamCall
    BY <1>2, <1>3
  <2>2. cs[c].tool \in StreamTools
    BY <2>1 DEF StreamCall
  <2>3. c \in Nat
    BY <1>3
  <2> QED BY <1>11, <2>2, <2>3 DEF TraceRow
<1>13. c # 0
  BY <1>3
<1>14. /\ synth' = r /\ startTimes' = startTimes \ {c} /\ UNCHANGED callsMade
       /\ traced' = Append(traced, row)
  BY <1>1, <1>4, <1>8, <1>9, <1>11, <1>13, StreamRemoves DEF O!ToolOutput, O!Unknown
<1>15. startTimes' = 1..n \ answeredCalls' /\ answeredCalls' \subseteq 1..n
  BY <1>3, <1>6, <1>14
<1>16. PendingSynth'
  <2>1. ASSUME NEW d PROVE (\E i \in 1..Len(r) : r[i] = d) <=> d \in startTimes' /\ ~cs[d].id
    BY <1>5, <1>10, <1>14 DEF OnlyLost
  <2> QED BY <1>1, <1>14, <2>1 DEF PendingSynth
<1>17. traced' \in Seq(TraceRow) /\ \A k \in 1..Len(traced') : traced'[k].under = traced'[k].call
  <2>1. PICK tr \in Seq(TraceRow) : tr = traced
    BY DEF StreamInv
  <2>2. PICK ur : ur = Append(tr, row)
    OBVIOUS
  <2>3. ur \in Seq(TraceRow)
    BY <1>12, <2>2
  <2>4. Len(ur) = Len(tr) + 1
    BY <2>2
  <2>5. ur[Len(tr) + 1] = row
    BY <2>2
  <2>6. \A k \in 1..Len(tr) : ur[k] = tr[k] /\ tr[k].under = tr[k].call
    BY <2>1, <2>2 DEF StreamInv
  <2>7. \A k \in 1..Len(ur) : k \in 1..Len(tr) \/ k = Len(tr) + 1
    BY <2>4
  <2>8. \A k \in 1..Len(ur) : ur[k].under = ur[k].call
    BY <1>12, <2>5, <2>6, <2>7
  <2> QED BY <1>14, <2>1, <2>2, <2>3, <2>8
<1>18. synth' \in Seq(Nat) /\ Ascending(synth)'
  BY <1>10, <1>14 DEF Ascending
<1> QED BY <1>1, <1>2, <1>14, <1>15, <1>16, <1>17, <1>18 DEF StreamInv

LEMMA StreamNextKeeps == StreamInv /\ [O!StreamNext]_oasvars => StreamInv'
<1> SUFFICES ASSUME StreamInv, [O!StreamNext]_oasvars PROVE StreamInv'
  OBVIOUS
<1>1. CASE UNCHANGED <<callsMade, synth, startTimes, answeredCalls, traced>>
  BY <1>1 DEF StreamInv, PendingSynth, Ascending
<1>2. CASE O!Chunk \/ O!RunFails \/ \E u \in Usages : O!Usage(u)
  BY <1>1, <1>2 DEF O!Chunk, O!RunFails, O!Usage
<1>3. CASE \E final \in O!Finals : O!RunEnds(final)
  BY <1>1, <1>3 DEF O!RunEnds
<1>4. CASE UNCHANGED oasvars
  BY <1>1, <1>4 DEF oasvars
<1> QED BY <1>2, <1>3, <1>4, ToolCallKeeps, ToolOutputKeeps DEF O!StreamNext

LEMMA StreamIs == StreamInv => O!ResultsPaired
<1> SUFFICES ASSUME StreamInv PROVE O!ResultsPaired
  OBVIOUS
<1>1. DOMAIN traced = 1..Len(traced) /\ DOMAIN synth = 1..Len(synth)
  BY DEF StreamInv
<1>2. O!ToSet(synth) = {c \in startTimes : ~callsMade[c].id}
  BY <1>1 DEF StreamInv, PendingSynth, O!ToSet
<1> QED BY <1>1, <1>2 DEF StreamInv, O!ResultsPaired

-----------------------------------------------------------------------------
(* What is kept of a gemini history.                                       *)

Hist == [role : {"user", "model"}, resp : BOOLEAN, size : Sizes \cup {1}]

LEMMA FirstPlace ==
    ASSUME NEW places, places \subseteq Nat, places # {}
    PROVE  H!Min(places) \in places
<1>1. \E x \in places : \A y \in places : x <= y
  BY LeastNumber
<1> QED BY <1>1 DEF H!Min

LEMMA SafeFromFacts ==
    ASSUME NEW h \in Seq(Hist), NEW k \in Nat \ {0}, NEW s, s = H!SafeFrom(h, k)
    PROVE  s = 0 \/ (s \in k..Len(h) /\ H!SafeHead(h[s]))
<1>1. PICK places : places = {i \in k..Len(h) : H!SafeHead(h[i])}
  OBVIOUS
<1>2. places \subseteq Nat
  BY <1>1
<1>3. s = IF places = {} THEN 0 ELSE H!Min(places)
  BY <1>1 DEF H!SafeFrom
<1> QED BY <1>1, <1>2, <1>3, FirstPlace

LEMMA UserFromFacts ==
    ASSUME NEW h \in Seq(Hist), NEW k \in Nat \ {0}, NEW s, s = H!UserFrom(h, k)
    PROVE  /\ s = 0 \/ s \in k..Len(h)
           /\ s = 0 <=> \A i \in k..Len(h) : h[i].role # "user"
<1>1. PICK places : places = {i \in k..Len(h) : h[i].role = "user"}
  OBVIOUS
<1>2. places \subseteq Nat
  BY <1>1
<1>3. s = IF places = {} THEN 0 ELSE H!Min(places)
  BY <1>1 DEF H!UserFrom
<1>4. places # {} => s \in places
  BY <1>2, <1>3, FirstPlace
<1>5. \A i \in places : i # 0 /\ i \in k..Len(h) /\ h[i].role = "user"
  BY <1>1
<1>6. CASE places = {}
  BY <1>1, <1>3, <1>6
<1>7. CASE places # {}
  BY <1>1, <1>4, <1>5, <1>7
<1> QED BY <1>6, <1>7

(* Where the byte cap cuts: at the start or at a boundary, unless it had   *)
(* to split, and only where the rest fits or cannot be divided.            *)
CutAt(h, i, v) ==
    /\ ~v.forced => v.from = i \/ H!SafeHead(h[v.from])
    /\ H!Bytes(H!From(h, v.from)) <= MaxBytes \/ H!UserFrom(h, v.from + 1) = 0

LEMMA ByteCapCuts ==
    ASSUME NEW h \in Seq(Hist), h # <<>>
    PROVE  \E v \in [from : 1..Len(h), forced : BOOLEAN] :
              CutAt(h, 1, v) /\ H!ByteCap(h) = [raw |-> H!From(h, v.from), forced |-> v.forced]
<1>1. PICK N \in Nat : N = Len(h) /\ DOMAIN h = 1..N /\ N # 0
  OBVIOUS
<1> DEFINE Cut == [from : 1..N, forced : BOOLEAN]
           safe(i) == H!SafeFrom(h, i + 1)
           user(i) == H!UserFrom(h, i + 1)
           fits(i) == H!Bytes(H!From(h, i)) <= MaxBytes \/ i = N
           body(f, i) == IF fits(i) THEN [from |-> i, forced |-> FALSE]
                         ELSE IF safe(i) # 0 THEN f[safe(i)]
                         ELSE IF user(i) # 0 THEN [f[user(i)] EXCEPT !.forced = TRUE]
                         ELSE [from |-> i, forced |-> FALSE]
           keep[i \in 1..N] == body(keep, i)
<1>2. \A i \in 1..N : /\ safe(i) = 0 \/ (safe(i) \in i + 1..N /\ H!SafeHead(h[safe(i)]))
                      /\ user(i) = 0 \/ user(i) \in i + 1..N
  <2> SUFFICES ASSUME NEW i \in 1..N
               PROVE  /\ safe(i) = 0 \/ (safe(i) \in i + 1..N /\ H!SafeHead(h[safe(i)]))
                      /\ user(i) = 0 \/ user(i) \in i + 1..N
    OBVIOUS
  <2>1. i + 1 \in Nat \ {0}
    OBVIOUS
  <2> QED BY <1>1, <2>1, SafeFromFacts, UserFromFacts
<1> HIDE DEF safe, user, fits
<1>3. PICK next : next = [i \in 1..N |-> IF fits(i) THEN 0 ELSE IF safe(i) # 0 THEN safe(i) ELSE user(i)]
  OBVIOUS
<1>4. PICK base : base = [i \in 1..N |-> [from |-> i, forced |-> FALSE]]
  OBVIOUS
<1>5. PICK upd : upd = [i \in 1..N |-> [v \in Cut |-> IF safe(i) # 0 THEN v ELSE [v EXCEPT !.forced = TRUE]]]
  OBVIOUS
<1>6. GoesOn(N, Cut, next, base, upd)
  <2> SUFFICES ASSUME NEW i \in 1..N
               PROVE  /\ next[i] = 0 \/ next[i] \in i + 1..N
                      /\ base[i] \in Cut /\ \A v \in Cut : upd[i][v] \in Cut
    BY DEF GoesOn
  <2>1. next[i] = 0 \/ next[i] \in i + 1..N
    BY <1>2, <1>3
  <2>2. base[i] \in Cut
    BY <1>4
  <2>3. ASSUME NEW v \in Cut PROVE upd[i][v] \in Cut
    <3>1. [v EXCEPT !.forced = TRUE] \in Cut
      OBVIOUS
    <3> QED BY <1>5, <3>1
  <2> QED BY <2>1, <2>2, <2>3
<1>7. PICK V : V = Cut
  OBVIOUS
<1>8. PICK f \in [1..N -> V] : RunsDown(f, N, next, base, upd)
  BY <1>6, <1>7, RunsDownExists
<1>9. ASSUME NEW i \in 1..N PROVE f[i] = body(f, i)
  <2>1. f[i] = IF next[i] = 0 THEN base[i] ELSE upd[i][f[next[i]]]
    BY <1>8 DEF RunsDown
  <2>2. next[i] # 0 => f[next[i]] \in Cut
    <3>1. next[i] # 0 => next[i] \in 1..N
      BY <1>2, <1>3
    <3>2. next[i] # 0 => f[next[i]] \in V
      BY <3>1
    <3> QED BY <1>7, <3>2
  <2>3. CASE fits(i)
    BY <1>3, <1>4, <2>1, <2>3
  <2>4. CASE ~fits(i) /\ safe(i) # 0
    BY <1>3, <1>5, <2>1, <2>2, <2>4
  <2>5. CASE ~fits(i) /\ safe(i) = 0 /\ user(i) # 0
    <3>1. PICK w \in Cut : w = f[user(i)]
      BY <1>3, <2>2, <2>5
    <3>2. f[i] = upd[i][w]
      BY <1>3, <2>1, <2>5, <3>1
    <3>3. upd[i][w] = [w EXCEPT !.forced = TRUE]
      BY <1>5, <2>5
    <3> QED BY <2>5, <3>1, <3>2, <3>3
  <2>6. CASE ~fits(i) /\ safe(i) = 0 /\ user(i) = 0
    BY <1>3, <1>4, <2>1, <2>6
  <2> QED BY <2>3, <2>4, <2>5, <2>6
<1>10. f = [i \in 1..N |-> body(f, i)]
  BY <1>8, <1>9
<1>11. keep = [i \in 1..N |-> body(keep, i)]
  BY <1>10
<1>12. H!ByteCap(h) = [raw |-> H!From(h, keep[1].from), forced |-> keep[1].forced]
  BY <1>1 DEF H!ByteCap, safe, user, fits
<1> HIDE DEF keep
<1>13. PICK kp : kp = keep
  OBVIOUS
<1>14. \A i \in 1..N : kp[i] = body(kp, i)
  BY <1>11, <1>13
<1> DEFINE Good == {i \in 1..N : kp[i] \in Cut /\ CutAt(h, i, kp[i])}
<1>15. ASSUME NEW i \in 1..N, \A j \in i + 1..N : j \in Good PROVE i \in Good
  <2>1. CASE fits(i)
    <3>1. kp[i] = [from |-> i, forced |-> FALSE]
      BY <1>14, <2>1
    <3>2. i = N => H!UserFrom(h, i + 1) = 0
      <4>1. i = N => \A j \in i + 1..Len(h) : h[j].role # "user"
        BY <1>1
      <4>2. i + 1 \in Nat \ {0}
        OBVIOUS
      <4> QED BY <4>1, <4>2, UserFromFacts
    <3>3. kp[i] \in Cut /\ kp[i].from = i
      BY <3>1
    <3>4. H!Bytes(H!From(h, i)) <= MaxBytes \/ H!UserFrom(h, i + 1) = 0
      BY <2>1, <3>2 DEF fits
    <3> QED BY <3>3, <3>4 DEF CutAt
  <2>2. CASE ~fits(i) /\ safe(i) # 0
    <3>1. kp[i] = kp[safe(i)] /\ safe(i) \in i + 1..N /\ H!SafeHead(h[safe(i)])
      BY <1>2, <1>14, <2>2
    <3>2. kp[safe(i)] \in Cut /\ CutAt(h, safe(i), kp[safe(i)])
      BY <1>15, <3>1
    <3> QED BY <3>1, <3>2 DEF CutAt
  <2>3. CASE ~fits(i) /\ safe(i) = 0 /\ user(i) # 0
    <3>1. kp[i] = [kp[user(i)] EXCEPT !.forced = TRUE] /\ user(i) \in i + 1..N
      BY <1>2, <1>14, <2>3
    <3>2. kp[user(i)] \in Cut /\ CutAt(h, user(i), kp[user(i)])
      BY <1>15, <3>1
    <3>3. kp[i] \in Cut /\ kp[i].forced = TRUE /\ kp[i].from = kp[user(i)].from
      BY <3>1, <3>2
    <3> QED BY <3>2, <3>3 DEF CutAt
  <2>4. CASE ~fits(i) /\ safe(i) = 0 /\ user(i) = 0
    <3>1. kp[i] = [from |-> i, forced |-> FALSE]
      BY <1>14, <2>4
    <3>2. kp[i] \in Cut /\ kp[i].from = i
      BY <3>1
    <3>3. H!UserFrom(h, i + 1) = 0
      BY <2>4 DEF user
    <3> QED BY <3>2, <3>3 DEF CutAt
  <2> QED BY <2>1, <2>2, <2>3, <2>4
<1>16. 1..N \subseteq Good
  <2> HIDE DEF Good
  <2> QED BY <1>15, DownTo
<1>17. 1 \in Good
  BY <1>1, <1>16
<1> QED BY <1>1, <1>12, <1>13, <1>17

(* A cut keeps the end of the history, and what is left of it can be       *)
(* divided no better than the history was.                                 *)
LEMMA CutKeepsEnd ==
    ASSUME NEW h \in Seq(Hist), NEW k \in 1..Len(h), NEW r, r = H!From(h, k)
    PROVE  /\ r \in Seq(Hist) /\ r # <<>> /\ H!Last(r) = H!Last(h) /\ r[1] = h[k]
           /\ H!UserFrom(h, k + 1) = 0 => H!UserFrom(r, 2) = 0
<1>1. /\ r \in Seq(Hist) /\ Len(r) = Len(h) - k + 1
      /\ \A i \in 1..Len(r) : k + i - 1 \in 1..Len(h) /\ r[i] = h[k + i - 1]
  BY RestOf DEF H!From
<1>2. Len(r) \in 1..Len(h) /\ 1 \in 1..Len(r)
  BY <1>1
<1>3. r # <<>> /\ r[1] = h[k]
  BY <1>1, <1>2
<1>4. r[Len(r)] = h[Len(h)]
  <2>1. k + Len(r) - 1 = Len(h)
    BY <1>1
  <2> QED BY <1>1, <1>2, <2>1
<1>5. H!Last(r) = H!Last(h)
  BY <1>4 DEF H!Last
<1>6. ASSUME H!UserFrom(h, k + 1) = 0 PROVE H!UserFrom(r, 2) = 0
  <2>1. k + 1 \in Nat \ {0} /\ 2 \in Nat \ {0}
    OBVIOUS
  <2>2. \A i \in k + 1..Len(h) : h[i].role # "user"
    BY <1>6, <2>1, UserFromFacts
  <2>3. ASSUME NEW i \in 2..Len(r) PROVE r[i].role # "user"
    <3>1. i \in 1..Len(r) /\ k + i - 1 \in k + 1..Len(h)
      BY <1>1, <1>2
    <3> QED BY <1>1, <2>2, <3>1
  <2>4. r \in Seq(Hist)
    BY <1>1
  <2> QED BY <2>1, <2>3, <2>4, UserFromFacts
<1> QED BY <1>1, <1>3, <1>5, <1>6

TrimInv ==
    /\ raw \in Seq(Hist) /\ forced \in BOOLEAN
    /\ H!ResumableUnlessForced /\ H!NeverWiped /\ H!WithinBytes

LEMMA TrimStarts == H!TrimInit => TrimInv
<1> SUFFICES ASSUME H!TrimInit PROVE TrimInv
  OBVIOUS
<1>1. raw = <<>> /\ saves = 0 /\ forced = FALSE
  BY DEF H!TrimInit
<1>2. raw \in Seq(Hist) /\ 2 \in Nat \ {0}
  BY <1>1
<1>3. \A i \in 2..Len(raw) : raw[i].role # "user"
  BY <1>1
<1>4. H!UserFrom(raw, 2) = 0
  BY <1>2, <1>3, UserFromFacts
<1>5. H!ResumableUnlessForced
  BY <1>1 DEF H!ResumableUnlessForced
<1>6. H!NeverWiped
  BY <1>1 DEF H!NeverWiped
<1>7. H!WithinBytes
  BY <1>4 DEF H!WithinBytes
<1>8. forced \in BOOLEAN
  BY <1>1
<1> QED BY <1>2, <1>5, <1>6, <1>7, <1>8 DEF TrimInv

(* The turn cap keeps a history that can be resumed, with its end.         *)
LEMMA TurnCapKeeps ==
    ASSUME NEW h \in Seq(Hist), h # <<>>, H!SafeHead(h[1]), MaxTurns \in Nat, NEW r, r = H!TurnCap(h)
    PROVE  r \in Seq(Hist) /\ r # <<>> /\ H!SafeHead(r[1]) /\ H!Last(r) = H!Last(h)
<1>1. PICK k : k = H!SafeFrom(h, Len(h) - MaxTurns + 1)
  OBVIOUS
<1>2. CASE r = h
  BY <1>2
<1>3. CASE Len(h) > MaxTurns /\ k # 0 /\ r = H!From(h, k)
  <2>1. Len(h) - MaxTurns + 1 \in Nat \ {0}
    BY <1>3
  <2>2. k \in Len(h) - MaxTurns + 1..Len(h) /\ H!SafeHead(h[k])
    BY <1>1, <1>3, <2>1, SafeFromFacts
  <2>3. k \in 1..Len(h)
    BY <2>1, <2>2
  <2> QED BY <1>3, <2>2, <2>3, CutKeepsEnd
<1> QED BY <1>1, <1>2, <1>3 DEF H!TurnCap

(* A turn adds to a history that can be resumed, and saves it.             *)
LEMMA TurnKeeps ==
    ASSUME TrimInv, NEW n \in 0..3, NEW size \in Sizes, H!Turn(n, size)
    PROVE  TrimInv'
<1>1. PICK start : start = IF raw # <<>> /\ ~H!SafeHead(raw[1]) THEN <<>> ELSE raw
  OBVIOUS
<1>2. start \in Seq(Hist)
  BY <1>1 DEF TrimInv
<1>3. start = <<>> \/ H!SafeHead(start[1])
  BY <1>1
<1>4. PICK first : first = H!Entry("user", FALSE, 1)
  OBVIOUS
<1>5. first \in Hist /\ H!SafeHead(first)
  BY <1>4 DEF H!Entry, Hist, H!SafeHead
<1>6. PICK answer : answer = H!Entry("model", FALSE, 1)
  OBVIOUS
<1>7. answer \in Hist
  BY <1>6 DEF H!Entry, Hist
<1>8. PICK tools : tools = [i \in 1..(2 * n) |-> IF i % 2 = 1 THEN H!Entry("model", FALSE, 1) ELSE H!Entry("user", TRUE, size)]
  OBVIOUS
<1>9. tools \in Seq(Hist)
  <2>1. H!Entry("model", FALSE, 1) \in Hist /\ H!Entry("user", TRUE, size) \in Hist
    BY DEF H!Entry, Hist
  <2>2. PICK m, e \in Hist : m = H!Entry("model", FALSE, 1) /\ e = H!Entry("user", TRUE, size)
    BY <2>1
  <2>3. PICK len \in Nat : len = 2 * n
    OBVIOUS
  <2>4. tools = [i \in 1..len |-> IF i % 2 = 1 THEN m ELSE e]
    BY <1>8, <2>2, <2>3
  <2>5. \A i \in 1..len : (IF i % 2 = 1 THEN m ELSE e) \in Hist
    BY <2>2
  <2>6. tools \in [1..len -> Hist]
    BY <2>4, <2>5, Zenon
  <2> QED BY <2>3, <2>6
<1>10. PICK a : a = start \o <<first>>
  OBVIOUS
<1>11. <<first>> \in Seq(Hist) /\ Len(<<first>>) = 1 /\ <<first>>[1] = first
  BY <1>5
<1>12. a \in Seq(Hist) /\ Len(a) = Len(start) + 1
  BY <1>2, <1>10, <1>11, Joined
<1>13. (\A i \in 1..Len(start) : a[i] = start[i]) /\ a[Len(start) + 1] = first
  <2>1. PICK u \in Seq(Hist) : u = <<first>>
    BY <1>11
  <2>2. /\ \A i \in 1..Len(start) : (start \o u)[i] = start[i]
        /\ \A i \in 1..Len(u) : (start \o u)[Len(start) + i] = u[i]
    BY <1>2, <2>1, Joined
  <2>3. 1 \in 1..Len(u) /\ u[1] = first
    BY <1>11, <2>1
  <2> QED BY <1>10, <2>1, <2>2, <2>3
<1>14. Len(start) \in Nat /\ Len(a) \in Nat /\ 1 \in 1..Len(a)
  BY <1>2, <1>12
<1>15. H!SafeHead(a[1])
  <2>1. CASE start = <<>>
    <3>1. Len(start) + 1 = 1
      BY <2>1
    <3> QED BY <1>5, <1>13, <3>1
  <2>2. CASE start # <<>>
    <3>1. 1 \in 1..Len(start)
      BY <1>2, <2>2
    <3> QED BY <1>3, <1>13, <2>2, <3>1
  <2> QED BY <2>1, <2>2
<1>16. PICK b : b = a \o tools
  OBVIOUS
<1>17. b \in Seq(Hist) /\ Len(b) = Len(a) + Len(tools) /\ \A i \in 1..Len(a) : b[i] = a[i]
  BY <1>9, <1>12, <1>16, Joined
<1>18. 1 \in 1..Len(b) /\ b[1] = a[1]
  BY <1>9, <1>14, <1>17
<1>19. PICK new : new = b \o <<answer>>
  OBVIOUS
<1>20. <<answer>> \in Seq(Hist) /\ Len(<<answer>>) = 1 /\ <<answer>>[1] = answer
  BY <1>7
<1>21. /\ new \in Seq(Hist) /\ Len(new) = Len(b) + 1 /\ (\A i \in 1..Len(b) : new[i] = b[i])
       /\ new[Len(b) + 1] = answer
  <2>1. PICK u \in Seq(Hist) : u = <<answer>>
    BY <1>20
  <2>2. /\ b \o u \in Seq(Hist) /\ Len(b \o u) = Len(b) + Len(u)
        /\ \A i \in 1..Len(b) : (b \o u)[i] = b[i]
        /\ \A i \in 1..Len(u) : (b \o u)[Len(b) + i] = u[i]
    BY <1>17, <2>1, Joined
  <2>3. 1 \in 1..Len(u) /\ u[1] = answer /\ Len(u) = 1
    BY <1>20, <2>1
  <2> QED BY <1>19, <2>1, <2>2, <2>3
<1>22. H!SafeHead(new[1]) /\ new # <<>> /\ H!Last(new) = answer
  <2>1. new[1] = b[1]
    BY <1>18, <1>21
  <2>2. new # <<>> /\ new[Len(new)] = answer
    BY <1>18, <1>21
  <2> QED BY <1>15, <1>18, <2>1, <2>2 DEF H!Last
<1>23. new = start \o <<H!Entry("user", FALSE, 1)>> \o tools \o <<H!Entry("model", FALSE, 1)>>
  BY <1>4, <1>6, <1>10, <1>16, <1>19
<1>24. raw' = H!Saved(new).raw /\ forced' = H!Saved(new).forced
  BY <1>1, <1>8, <1>23 DEF H!Turn
<1>25. PICK h : h = H!TurnCap(new)
  OBVIOUS
<1>26. h \in Seq(Hist) /\ h # <<>> /\ H!SafeHead(h[1]) /\ H!Last(h) = answer
  <2>1. MaxTurns \in Nat
    BY SafetyAssumption DEF H!TrimAssumption
  <2> QED BY <1>21, <1>22, <1>25, <2>1, TurnCapKeeps
<1>27. PICK v \in [from : 1..Len(h), forced : BOOLEAN] :
          CutAt(h, 1, v) /\ H!ByteCap(h) = [raw |-> H!From(h, v.from), forced |-> v.forced]
  BY <1>26, ByteCapCuts
<1>28. PICK r : r = H!From(h, v.from)
  OBVIOUS
<1>29. raw' = r /\ forced' = v.forced /\ forced' \in BOOLEAN
  BY <1>24, <1>25, <1>27, <1>28 DEF H!Saved
<1>30. /\ r \in Seq(Hist) /\ r # <<>> /\ H!Last(r) = answer /\ r[1] = h[v.from]
       /\ H!UserFrom(h, v.from + 1) = 0 => H!UserFrom(r, 2) = 0
  BY <1>26, <1>28, CutKeepsEnd
<1>31. ~v.forced => H!SafeHead(r[1])
  BY <1>26, <1>27, <1>30 DEF CutAt
<1>32. H!ResumableUnlessForced'
  BY <1>29, <1>31 DEF H!ResumableUnlessForced, H!SafeHead
<1>33. H!NeverWiped'
  BY <1>6, <1>29, <1>30 DEF H!NeverWiped, H!Entry, H!Last
<1>34. H!Bytes(r) <= MaxBytes \/ H!UserFrom(r, 2) = 0
  BY <1>27, <1>28, <1>30 DEF CutAt
<1>35. H!WithinBytes'
  BY <1>29, <1>34 DEF H!WithinBytes
<1> QED BY <1>29, <1>30, <1>32, <1>33, <1>35 DEF TrimInv

LEMMA TrimNextKeeps == TrimInv /\ [H!TrimNext]_trimvars => TrimInv'
<1> SUFFICES ASSUME TrimInv, [H!TrimNext]_trimvars PROVE TrimInv'
  OBVIOUS
<1>1. CASE UNCHANGED trimvars
  <2>1. raw' = raw /\ saves' = saves /\ forced' = forced
    BY <1>1 DEF trimvars
  <2> QED BY <2>1 DEF TrimInv, H!ResumableUnlessForced, H!NeverWiped, H!WithinBytes
<1> QED BY <1>1, TurnKeeps DEF H!TrimNext

(* Each tool result is recorded under the call it answers, with parallel   *)
(* calls and missing ids, and a history that was trimmed can be resumed,   *)
(* is never empty and keeps to its byte cap, for any tools, any number of  *)
(* calls and turns and any caps.                                           *)
THEOREM CallsPairedHolds == SafetySpec => []CallsPaired
<1>1. SafetyInit => AfcInv /\ StreamInv /\ TrimInv
  BY AfcStarts, StreamStarts, TrimStarts DEF SafetyInit
<1>2. AfcInv /\ StreamInv /\ TrimInv /\ [SafetyNext]_<<focus, runners, backends>>
      => AfcInv' /\ StreamInv' /\ TrimInv'
  <2> SUFFICES ASSUME AfcInv, StreamInv, TrimInv, [SafetyNext]_<<focus, runners, backends>>
               PROVE  AfcInv' /\ StreamInv' /\ TrimInv'
    OBVIOUS
  <2>1. [A!AfcNext]_afcvars
    BY DEF SafetyNext, backends, runners
  <2>2. [O!StreamNext]_oasvars
    BY DEF SafetyNext, backends, runners
  <2>3. [H!TrimNext]_trimvars
    BY DEF SafetyNext, backends, runners
  <2> QED BY <2>1, <2>2, <2>3, AfcNextKeeps, StreamNextKeeps, TrimNextKeeps
<1>3. AfcInv /\ StreamInv /\ TrimInv => CallsPaired
  BY AfcIs, StreamIs DEF TrimInv, CallsPaired
<1> QED BY <1>1, <1>2, <1>3, PTL DEF SafetySpec

-----------------------------------------------------------------------------
(* The merged timeline.                                                    *)

(* insertIndexByTs ends after an event that is not newer and before one    *)
(* that is, whatever the order of the ring.                                *)
LEMMA SearchEnds ==
    ASSUME NEW E, NEW evs \in Seq(E), NEW t, NEW x, x = L!insertIndexByTs(evs, t)
    PROVE  /\ x \in 0..Len(evs)
           /\ x = 0 \/ evs[x].ts <= t
           /\ x = Len(evs) \/ ~(evs[x + 1].ts <= t)
<1>1. PICK N \in Nat : N = Len(evs)
  OBVIOUS
<1>2. PICK Left : Left = {i \in 0..N - 1 : evs[i + 1].ts <= t}
  OBVIOUS
<1>3. PICK g \in [Span(N) -> 0..N] : Finds(g, N, Left)
  BY FindExists
<1> DEFINE Body(f, r) == LET lo == r[1]
                             hi == r[2]
                             mid == (lo + hi) \div 2
                         IN  IF lo >= hi THEN lo
                             ELSE IF evs[mid + 1].ts <= t THEN f[<<mid + 1, hi>>]
                             ELSE f[<<lo, mid>>]
           find[r \in (0..N) \X (0..N)] == Body(find, r)
<1>4. ASSUME NEW f, NEW r \in Span(N)
      PROVE  Body(f, r) = IF r[1] >= r[2] THEN r[1] ELSE f[Narrowed(r, Left)]
  <2>1. PICK a, b \in 0..N : r = <<a, b>>
    BY DEF Span
  <2>2. CASE a >= b
    BY <2>1, <2>2
  <2>3. CASE a < b
    <3>1. PICK h : h = (a + b) \div 2
      OBVIOUS
    <3>2. h \in a..b - 1 /\ Half(r) = h
      BY <2>1, <2>3, <3>1, HalfBetween DEF Half
    <3>3. h \in Left <=> evs[h + 1].ts <= t
      BY <1>2, <3>2
    <3>4. ~(a >= b)
      BY <2>3
    <3>5. Body(f, r) = IF evs[h + 1].ts <= t THEN f[<<h + 1, b>>] ELSE f[<<a, h>>]
      BY <2>1, <3>1, <3>4
    <3>6. Narrowed(r, Left) = IF h \in Left THEN <<h + 1, b>> ELSE <<a, h>>
      BY <2>1, <3>2 DEF Narrowed
    <3> QED BY <2>1, <3>3, <3>4, <3>5, <3>6
  <2> QED BY <2>2, <2>3
<1>5. g = [r \in Span(N) |-> Body(g, r)]
  <2>1. \A r \in Span(N) : g[r] = Body(g, r)
    BY <1>3, <1>4 DEF Finds
  <2> HIDE DEF Body
  <2> QED BY <2>1
<1>6. find = [r \in Span(N) |-> Body(find, r)]
  BY <1>5 DEF Span
<1>7. x = find[<<0, N>>]
  BY <1>1 DEF L!insertIndexByTs
<1>8. Finds(find, N, Left)
  <2>1. PICK it : it = find
    OBVIOUS
  <2>2. \A r \in Span(N) : it[r] = Body(it, r)
    <3> HIDE DEF find, Body
    <3> QED BY <1>6, <2>1
  <2>3. Finds(it, N, Left)
    <3> HIDE DEF find, Body
    <3> QED BY <1>4, <2>2 DEF Finds
  <2> HIDE DEF find
  <2> QED BY <2>1, <2>3
<1> HIDE DEF find
<1>9. x \in 0..N /\ (x = 0 \/ x - 1 \in Left) /\ (x = N \/ x \notin Left)
  <2>1. PICK it : it = find
    OBVIOUS
  <2>2. Finds(it, N, Left) /\ x = it[<<0, N>>]
    BY <1>7, <1>8, <2>1
  <2> QED BY <2>2, FindEnds
<1>10. x # 0 => evs[x].ts <= t
  <2>1. x # 0 => x - 1 \in Left /\ (x - 1) + 1 = x
    BY <1>9
  <2> QED BY <1>2, <2>1
<1>11. x # N => ~(evs[x + 1].ts <= t)
  <2>1. x # N => x \in 0..N - 1 /\ x \notin Left
    BY <1>9
  <2> QED BY <1>2, <2>1
<1> QED BY <1>1, <1>9, <1>10, <1>11

(* An element put into a sequence after its first p.                       *)
PutIn(r, q, p, e) ==
    /\ Len(r) = Len(q) + 1
    /\ \A i \in 1..p : r[i] = q[i]
    /\ r[p + 1] = e
    /\ \A i \in p + 1..Len(q) : r[i + 1] = q[i]

LEMMA InsertPuts ==
    ASSUME NEW E, NEW q \in Seq(E), NEW e \in E, NEW p \in 0..Len(q), NEW r, r = L!InsertAt(q, p + 1, e)
    PROVE  r \in Seq(E) /\ PutIn(r, q, p, e)
<1>1. PICK N \in Nat : N = Len(q)
  OBVIOUS
<1>2. PICK u : u = SubSeq(q, 1, p)
  OBVIOUS
<1>3. u \in Seq(E) /\ Len(u) = p /\ \A i \in 1..p : u[i] = q[i]
  BY <1>2
<1>4. PICK v : v = SubSeq(q, p + 1, N)
  OBVIOUS
<1>5. v \in Seq(E) /\ Len(v) = N - p /\ \A i \in 1..N - p : v[i] = q[p + i]
  BY <1>1, <1>4
<1>6. PICK w : w = <<e>>
  OBVIOUS
<1>6a. w \in Seq(E) /\ Len(w) = 1 /\ w[1] = e
  BY <1>6
<1>7. PICK a : a = u \o w
  OBVIOUS
<1>7a. u \in Seq(E) /\ v \in Seq(E) /\ w \in Seq(E)
  BY <1>3, <1>5, <1>6a
<1>7b. Len(u) = p /\ Len(v) = N - p /\ Len(w) = 1
  BY <1>3, <1>5, <1>6a
<1>8a. a \in Seq(E) /\ Len(a) = Len(u) + Len(w)
  BY <1>7, <1>7a, Joined
<1>8. a \in Seq(E) /\ Len(a) = p + 1
  BY <1>7b, <1>8a
<1>9. (\A i \in 1..p : a[i] = q[i]) /\ a[p + 1] = e
  <2>1. /\ \A i \in 1..Len(u) : (u \o w)[i] = u[i]
        /\ \A i \in 1..Len(w) : (u \o w)[Len(u) + i] = w[i]
    BY <1>7a, Joined
  <2>2. 1 \in 1..Len(w)
    BY <1>6a
  <2> QED BY <1>3, <1>6a, <1>7, <2>1, <2>2
<1>10. r = a \o v
  <2>1. p + 1 - 1 = p
    OBVIOUS
  <2>2. r = SubSeq(q, 1, (p + 1) - 1) \o <<e>> \o SubSeq(q, p + 1, Len(q))
    BY DEF L!InsertAt
  <2>3. SubSeq(q, 1, (p + 1) - 1) = u
    BY <1>2, <2>1
  <2>4. r = u \o w \o v
    BY <1>1, <1>4, <1>6, <2>2, <2>3, Zenon
  <2> QED BY <1>7, <2>4, Zenon
<1>11a. r \in Seq(E) /\ Len(r) = Len(a) + Len(v)
  BY <1>7a, <1>8a, <1>10, Joined
<1>11. r \in Seq(E) /\ Len(r) = N + 1
  BY <1>7b, <1>8, <1>11a
<1>12. /\ \A i \in 1..p + 1 : r[i] = a[i]
       /\ \A i \in 1..N - p : r[p + 1 + i] = v[i]
  <2>1. /\ \A i \in 1..Len(a) : (a \o v)[i] = a[i]
        /\ \A i \in 1..Len(v) : (a \o v)[Len(a) + i] = v[i]
    BY <1>7a, <1>8a, Joined
  <2> QED BY <1>5, <1>8, <1>10, <2>1
<1>13. \A i \in p + 1..N : r[i + 1] = q[i]
  <2>1. ASSUME NEW i \in p + 1..N PROVE r[i + 1] = q[i]
    <3>1. PICK k \in 1..N - p : k = i - p
      OBVIOUS
    <3>2. p + 1 + k = i + 1 /\ p + k = i
      BY <3>1
    <3> QED BY <1>5, <1>12, <3>2
  <2> QED BY <2>1
<1>14. \A i \in 1..p : r[i] = q[i]
  BY <1>9, <1>12
<1>15. r[p + 1] = e
  BY <1>9, <1>12
<1> QED BY <1>1, <1>11, <1>13, <1>14, <1>15 DEF PutIn

Placed(r, evs, e, ap) ==
    \E p \in 0..Len(evs) :
        /\ PutIn(r, evs, p, e)
        /\ IF ap THEN p = Len(evs)
           ELSE (p = 0 \/ evs[p].ts <= e.ts) /\ (p = Len(evs) \/ ~(evs[p + 1].ts <= e.ts))

LEMMA PlacePuts ==
    ASSUME NEW E, NEW evs \in Seq(E), NEW e \in E, NEW ap \in BOOLEAN, NEW r, r = L!Place(evs, e, ap)
    PROVE  r \in Seq(E) /\ Placed(r, evs, e, ap)
<1> USE DEF Placed
<1>1. CASE ap
  <2>1. r = Append(evs, e)
    BY <1>1 DEF L!Place
  <2>2. r \in Seq(E) /\ Len(r) = Len(evs) + 1 /\ r[Len(evs) + 1] = e /\ Len(evs) \in Nat
    BY <2>1
  <2>3. \A i \in 1..Len(evs) : r[i] = evs[i]
    BY <2>1
  <2>4. PutIn(r, evs, Len(evs), e)
    BY <2>2, <2>3 DEF PutIn
  <2>5. Len(evs) \in 0..Len(evs)
    BY <2>2
  <2> QED BY <1>1, <2>2, <2>4, <2>5
<1>2. CASE ~ap
  <2>1. PICK p : p = L!insertIndexByTs(evs, e.ts)
    OBVIOUS
  <2>2. p \in 0..Len(evs) /\ (p = 0 \/ evs[p].ts <= e.ts) /\ (p = Len(evs) \/ ~(evs[p + 1].ts <= e.ts))
    BY <2>1, SearchEnds
  <2>3. r = L!InsertAt(evs, p + 1, e)
    BY <1>2, <2>1 DEF L!Place
  <2>4. r \in Seq(E) /\ PutIn(r, evs, p, e)
    BY <2>2, <2>3, InsertPuts
  <2> QED BY <1>2, <2>2, <2>4
<1> QED BY <1>1, <1>2

IdsApart(evs) == \A i, j \in 1..Len(evs) : evs[i].id = evs[j].id => i = j
IdsOf(evs) == {evs[i].id : i \in 1..Len(evs)}
InTime(evs) == \A i, j \in 1..Len(evs) : i < j => evs[i].ts <= evs[j].ts
Fits(evs, p, t) ==
    /\ \A i \in 1..p : evs[i].ts <= t
    /\ \A i \in p + 1..Len(evs) : t <= evs[i].ts
LastAbove(evs, n, t) == \A i \in 1..Len(evs) : i > Len(evs) - n => t <= evs[i].ts

Carried(r, q) == \A i \in 1..Len(q) : \E j \in 1..Len(r) : r[j] = q[i]

(* What stands where once an element is put in.                            *)
LEMMA PutPlaces ==
    ASSUME NEW E, NEW q \in Seq(E), NEW p \in 0..Len(q), NEW e, NEW r, PutIn(r, q, p, e)
    PROVE  /\ \A j \in 1..Len(r) : \/ j \in 1..p /\ r[j] = q[j]
                                   \/ j = p + 1 /\ r[j] = e
                                   \/ j - 1 \in p + 1..Len(q) /\ r[j] = q[j - 1]
           /\ Carried(r, q)
           /\ p + 1 \in 1..Len(r) /\ r[p + 1] = e /\ Len(r) = Len(q) + 1 /\ Len(q) \in Nat
<1>1. Len(q) \in Nat /\ Len(r) = Len(q) + 1 /\ r[p + 1] = e
  BY DEF PutIn
<1>2. /\ \A i \in 1..p : r[i] = q[i]
      /\ \A i \in p + 1..Len(q) : r[i + 1] = q[i]
  BY DEF PutIn
<1>3. ASSUME NEW j \in 1..Len(r)
      PROVE  \/ j \in 1..p /\ r[j] = q[j]
             \/ j = p + 1 /\ r[j] = e
             \/ j - 1 \in p + 1..Len(q) /\ r[j] = q[j - 1]
  <2>1. j \in 1..p \/ j = p + 1 \/ j - 1 \in p + 1..Len(q)
    BY <1>1
  <2>2. CASE j \in 1..p
    BY <1>2, <2>2
  <2>3. CASE j = p + 1
    BY <1>1, <2>3
  <2>4. CASE j - 1 \in p + 1..Len(q)
    <3>1. (j - 1) + 1 = j
      OBVIOUS
    <3> QED BY <1>2, <2>4, <3>1
  <2> QED BY <2>1, <2>2, <2>3, <2>4
<1>4. ASSUME NEW i \in 1..Len(q) PROVE \E j \in 1..Len(r) : r[j] = q[i]
  <2>1. CASE i \in 1..p
    <3>1. i \in 1..Len(r)
      BY <1>1
    <3> QED BY <1>2, <2>1, <3>1
  <2>2. CASE i \in p + 1..Len(q)
    <3>1. i + 1 \in 1..Len(r)
      BY <1>1
    <3> QED BY <1>2, <2>2, <3>1
  <2> QED BY <1>1, <2>1, <2>2
<1>5. p + 1 \in 1..Len(r)
  BY <1>1
<1>6. Carried(r, q)
  BY <1>4 DEF Carried
<1> QED BY <1>1, <1>3, <1>5, <1>6

LEMMA PutApart ==
    ASSUME NEW E, NEW q \in Seq(E), NEW p \in 0..Len(q), NEW e, NEW r, PutIn(r, q, p, e),
           IdsApart(q), e.id \notin IdsOf(q)
    PROVE  IdsApart(r) /\ IdsOf(r) = IdsOf(q) \cup {e.id}
<1>1. \A j \in 1..Len(r) : \/ j \in 1..p /\ r[j] = q[j]
                           \/ j = p + 1 /\ r[j] = e
                           \/ j - 1 \in p + 1..Len(q) /\ r[j] = q[j - 1]
  BY PutPlaces
<1>2a. Carried(r, q)
  BY PutPlaces
<1>2b. p + 1 \in 1..Len(r) /\ r[p + 1] = e /\ Len(q) \in Nat
  BY PutPlaces
<1>2. /\ \A i \in 1..Len(q) : \E j \in 1..Len(r) : r[j] = q[i]
      /\ p + 1 \in 1..Len(r) /\ r[p + 1] = e /\ Len(q) \in Nat
  BY <1>2a, <1>2b DEF Carried
<1>3. \A i \in 1..Len(q) : q[i].id # e.id
  BY DEF IdsOf
<1>4. PICK from : from = [j \in 1..Len(r) |-> IF j \in 1..p THEN j ELSE IF j = p + 1 THEN 0 ELSE j - 1]
  OBVIOUS
<1>5. ASSUME NEW j \in 1..Len(r)
      PROVE  IF from[j] = 0 THEN j = p + 1 /\ r[j] = e ELSE from[j] \in 1..Len(q) /\ r[j] = q[from[j]]
  <2>1. CASE j \in 1..p /\ r[j] = q[j]
    <3>1. from[j] = j /\ j # 0 /\ j \in 1..Len(q)
      BY <1>2, <1>4, <2>1
    <3> QED BY <2>1, <3>1
  <2>2. CASE j = p + 1 /\ r[j] = e
    <3>1. from[j] = 0
      BY <1>2, <1>4, <2>2
    <3> QED BY <2>2, <3>1
  <2>3. CASE j - 1 \in p + 1..Len(q) /\ r[j] = q[j - 1]
    <3>1. from[j] = j - 1 /\ j - 1 # 0 /\ j - 1 \in 1..Len(q)
      BY <1>2, <1>4, <2>3
    <3> QED BY <2>3, <3>1
  <2> QED BY <1>1, <2>1, <2>2, <2>3
<1>6. ASSUME NEW i \in 1..Len(r), NEW j \in 1..Len(r), from[i] = from[j] PROVE i = j
  <2>1. \A k \in 1..Len(r) : /\ k <= p => from[k] = k
                             /\ k = p + 1 => from[k] = 0
                             /\ k > p + 1 => from[k] = k - 1
    BY <1>2, <1>4
  <2>2. i \in Nat /\ j \in Nat /\ i # 0 /\ j # 0
    BY <1>2
  <2> QED BY <1>6, <2>1, <2>2
<1>7. IdsApart(r)
  <2> SUFFICES ASSUME NEW i \in 1..Len(r), NEW j \in 1..Len(r), r[i].id = r[j].id PROVE i = j
    BY DEF IdsApart
  <2>1. CASE from[i] = 0 /\ from[j] = 0
    BY <1>6, <2>1
  <2>2. CASE from[i] = 0 /\ from[j] # 0
    BY <1>3, <1>5, <2>2
  <2>3. CASE from[i] # 0 /\ from[j] = 0
    BY <1>3, <1>5, <2>3
  <2>4. CASE from[i] # 0 /\ from[j] # 0
    <3>1. from[i] \in 1..Len(q) /\ from[j] \in 1..Len(q) /\ q[from[i]].id = q[from[j]].id
      BY <1>5, <2>4
    <3> QED BY <1>6, <3>1 DEF IdsApart
  <2> QED BY <2>1, <2>2, <2>3, <2>4
<1>8. ASSUME NEW x PROVE x \in IdsOf(r) <=> x \in IdsOf(q) \cup {e.id}
  <2>1. ASSUME x \in IdsOf(r) PROVE x \in IdsOf(q) \cup {e.id}
    <3>1. PICK j \in 1..Len(r) : x = r[j].id
      BY <2>1 DEF IdsOf
    <3>2. r[j] = e \/ \E i \in 1..Len(q) : r[j] = q[i]
      BY <1>5
    <3> QED BY <3>1, <3>2 DEF IdsOf
  <2>2. ASSUME x \in IdsOf(q) PROVE x \in IdsOf(r)
    BY <1>2, <2>2 DEF IdsOf
  <2>3. e.id \in IdsOf(r)
    BY <1>2 DEF IdsOf
  <2> QED BY <2>1, <2>2, <2>3
<1> QED BY <1>7, <1>8

LEMMA PutInTime ==
    ASSUME NEW E, \A x \in E : x.ts \in Nat, NEW q \in Seq(E), NEW p \in 0..Len(q), NEW e \in E,
           NEW r, PutIn(r, q, p, e), InTime(q), Fits(q, p, e.ts)
    PROVE  InTime(r)
<1>1. \A j \in 1..Len(r) : \/ j \in 1..p /\ r[j] = q[j]
                           \/ j = p + 1 /\ r[j] = e
                           \/ j - 1 \in p + 1..Len(q) /\ r[j] = q[j - 1]
  BY PutPlaces
<1>2. Len(q) \in Nat /\ \A i \in 1..Len(q) : q[i].ts \in Nat
  OBVIOUS
<1> SUFFICES ASSUME NEW i \in 1..Len(r), NEW j \in 1..Len(r), i < j PROVE r[i].ts <= r[j].ts
  BY DEF InTime
<1>3. CASE i \in 1..p /\ r[i] = q[i]
  <2>1. CASE j \in 1..p /\ r[j] = q[j]
    <3>1. i \in 1..Len(q) /\ j \in 1..Len(q)
      BY <1>2, <1>3, <2>1
    <3> QED BY <1>3, <2>1, <3>1 DEF InTime
  <2>2. CASE j = p + 1 /\ r[j] = e
    BY <1>3, <2>2 DEF Fits
  <2>3. CASE j - 1 \in p + 1..Len(q) /\ r[j] = q[j - 1]
    <3>1. i \in 1..Len(q) /\ j - 1 \in 1..Len(q) /\ i < j - 1
      BY <1>2, <1>3, <2>3
    <3> QED BY <1>3, <2>3, <3>1 DEF InTime
  <2> QED BY <1>1, <2>1, <2>2, <2>3
<1>4. CASE i = p + 1 /\ r[i] = e
  <2>1. j - 1 \in p + 1..Len(q) /\ r[j] = q[j - 1]
    <3>1. j \notin 1..p /\ j # p + 1
      BY <1>4
    <3> QED BY <1>1, <3>1
  <2> QED BY <1>4, <2>1 DEF Fits
<1>5. CASE i - 1 \in p + 1..Len(q) /\ r[i] = q[i - 1]
  <2>1. j - 1 \in p + 1..Len(q) /\ r[j] = q[j - 1]
    <3>1. j \notin 1..p /\ j # p + 1
      BY <1>5
    <3> QED BY <1>1, <3>1
  <2>2. i - 1 \in 1..Len(q) /\ j - 1 \in 1..Len(q) /\ i - 1 < j - 1
    BY <1>2, <1>5, <2>1
  <2> QED BY <1>5, <2>1, <2>2 DEF InTime
<1> QED BY <1>1, <1>3, <1>4, <1>5

LEMMA PutAbove ==
    ASSUME NEW E, \A x \in E : x.ts \in Nat, NEW q \in Seq(E), NEW p \in 0..Len(q), NEW e \in E,
           NEW r, PutIn(r, q, p, e), Fits(q, p, e.ts), NEW n \in Nat \ {0}, n <= Len(q),
           NEW t \in Nat, LastAbove(q, n, t)
    PROVE  LastAbove(r, n, t)
<1>1. \A j \in 1..Len(r) : \/ j \in 1..p /\ r[j] = q[j]
                           \/ j = p + 1 /\ r[j] = e
                           \/ j - 1 \in p + 1..Len(q) /\ r[j] = q[j - 1]
  BY PutPlaces
<1>2. Len(q) \in Nat /\ Len(r) = Len(q) + 1
  BY DEF PutIn
<1>3. \A i \in 1..Len(q) : q[i].ts \in Nat
  OBVIOUS
<1> SUFFICES ASSUME NEW j \in 1..Len(r), j > Len(r) - n PROVE t <= r[j].ts
  BY DEF LastAbove
<1>4. CASE j \in 1..p /\ r[j] = q[j]
  <2>1. j \in 1..Len(q) /\ j > Len(q) - n
    BY <1>2, <1>4
  <2> QED BY <1>4, <2>1 DEF LastAbove
<1>5. CASE j = p + 1 /\ r[j] = e
  <2>1. p \in 1..Len(q) /\ p > Len(q) - n
    BY <1>2, <1>5
  <2>2. t <= q[p].ts
    BY <2>1 DEF LastAbove
  <2>3. q[p].ts <= e.ts
    BY <2>1 DEF Fits
  <2>4. q[p].ts \in Nat /\ e.ts \in Nat
    BY <1>3, <2>1
  <2>5. t <= e.ts
    BY <2>2, <2>3, <2>4
  <2> QED BY <1>5, <2>5
<1>6. CASE j - 1 \in p + 1..Len(q) /\ r[j] = q[j - 1]
  <2>1. j - 1 \in 1..Len(q) /\ j - 1 > Len(q) - n
    BY <1>2, <1>6
  <2> QED BY <1>6, <2>1 DEF LastAbove
<1> QED BY <1>1, <1>4, <1>5, <1>6

(* Where the search ends in an ordered ring, the event fits.               *)
LEMMA FoundFits ==
    ASSUME NEW E, \A x \in E : x.ts \in Nat, NEW q \in Seq(E), NEW p \in 0..Len(q), NEW t \in Nat,
           InTime(q), p = 0 \/ q[p].ts <= t, p = Len(q) \/ ~(q[p + 1].ts <= t)
    PROVE  Fits(q, p, t)
<1>1. Len(q) \in Nat /\ \A i \in 1..Len(q) : q[i].ts \in Nat
  OBVIOUS
<1>2. ASSUME NEW i \in 1..p PROVE q[i].ts <= t
  <2>1. i \in 1..Len(q) /\ p \in 1..Len(q) /\ (i < p \/ i = p)
    BY <1>1
  <2>2. q[i].ts <= q[p].ts \/ i = p
    BY <2>1 DEF InTime
  <2>3. q[p].ts <= t /\ q[i].ts \in Nat /\ q[p].ts \in Nat
    BY <1>1, <2>1
  <2> QED BY <2>2, <2>3
<1>3. ASSUME NEW i \in p + 1..Len(q) PROVE t <= q[i].ts
  <2>1. i \in 1..Len(q) /\ p + 1 \in 1..Len(q) /\ (p + 1 < i \/ i = p + 1) /\ p # Len(q)
    BY <1>1
  <2>2. q[p + 1].ts <= q[i].ts \/ i = p + 1
    BY <2>1 DEF InTime
  <2>3. ~(q[p + 1].ts <= t) /\ q[i].ts \in Nat /\ q[p + 1].ts \in Nat
    BY <1>1, <2>1
  <2> QED BY <2>2, <2>3
<1> QED BY <1>2, <1>3 DEF Fits

(* The last elements of a sequence.                                        *)
IsEnd(r, s, d) ==
    d \in 0..Len(s) /\ Len(r) = Len(s) - d /\ \A i \in 1..Len(r) : d + i \in 1..Len(s) /\ r[i] = s[d + i]

LEMMA NewestIs ==
    ASSUME NEW E, NEW s \in Seq(E), NEW n \in Nat \ {0}, NEW r, r = L!Newest(s, n)
    PROVE  /\ r \in Seq(E) /\ Len(r) = IF Len(s) <= n THEN Len(s) ELSE n
           /\ IsEnd(r, s, Len(s) - Len(r))
<1>1. Len(s) \in Nat
  OBVIOUS
<1>2. CASE Len(s) <= n
  <2>1. r = s
    BY <1>2 DEF L!Newest
  <2>2. Len(s) - Len(r) = 0
    BY <1>1, <2>1
  <2>3. \A i \in 1..Len(r) : 0 + i = i /\ 0 + i \in 1..Len(s)
    BY <1>1, <2>1
  <2>4. IsEnd(r, s, 0)
    <3>1. 0 \in 0..Len(s) /\ Len(r) = Len(s) - 0
      BY <1>1, <2>1
    <3> QED BY <2>1, <2>3, <3>1 DEF IsEnd
  <2> QED BY <1>2, <2>1, <2>2, <2>4
<1>3. CASE ~(Len(s) <= n)
  <2>0. PICK k : k = Len(s) - n + 1
    OBVIOUS
  <2>1. k \in 1..Len(s) /\ k = Len(s) - n + 1
    BY <1>1, <1>3, <2>0
  <2>2. r = SubSeq(s, k, Len(s))
    BY <1>3, <2>1 DEF L!Newest
  <2>3. /\ r \in Seq(E) /\ Len(r) = Len(s) - k + 1
        /\ \A i \in 1..Len(r) : k + i - 1 \in 1..Len(s) /\ r[i] = s[k + i - 1]
    BY <2>1, <2>2, RestOf
  <2>4a. Len(r) = n
    BY <1>1, <2>1, <2>3
  <2>4. Len(r) = n /\ Len(s) - Len(r) = k - 1
    BY <1>1, <2>1, <2>4a
  <2>5. \A i \in 1..Len(r) : k - 1 + i = k + i - 1
    BY <1>1, <2>1, <2>4
  <2>6. k - 1 \in 0..Len(s) /\ Len(r) = Len(s) - (k - 1)
    BY <1>1, <2>1, <2>4
  <2>7. \A i \in 1..Len(r) : k - 1 + i \in 1..Len(s) /\ r[i] = s[k - 1 + i]
    BY <2>3, <2>5
  <2>8. IsEnd(r, s, k - 1)
    BY <2>6, <2>7 DEF IsEnd
  <2> QED BY <1>3, <2>3, <2>4, <2>8
<1> QED BY <1>2, <1>3

(* An event as its member's harness published it.                          *)
AsSent(e) ==
    /\ e \in L!Event /\ e.member \in Members /\ e.id \in 1..Len(sent[e.member])
    /\ e.ts = sent[e.member][e.id]

(* A reader's list holds published events, the watcher has found all but   *)
(* the last of them, and those arrived in their order.                     *)
ListHolds(m) == \A i \in 1..Len(list[m]) : list[m][i] \in 1..Len(sent[m])
ListFound(m) == \A i \in 1..Len(list[m]) - behind[m] : L!Ev(m, list[m][i]) \in merged
ListRuns(m) ==
    \A i, j \in 1..Len(list[m]) : i > Len(list[m]) - behind[m] /\ i <= j => list[m][i] <= list[m][j]
CursorIs(m) ==
    /\ behind[m] <= Len(list[m])
    /\ cursor[m] = IF behind[m] = Len(list[m]) THEN 0 ELSE list[m][Len(list[m]) - behind[m]]
ReaderOK(m) == ListHolds(m) /\ ListFound(m) /\ ListRuns(m) /\ CursorIs(m)
ClockOK(m) == \A i, j \in 1..Len(sent[m]) : i <= j => sent[m][i] <= sent[m][j]

RingOK ==
    /\ IdsApart(events) /\ seenIds = IdsOf(events)
    /\ \A i \in 1..Len(events) : AsSent(events[i])
    /\ trimmed # {} => Len(events) = RingSize
Quiet == InTime(events) /\ \A x \in trimmed : LastAbove(events, RingSize, x.ts)

(* An event is shown, was trimmed, or met one of its number.               *)
IsShown(e, evs, tr) == e \in tr \/ \E i \in 1..Len(evs) : evs[i] = e
HasTwin(e, evs, tr) ==
    \/ \E x \in tr : x.id = e.id /\ x.member # e.member
    \/ \E i \in 1..Len(evs) : evs[i].id = e.id /\ evs[i].member # e.member
Accounted(e, evs, tr) == IsShown(e, evs, tr) \/ HasTwin(e, evs, tr)

TimeInv ==
    /\ L!TypeOK
    /\ \A m \in Members : ClockOK(m) /\ ReaderOK(m)
    /\ RingOK
    /\ \A e \in merged \cup trimmed : AsSent(e)
    /\ \A e \in merged : Accounted(e, events, trimmed)
    /\ L!NoTwinTrimmed => Quiet

(* One event of a batch at a time.                                         *)
Merging == [evs : Seq(L!Event), ids : SUBSET (1..MaxId)]

LEMMA MergeStays ==
    ASSUME NEW v \in Merging, NEW e \in L!Event, NEW ap \in BOOLEAN
    PROVE  L!Merge(v, e, ap) \in Merging
<1>1. v.evs \in Seq(L!Event) /\ v.ids \in SUBSET (1..MaxId)
  BY DEF Merging
<1>2. PICK r : r = L!Place(v.evs, e, ap)
  OBVIOUS
<1>3. r \in Seq(L!Event)
  BY <1>1, <1>2, PlacePuts
<1>4. v.ids \cup {e.id} \in SUBSET (1..MaxId)
  BY <1>1 DEF L!Event
<1>5. [evs |-> r, ids |-> v.ids \cup {e.id}] \in Merging
  BY <1>3, <1>4 DEF Merging
<1> QED BY <1>2, <1>5 DEF L!Merge

MergeAllOf(batch, start) ==
    L!FoldLeft(LAMBDA acc, e : L!Merge(acc, e, L!AllAppend(batch)), start, batch)

LEMMA MergeLadder ==
    ASSUME NEW batch \in Seq(L!Event), NEW start \in Merging, L!AllAppend(batch) \in BOOLEAN
    PROVE  \E st \in [0..Len(batch) -> Merging] :
              /\ st[0] = start
              /\ \A n \in 1..Len(batch) : st[n] = L!Merge(st[n - 1], batch[n], L!AllAppend(batch))
              /\ st[Len(batch)] = MergeAllOf(batch, start)
<1>1. PICK N \in Nat : N = Len(batch) /\ DOMAIN batch = 1..N
  OBVIOUS
<1> DEFINE Step(v, n) == L!Merge(v, batch[n], L!AllAppend(batch))
<1>2. PICK F : F = [n \in 1..N |-> [v \in Merging |-> Step(v, n)]]
  OBVIOUS
<1>3. \A n \in 1..N, v \in Merging : F[n][v] = Step(v, n)
  BY <1>2
<1>4. \A n \in 1..N, v \in Merging : F[n][v] \in Merging
  <2>1. \A n \in 1..N : batch[n] \in L!Event
    BY <1>1
  <2> QED BY <1>3, <2>1, MergeStays
<1>5. PICK g \in [SUBSET (1..N) -> Merging] : FoldsLeft(g, N, Merging, F, start)
  BY <1>4, FoldLeftExists
<1> DEFINE iter[s \in SUBSET (1..N)] == IF s = {} THEN start ELSE Step(iter[s \ {Max(s)}], Max(s))
<1>6. g = [s \in SUBSET (1..N) |-> IF s = {} THEN start ELSE Step(g[s \ {Max(s)}], Max(s))]
  <2>1. \A s \in SUBSET (1..N) : s # {} => Max(s) \in 1..N /\ g[s \ {Max(s)}] \in Merging
    BY GreatestUpTo
  <2>2. \A s \in SUBSET (1..N) : g[s] = IF s = {} THEN start ELSE Step(g[s \ {Max(s)}], Max(s))
    BY <1>3, <1>5, <2>1 DEF FoldsLeft
  <2> QED BY <2>2
<1>7. iter = [s \in SUBSET (1..N) |-> IF s = {} THEN start ELSE Step(iter[s \ {Max(s)}], Max(s))]
  BY <1>6
<1>8. MergeAllOf(batch, start) = iter[1..N]
  BY <1>1 DEF MergeAllOf, L!FoldLeft, L!MapThenFoldSet, L!Max, Max
<1> HIDE DEF iter, Step
<1>9. FoldsLeft(iter, N, Merging, F, start)
  <2>1. \A s \in SUBSET (1..N) : s # {} => Max(s) \in 1..N
    BY GreatestUpTo
  <2> QED BY <1>7, <1>3, <2>1 DEF FoldsLeft
<1>10. PICK st \in [0..N -> Merging] : Ladder(st, N, F, start) /\ st[N] = iter[1..N]
  <2>1. PICK it : it = iter
    OBVIOUS
  <2>2. FoldsLeft(it, N, Merging, F, start)
    BY <1>9, <2>1
  <2>3. PICK st \in [0..N -> Merging] : Ladder(st, N, F, start) /\ st[N] = it[1..N]
    BY <1>4, <2>2, FoldLadder
  <2> QED BY <2>1, <2>3
<1>11. \A n \in 1..N : st[n - 1] \in Merging /\ st[n] = Step(st[n - 1], n)
  <2>1. \A n \in 1..N : n - 1 \in 0..N
    BY <1>1
  <2>2. \A n \in 1..N : st[n - 1] \in Merging
    BY <1>10, <2>1
  <2> QED BY <1>3, <1>10, <2>2 DEF Ladder
<1>12. \A n \in 1..N : st[n] = L!Merge(st[n - 1], batch[n], L!AllAppend(batch))
  BY <1>11 DEF Step
<1> QED BY <1>1, <1>8, <1>10, <1>12 DEF Ladder

(* The state of a merge after n events of the batch.                       *)
Sorted(evs) == InTime(evs) /\ \A x \in trimmed : LastAbove(evs, RingSize, x.ts)
Rising(batch, ap) ==
    ap => \A k, n \in 1..Len(batch) :
             k < n /\ batch[k].id \notin seenIds /\ batch[n].id \notin seenIds => batch[k].ts <= batch[n].ts
SomeOld(evs) == \A i \in 1..Len(events) : \E j \in 1..Len(evs) : evs[j] = events[i]
OldOrNew(evs, batch, n) ==
    \A j \in 1..Len(evs) :
        \/ \E i \in 1..Len(events) : evs[j] = events[i]
        \/ \E k \in 1..n : evs[j] = batch[k] /\ batch[k].id \notin seenIds
MergedSoFar(n, st, batch, quiet) ==
    /\ IdsApart(st.evs) /\ st.ids = IdsOf(st.evs)
    /\ \A j \in 1..Len(st.evs) : AsSent(st.evs[j])
    /\ SomeOld(st.evs) /\ OldOrNew(st.evs, batch, n)
    /\ \A k \in 1..n : batch[k].id \in st.ids
    /\ Len(events) <= Len(st.evs)
    /\ quiet => Sorted(st.evs)

LEMMA EventTimes == \A x \in L!Event : x.ts \in Nat /\ x.id \in Nat
BY DEF L!Event

LEMMA RingFacts == RingSize \in Nat \ {0} /\ Burst \in 1..RingSize - 1
BY SafetyAssumption DEF L!TimelineAssumption

LEMMA MergeFits ==
    ASSUME NEW batch \in Seq(L!Event), NEW n \in 1..Len(batch), NEW ap \in BOOLEAN,
           ap = L!AllAppend(batch), Rising(batch, ap), events \in Seq(L!Event), InTime(events),
           NEW evs \in Seq(L!Event), InTime(evs), OldOrNew(evs, batch, n - 1),
           batch[n].id \notin seenIds, NEW p \in 0..Len(evs),
           IF ap THEN p = Len(evs)
           ELSE (p = 0 \/ evs[p].ts <= batch[n].ts) /\ (p = Len(evs) \/ ~(evs[p + 1].ts <= batch[n].ts))
    PROVE  Fits(evs, p, batch[n].ts)
<1>0. /\ batch[n] \in L!Event /\ batch[n].ts \in Nat
      /\ \A i \in 1..Len(events) : events[i].ts \in Nat
  <2>1. batch[n] \in L!Event /\ \A i \in 1..Len(events) : events[i] \in L!Event
    OBVIOUS
  <2> QED BY <2>1, EventTimes
<1>1. CASE ~ap
  BY <1>0, <1>1, EventTimes, FoundFits
<1>2. CASE ap
  <2>1. ASSUME NEW j \in 1..Len(evs) PROVE evs[j].ts <= batch[n].ts
    <3>1. CASE \E i \in 1..Len(events) : evs[j] = events[i]
      <4>1. PICK i \in 1..Len(events) : evs[j] = events[i]
        BY <3>1
      <4>2. events # <<>> /\ Len(events) \in 1..Len(events) /\ (i < Len(events) \/ i = Len(events))
        OBVIOUS
      <4>3. events[i].ts <= events[Len(events)].ts \/ i = Len(events)
        BY <4>2 DEF InTime
      <4>4. batch[n].ts >= events[Len(events)].ts
        BY <1>2, <4>2 DEF L!AllAppend, L!Last
      <4>5. events[i].ts \in Nat /\ events[Len(events)].ts \in Nat
        BY <1>0, <4>2
      <4>6. events[i].ts <= batch[n].ts
        BY <1>0, <4>3, <4>4, <4>5
      <4> QED BY <4>1, <4>6
    <3>2. CASE \E k \in 1..n - 1 : evs[j] = batch[k] /\ batch[k].id \notin seenIds
      <4>1. PICK k \in 1..n - 1 : evs[j] = batch[k] /\ batch[k].id \notin seenIds
        BY <3>2
      <4>2. k \in 1..Len(batch) /\ k < n
        OBVIOUS
      <4> QED BY <1>2, <4>1, <4>2 DEF Rising
    <3> QED BY <3>1, <3>2 DEF OldOrNew
  <2>2. p = Len(evs) /\ Len(evs) \in Nat
    BY <1>2
  <2>3. \A i \in p + 1..Len(evs) : FALSE
    BY <2>2
  <2> QED BY <2>1, <2>2, <2>3 DEF Fits
<1> QED BY <1>1, <1>2

LEMMA MergeStep ==
    ASSUME L!TypeOK, RingOK, NEW batch \in Seq(L!Event), NEW n \in 1..Len(batch), AsSent(batch[n]),
           NEW ap \in BOOLEAN, ap = L!AllAppend(batch), NEW quiet \in BOOLEAN,
           quiet => Rising(batch, ap) /\ InTime(events), NEW s \in Merging, NEW t,
           MergedSoFar(n - 1, s, batch, quiet), t = L!Merge(s, batch[n], ap)
    PROVE  MergedSoFar(n, t, batch, quiet)
<1>1. PICK e \in L!Event : e = batch[n]
  OBVIOUS
<1>2. events \in Seq(L!Event) /\ seenIds = IdsOf(events) /\ (trimmed # {} => Len(events) = RingSize)
  BY DEF L!TypeOK, RingOK
<1>3. /\ IdsApart(s.evs) /\ s.ids = IdsOf(s.evs)
      /\ \A j \in 1..Len(s.evs) : AsSent(s.evs[j])
      /\ SomeOld(s.evs) /\ OldOrNew(s.evs, batch, n - 1)
      /\ Len(events) <= Len(s.evs)
      /\ quiet => Sorted(s.evs)
  BY DEF MergedSoFar
<1>4. \A k \in 1..n - 1 : batch[k].id \in s.ids
  BY DEF MergedSoFar
<1>5. s.evs \in Seq(L!Event) /\ Len(s.evs) \in Nat /\ n \in Nat
  BY DEF Merging
<1>6. \A k \in 1..n : k \in 1..n - 1 \/ k = n
  BY <1>5
<1>7. \A k \in 1..n - 1 : k \in 1..n
  BY <1>5
<1>8. CASE e.id \in s.ids
  <2>1. t = s
    BY <1>1, <1>8 DEF L!Merge
  <2>2. OldOrNew(s.evs, batch, n)
    BY <1>3, <1>7 DEF OldOrNew
  <2>3. \A k \in 1..n : batch[k].id \in s.ids
    BY <1>1, <1>4, <1>6, <1>8
  <2> QED BY <1>3, <2>1, <2>2, <2>3 DEF MergedSoFar
<1>9. CASE e.id \notin s.ids
  <2>1. PICK r : r = L!Place(s.evs, e, ap)
    OBVIOUS
  <2>2. t.evs = r /\ t.ids = s.ids \cup {e.id}
    BY <1>1, <1>9, <2>1 DEF L!Merge
  <2>3. PICK p \in 0..Len(s.evs) :
           /\ PutIn(r, s.evs, p, e)
           /\ IF ap THEN p = Len(s.evs)
              ELSE (p = 0 \/ s.evs[p].ts <= e.ts) /\ (p = Len(s.evs) \/ ~(s.evs[p + 1].ts <= e.ts))
    <3>1. PICK E, q : E = L!Event /\ q = s.evs
      OBVIOUS
    <3>2. q \in Seq(E) /\ e \in E /\ r = L!Place(q, e, ap)
      BY <1>5, <2>1, <3>1
    <3>3. Placed(r, q, e, ap)
      BY <3>2, PlacePuts
    <3> QED BY <3>1, <3>3 DEF Placed
  <2>4. e.id \notin seenIds
    <3>1. SUFFICES ASSUME e.id \in seenIds PROVE FALSE
      OBVIOUS
    <3>2. PICK i \in 1..Len(events) : e.id = events[i].id
      BY <1>2, <3>1 DEF IdsOf
    <3>3. PICK j \in 1..Len(s.evs) : s.evs[j] = events[i]
      BY <1>3 DEF SomeOld
    <3> QED BY <1>3, <1>9, <3>2, <3>3 DEF IdsOf
  <2>5. IdsApart(r) /\ IdsOf(r) = IdsOf(s.evs) \cup {e.id}
    <3>1. e.id \notin IdsOf(s.evs)
      BY <1>3, <1>9
    <3> QED BY <1>3, <1>5, <2>3, <3>1, PutApart
  <2>6. \A j \in 1..Len(r) : r[j] = e \/ \E i \in 1..Len(s.evs) : r[j] = s.evs[i]
    <3>1. \A j \in 1..Len(r) : \/ j \in 1..p /\ r[j] = s.evs[j]
                               \/ j = p + 1 /\ r[j] = e
                               \/ j - 1 \in p + 1..Len(s.evs) /\ r[j] = s.evs[j - 1]
      <4>1. PICK E, q : E = L!Event /\ q = s.evs
        OBVIOUS
      <4>2. q \in Seq(E) /\ p \in 0..Len(q) /\ PutIn(r, q, p, e)
        BY <1>5, <2>3, <4>1
      <4>3. \A j \in 1..Len(r) : \/ j \in 1..p /\ r[j] = q[j]
                                 \/ j = p + 1 /\ r[j] = e
                                 \/ j - 1 \in p + 1..Len(q) /\ r[j] = q[j - 1]
        BY <4>2, PutPlaces
      <4> QED BY <4>1, <4>3
    <3>2. \A j \in 1..p : j \in 1..Len(s.evs)
      BY <1>5
    <3>3. \A j \in p + 1..Len(s.evs) : j \in 1..Len(s.evs)
      BY <1>5
    <3> QED BY <3>1, <3>2, <3>3
  <2>7. \A i \in 1..Len(s.evs) : \E j \in 1..Len(r) : r[j] = s.evs[i]
    <3>1. PICK E, q : E = L!Event /\ q = s.evs
      OBVIOUS
    <3>2. q \in Seq(E) /\ p \in 0..Len(q) /\ PutIn(r, q, p, e)
      BY <1>5, <2>3, <3>1
    <3>3. Carried(r, q)
      BY <3>2, PutPlaces
    <3> QED BY <3>1, <3>3 DEF Carried
  <2>8. Len(r) = Len(s.evs) + 1
    BY <2>3 DEF PutIn
  <2>9. \A j \in 1..Len(r) : AsSent(r[j])
    BY <1>1, <1>3, <2>6
  <2>10. SomeOld(r)
    BY <1>3, <2>7 DEF SomeOld
  <2>11. OldOrNew(r, batch, n)
    <3>1. n \in 1..n
      BY <1>5
    <3> QED BY <1>1, <1>3, <1>7, <2>4, <2>6, <3>1 DEF OldOrNew
  <2>12. \A k \in 1..n : batch[k].id \in t.ids
    BY <1>1, <1>4, <1>6, <2>2
  <2>13. Len(events) <= Len(r)
    BY <1>2, <1>3, <1>5, <2>8
  <2>14. ASSUME quiet PROVE Sorted(r)
    <3>1. InTime(s.evs) /\ \A x \in trimmed : LastAbove(s.evs, RingSize, x.ts)
      BY <1>3, <2>14 DEF Sorted
    <3>2. Fits(s.evs, p, e.ts)
      <4>1. Rising(batch, ap) /\ InTime(events)
        BY <2>14
      <4> QED BY <1>1, <1>2, <1>3, <1>5, <2>3, <2>4, <3>1, <4>1, MergeFits
    <3>3. \A x \in L!Event : x.ts \in Nat
      BY EventTimes
    <3>4. InTime(r)
      BY <1>5, <2>3, <3>1, <3>2, <3>3, PutInTime
    <3>5. ASSUME NEW x \in trimmed PROVE LastAbove(r, RingSize, x.ts)
      <4>1. RingSize \in Nat \ {0} /\ RingSize <= Len(s.evs)
        BY <1>2, <1>3, RingFacts
      <4>2. x.ts \in Nat
        BY <3>3 DEF L!TypeOK
      <4> QED BY <1>5, <2>3, <3>1, <3>2, <3>3, <4>1, <4>2, PutAbove
    <3> QED BY <3>4, <3>5 DEF Sorted
  <2>15. t.ids = IdsOf(r)
    BY <1>3, <2>2, <2>5
  <2> QED BY <2>2, <2>5, <2>9, <2>10, <2>11, <2>12, <2>13, <2>14, <2>15 DEF MergedSoFar
<1> QED BY <1>8, <1>9

(* A batch merged into the ring.                                           *)
LEMMA BatchMerged ==
    ASSUME L!TypeOK, RingOK, NEW batch \in Seq(L!Event), \A n \in 1..Len(batch) : AsSent(batch[n]),
           NEW quiet \in BOOLEAN, quiet => Rising(batch, L!AllAppend(batch)) /\ Quiet,
           NEW full, full = MergeAllOf(batch, [evs |-> events, ids |-> seenIds])
    PROVE  full \in Merging /\ MergedSoFar(Len(batch), full, batch, quiet)
<1>1. PICK N \in Nat : N = Len(batch)
  OBVIOUS
<1>2. PICK start : start = [evs |-> events, ids |-> seenIds]
  OBVIOUS
<1>3. start \in Merging /\ start.evs = events /\ start.ids = seenIds
  BY <1>2 DEF Merging, L!TypeOK
<1>4. L!AllAppend(batch) \in BOOLEAN
  BY DEF L!AllAppend
<1>5. PICK st \in [0..N -> Merging] :
              /\ st[0] = start
              /\ \A n \in 1..N : st[n] = L!Merge(st[n - 1], batch[n], L!AllAppend(batch))
              /\ st[N] = MergeAllOf(batch, start)
  BY <1>1, <1>3, <1>4, MergeLadder
<1> DEFINE Done == {n \in 0..N : MergedSoFar(n, st[n], batch, quiet)}
<1>6. 0 \in Done
  <2>1. \A k \in 1..0 : FALSE
    OBVIOUS
  <2>2. /\ IdsApart(events) /\ seenIds = IdsOf(events) /\ \A j \in 1..Len(events) : AsSent(events[j])
    BY DEF RingOK
  <2>3. SomeOld(events) /\ OldOrNew(events, batch, 0)
    BY DEF SomeOld, OldOrNew
  <2>4. Len(events) <= Len(events)
    BY DEF L!TypeOK
  <2>5. quiet => Sorted(events)
    BY DEF Quiet, Sorted
  <2>6. MergedSoFar(0, start, batch, quiet)
    BY <1>3, <2>1, <2>2, <2>3, <2>4, <2>5 DEF MergedSoFar
  <2> QED BY <1>1, <1>5, <2>6
<1>7. ASSUME NEW n \in 1..N, n - 1 \in Done PROVE n \in Done
  <2>1. MergedSoFar(n - 1, st[n - 1], batch, quiet) /\ st[n - 1] \in Merging
    BY <1>5, <1>7
  <2>2. st[n] = L!Merge(st[n - 1], batch[n], L!AllAppend(batch)) /\ AsSent(batch[n]) /\ n \in 1..Len(batch)
    BY <1>1, <1>5
  <2>3. PICK s, t, ap : s = st[n - 1] /\ t = st[n] /\ ap = L!AllAppend(batch)
    OBVIOUS
  <2>4. quiet => Rising(batch, ap) /\ InTime(events)
    BY <2>3 DEF Quiet
  <2>5. MergedSoFar(n, t, batch, quiet)
    BY <1>4, <2>1, <2>2, <2>3, <2>4, MergeStep
  <2>6. n \in 0..N
    BY <1>1
  <2> QED BY <2>3, <2>5, <2>6
<1>8. 0..N \subseteq Done
  <2> HIDE DEF Done
  <2> QED BY <1>1, <1>6, <1>7, UpTo
<1>9. N \in Done /\ N \in 0..N
  BY <1>1, <1>8
<1> QED BY <1>1, <1>2, <1>5, <1>9

LEMMA TrimKeepsEnd ==
    ASSUME NEW v \in Merging, IdsApart(v.evs), v.ids = IdsOf(v.evs), NEW t, t = L!Trim(v)
    PROVE  /\ t \in Merging /\ IdsApart(t.evs) /\ t.ids = IdsOf(t.evs)
           /\ Len(t.evs) = IF Len(v.evs) <= RingSize THEN Len(v.evs) ELSE RingSize
           /\ IsEnd(t.evs, v.evs, Len(v.evs) - Len(t.evs))
<1>1. PICK E, q : E = L!Event /\ q = v.evs
  OBVIOUS
<1>2. q \in Seq(E) /\ Len(q) \in Nat /\ v.ids \in SUBSET (1..MaxId)
  BY <1>1 DEF Merging
<1>3. PICK kept : kept = L!Newest(q, RingSize)
  OBVIOUS
<1>4. PICK d : d = Len(q) - Len(kept)
  OBVIOUS
<1>5. kept \in Seq(E) /\ Len(kept) = (IF Len(q) <= RingSize THEN Len(q) ELSE RingSize) /\ IsEnd(kept, q, d)
  BY <1>2, <1>3, <1>4, RingFacts, NewestIs
<1>6. t = [evs |-> kept, ids |-> v.ids \ {q[i].id : i \in 1..d}]
  BY <1>1, <1>3, <1>4 DEF L!Trim
<1>7. d \in 0..Len(q) /\ Len(kept) = Len(q) - d /\ Len(kept) \in Nat
  BY <1>5 DEF IsEnd
<1>8. \A i \in 1..Len(kept) : d + i \in 1..Len(q) /\ kept[i] = q[d + i]
  BY <1>5 DEF IsEnd
<1>9. \A i, j \in 1..Len(q) : q[i].id = q[j].id => i = j
  BY <1>1 DEF IdsApart
<1>10. IdsApart(kept)
  <2> SUFFICES ASSUME NEW i \in 1..Len(kept), NEW j \in 1..Len(kept), kept[i].id = kept[j].id PROVE i = j
    BY DEF IdsApart
  <2>1. d + i = d + j
    BY <1>8, <1>9
  <2> QED BY <1>7, <2>1
<1>11. ASSUME NEW x PROVE x \in t.ids <=> x \in IdsOf(kept)
  <2>0. x \in t.ids <=> x \in IdsOf(q) /\ ~\E i \in 1..d : x = q[i].id
    BY <1>1, <1>6
  <2>1. ASSUME x \in t.ids PROVE x \in IdsOf(kept)
    <3>1. PICK j \in 1..Len(q) : x = q[j].id
      BY <2>0, <2>1 DEF IdsOf
    <3>2. j \notin 1..d
      BY <2>0, <2>1, <3>1
    <3>3. j - d \in 1..Len(kept) /\ d + (j - d) = j
      BY <1>7, <3>2
    <3>4. kept[j - d] = q[j]
      BY <1>8, <3>3
    <3> QED BY <3>1, <3>3, <3>4 DEF IdsOf
  <2>2. ASSUME x \in IdsOf(kept) PROVE x \in t.ids
    <3>1. PICK i \in 1..Len(kept) : x = kept[i].id
      BY <2>2 DEF IdsOf
    <3>2. d + i \in 1..Len(q) /\ x = q[d + i].id
      BY <1>8, <3>1
    <3>3. \A k \in 1..d : k \in 1..Len(q) /\ k # d + i
      BY <1>7
    <3>4. \A k \in 1..d : x # q[k].id
      BY <1>9, <3>2, <3>3
    <3> QED BY <2>0, <3>2, <3>4 DEF IdsOf
  <2> QED BY <2>1, <2>2
<1>12. t.evs = kept /\ t.ids \in SUBSET (1..MaxId)
  BY <1>2, <1>6
<1>13. t \in Merging
  BY <1>1, <1>2, <1>5, <1>6 DEF Merging
<1>14. t.ids = IdsOf(kept)
  BY <1>11
<1> QED BY <1>1, <1>4, <1>5, <1>10, <1>12, <1>13, <1>14

(* The part of a reader's list that its watcher takes.                     *)
LEMMA FreshIs ==
    ASSUME TimeInv, NEW m \in Members, NEW fresh, fresh = L!Fresh(m)
    PROVE  /\ fresh \in Seq(1..MaxId)
           /\ \E p \in 0..Len(list[m]) - behind[m] : IsEnd(fresh, list[m], p)
<1>1. PICK q : q = list[m]
  OBVIOUS
<1>2. q \in Seq(1..MaxId) /\ Len(q) \in Nat /\ behind[m] \in Nat /\ behind[m] <= Len(q)
  BY <1>1, RingFacts DEF TimeInv, L!TypeOK, ReaderOK, CursorIs
<1>3. PICK places : places = {i \in 1..Len(q) : q[i] = cursor[m]}
  OBVIOUS
<1>4. fresh = IF places = {} THEN q ELSE SubSeq(q, L!Min(places) + 1, Len(q))
  BY <1>1, <1>3 DEF L!Fresh
<1>5. CASE places = {}
  <2>1. fresh = q
    BY <1>4, <1>5
  <2>2. 0 \in 0..Len(q) - behind[m]
    BY <1>2
  <2>3. \A i \in 1..Len(q) : 0 + i = i
    BY <1>2
  <2>4. IsEnd(fresh, q, 0)
    BY <1>2, <2>1, <2>3 DEF IsEnd
  <2> QED BY <1>1, <1>2, <2>1, <2>2, <2>4
<1>6. CASE places # {}
  <2>1. PICK p : p = L!Min(places)
    OBVIOUS
  <2>2. p \in places /\ \A i \in places : p <= i
    <3>1. places \subseteq Nat
      BY <1>2, <1>3
    <3> QED BY <1>6, <2>1, <3>1, LeastNumber DEF L!Min
  <2>3. p \in 1..Len(q)
    BY <1>3, <2>2
  <2>4. p <= Len(q) - behind[m]
    <3>1. CASE behind[m] = Len(q)
      <4>1. cursor[m] = 0
        BY <1>1, <3>1 DEF TimeInv, ReaderOK, CursorIs
      <4>2a. q[p] = cursor[m]
        BY <1>3, <2>2
      <4>2b. q[p] \in 1..MaxId
        <5>1. PICK S : S = 1..MaxId
          OBVIOUS
        <5>2. q \in Seq(S)
          BY <1>2, <5>1
        <5>3. q[p] \in S
          BY <2>3, <5>2
        <5> QED BY <5>1, <5>3
      <4>2. q[p] = 0 /\ q[p] \in 1..MaxId
        BY <4>1, <4>2a, <4>2b
      <4>3. FALSE
        BY <4>2 
      <4> QED BY <4>3
    <3>2. CASE behind[m] # Len(q)
      <4>1. cursor[m] = q[Len(q) - behind[m]]
        BY <1>1, <3>2 DEF TimeInv, ReaderOK, CursorIs
      <4>2. Len(q) - behind[m] \in 1..Len(q)
        BY <1>2, <3>2
      <4>3. Len(q) - behind[m] \in places
        BY <1>3, <4>1, <4>2
      <4> QED BY <2>2, <4>3
    <3> QED BY <3>1, <3>2
  <2>5. fresh = SubSeq(q, p + 1, Len(q))
    BY <1>4, <1>6, <2>1
  <2>6a. fresh \in Seq(1..MaxId)
    <3>1. PICK S : S = 1..MaxId
      OBVIOUS
    <3>2. q \in Seq(S)
      BY <1>2, <3>1
    <3>3. fresh \in Seq(S)
      <4>1. CASE p = Len(q)
        <5>1. fresh = <<>>
          BY <1>2, <2>3, <2>5, <3>2, <4>1
        <5> QED BY <5>1
      <4>2. CASE p # Len(q)
        <5>1. PICK k \in 1..Len(q) : k = p + 1
          BY <1>2, <2>3, <4>2
        <5> QED BY <2>5, <3>2, <5>1, RestOf
      <4> QED BY <4>1, <4>2
    <3> QED BY <3>1, <3>3
  <2>6b. Len(fresh) = Len(q) - p
    BY <1>2, <2>3, <2>5
  <2>6. fresh \in Seq(1..MaxId) /\ Len(fresh) = Len(q) - p
    BY <2>6a, <2>6b
  <2>7. \A i \in 1..Len(fresh) : p + i \in 1..Len(q) /\ fresh[i] = q[p + i]
    <3>1. \A i \in 1..Len(fresh) : p + i \in 1..Len(q)
      BY <1>2, <2>3, <2>6
    <3>2. \A i \in 1..Len(fresh) : fresh[i] = q[p + i]
      <4>1. CASE p = Len(q)
        <5>1. \A i \in 1..Len(fresh) : FALSE
          BY <1>2, <2>6, <4>1
        <5> QED BY <5>1
      <4>2. CASE p # Len(q)
        <5>1. PICK k \in 1..Len(q) : k = p + 1
          BY <1>2, <2>3, <4>2
        <5>2. \A i \in 1..Len(fresh) : fresh[i] = q[k + i - 1]
          BY <1>2, <2>5, <5>1, RestOf
        <5>3. \A i \in 1..Len(fresh) : k + i - 1 = p + i
          BY <1>2, <2>3, <2>6, <5>1
        <5> QED BY <5>2, <5>3
      <4> QED BY <4>1, <4>2
    <3> QED BY <3>1, <3>2
  <2>8. IsEnd(fresh, q, p)
    <3>1. p \in 0..Len(q)
      BY <1>2, <2>3
    <3> QED BY <2>6, <2>7, <3>1 DEF IsEnd
  <2>9. p \in 0..Len(q) - behind[m]
    BY <1>2, <2>3, <2>4
  <2> QED BY <1>1, <2>6, <2>8, <2>9
<1> QED BY <1>5, <1>6

BatchOf(m) == [i \in 1..Len(L!Fresh(m)) |-> L!Ev(m, L!Fresh(m)[i])]
(* The events of a batch are those of the list after some place.           *)
TakenFrom(batch, m, p) ==
    /\ p \in 0..Len(list[m]) - behind[m] /\ Len(batch) = Len(list[m]) - p
    /\ \A i \in 1..Len(batch) : p + i \in 1..Len(list[m]) /\ batch[i] = L!Ev(m, list[m][p + i])

(* What the types of the readers' state say.                               *)
LEMMA ReaderFacts ==
    ASSUME TimeInv, NEW m \in Members
    PROVE  /\ list[m] \in Seq(1..MaxId) /\ Len(list[m]) \in Nat
           /\ behind[m] \in 0..Burst /\ behind[m] \in Nat /\ behind[m] <= Len(list[m])
           /\ sent[m] \in Seq(1..MaxTime) /\ Len(sent[m]) \in Nat /\ Len(sent[m]) <= MaxId
BY RingFacts DEF TimeInv, L!TypeOK, ReaderOK, CursorIs

LEMMA MaxIdNat == MaxId \in Nat /\ MaxTime \in Nat
BY SafetyAssumption DEF L!TimelineAssumption

LEMMA SentEvents ==
    ASSUME TimeInv, NEW m \in Members, NEW i \in 1..Len(sent[m])
    PROVE  AsSent(L!Ev(m, i)) /\ L!Ev(m, i) \in L!Event
<1>1. PICK e : e = L!Ev(m, i)
  OBVIOUS
<1>2. e = [member |-> m, id |-> i, ts |-> sent[m][i]]
  BY <1>1 DEF L!Ev
<1>3. i \in 1..MaxId
  BY ReaderFacts, MaxIdNat
<1>4. sent[m][i] \in 1..MaxTime
  <2>1. PICK S, q : S = 1..MaxTime /\ q = sent[m]
    OBVIOUS
  <2>2. q \in Seq(S) /\ i \in 1..Len(q)
    BY <2>1, ReaderFacts
  <2>3. q[i] \in S
    BY <2>2
  <2> QED BY <2>1, <2>3
<1>5. e \in L!Event /\ e.member = m /\ e.id = i /\ e.ts = sent[m][i]
  BY <1>2, <1>3, <1>4 DEF L!Event
<1> QED BY <1>1, <1>5 DEF AsSent

LEMMA BatchIs ==
    ASSUME TimeInv, NEW m \in Members, NEW batch, batch = BatchOf(m)
    PROVE  /\ batch \in Seq(L!Event) /\ \A n \in 1..Len(batch) : AsSent(batch[n])
           /\ \E p : TakenFrom(batch, m, p)
<1>1. PICK fresh : fresh = L!Fresh(m)
  OBVIOUS
<1>2. PICK p \in 0..Len(list[m]) - behind[m] : IsEnd(fresh, list[m], p)
  BY <1>1, FreshIs
<1>3. PICK N \in Nat : N = Len(fresh)
  BY <1>1, FreshIs
<1>4. batch = [i \in 1..N |-> L!Ev(m, fresh[i])]
  BY <1>1, <1>3 DEF BatchOf
<1>5. Len(fresh) = Len(list[m]) - p /\ \A i \in 1..N : p + i \in 1..Len(list[m]) /\ fresh[i] = list[m][p + i]
  BY <1>2, <1>3 DEF IsEnd
<1>6. ASSUME NEW i \in 1..N PROVE AsSent(batch[i]) /\ batch[i] \in L!Event /\ batch[i] = L!Ev(m, list[m][p + i])
  <2>1. batch[i] = L!Ev(m, list[m][p + i])
    BY <1>4, <1>5
  <2>2. list[m][p + i] \in 1..Len(sent[m])
    BY <1>5 DEF TimeInv, ReaderOK, ListHolds
  <2> QED BY <2>1, <2>2, SentEvents
<1>7. batch \in Seq(L!Event) /\ Len(batch) = N
  <2>1. batch \in [1..N -> L!Event]
    <3>1. \A i \in 1..N : L!Ev(m, fresh[i]) \in L!Event
      BY <1>4, <1>6
    <3> QED BY <1>4, <3>1, Zenon
  <2> QED BY <1>3, <2>1
<1>8. TakenFrom(batch, m, p)
  BY <1>3, <1>5, <1>6, <1>7 DEF TakenFrom
<1> QED BY <1>6, <1>7, <1>8

(* While no number of a trimmed event was another member's too, the new    *)
(* events of a batch that is appended are in the order of time.            *)
LEMMA BatchRises ==
    ASSUME TimeInv, L!NoTwinTrimmed, NEW m \in Members, NEW batch, batch = BatchOf(m)
    PROVE  Rising(batch, L!AllAppend(batch))
<1>1. PICK p : TakenFrom(batch, m, p)
  BY BatchIs
<1>2. batch \in Seq(L!Event) /\ \A n \in 1..Len(batch) : AsSent(batch[n])
  BY BatchIs
<1>3. Quiet /\ RingOK /\ events \in Seq(L!Event)
  BY DEF TimeInv, L!TypeOK
<1> SUFFICES ASSUME L!AllAppend(batch), NEW k \in 1..Len(batch), NEW n \in 1..Len(batch), k < n,
                    batch[k].id \notin seenIds
             PROVE  batch[k].ts <= batch[n].ts
  BY DEF Rising
<1>4. PICK a, b \in 1..Len(list[m]) : a = p + k /\ b = p + n
  BY <1>1 DEF TakenFrom
<1>5. batch[k] = L!Ev(m, list[m][a]) /\ batch[n] = L!Ev(m, list[m][b])
  BY <1>1, <1>4 DEF TakenFrom
<1>6. a < b
  <2>1. p \in Nat
    BY <1>1, ReaderFacts DEF TakenFrom
  <2> QED BY <1>2, <1>4, <2>1
<1>7. list[m][a] \in 1..Len(sent[m]) /\ list[m][b] \in 1..Len(sent[m])
  BY DEF TimeInv, ReaderOK, ListHolds
<1>8. CASE a > Len(list[m]) - behind[m]
  <2>1. a <= b
    BY <1>6, ReaderFacts
  <2>2. list[m][a] <= list[m][b]
    BY <1>8, <2>1 DEF TimeInv, ReaderOK, ListRuns
  <2>3. sent[m][list[m][a]] <= sent[m][list[m][b]]
    BY <1>7, <2>2 DEF TimeInv, ClockOK
  <2> QED BY <1>5, <2>3 DEF L!Ev
<1>9. CASE ~(a > Len(list[m]) - behind[m])
  <2>1. a \in 1..Len(list[m]) - behind[m]
    BY <1>9, ReaderFacts
  <2>2. PICK e \in merged : e = batch[k]
    BY <1>5, <2>1 DEF TimeInv, ReaderOK, ListFound
  <2>3. \A i \in 1..Len(events) : events[i].id # e.id
    BY <1>3, <2>2 DEF RingOK, IdsOf
  <2>4. e \in trimmed
    <3>1. Accounted(e, events, trimmed)
      BY DEF TimeInv
    <3>2. ~\E x \in trimmed : x.id = e.id /\ x.member # e.member
      BY DEF L!NoTwinTrimmed
    <3> QED BY <2>3, <3>1, <3>2 DEF Accounted, IsShown, HasTwin
  <2>5. Len(events) = RingSize /\ LastAbove(events, RingSize, e.ts)
    BY <1>3, <2>4 DEF RingOK, Quiet
  <2>6. Len(events) \in 1..Len(events) /\ Len(events) > Len(events) - RingSize /\ events # <<>>
    BY <1>3, <2>5, RingFacts
  <2>7. e.ts <= events[Len(events)].ts
    BY <2>5, <2>6 DEF LastAbove
  <2>8. events[Len(events)].ts <= batch[n].ts
    <3>1. batch[n].ts >= events[Len(events)].ts
      BY <2>6 DEF L!AllAppend, L!Last
    <3>2. batch[n].ts \in Nat /\ events[Len(events)].ts \in Nat
      BY <1>2, <1>3, <2>6, EventTimes
    <3> QED BY <3>1, <3>2
  <2>9. e.ts \in Nat /\ batch[n].ts \in Nat /\ events[Len(events)].ts \in Nat
    BY <1>2, <1>3, <2>2, <2>6, EventTimes
  <2> QED BY <2>2, <2>7, <2>8, <2>9
<1> QED BY <1>8, <1>9

(* What a trim keeps and drops of a ring in which no number occurs twice.  *)
Dropped(full, kept) == {full[i] : i \in 1..Len(full)} \ {kept[i] : i \in 1..Len(kept)}

LEMMA EndParts ==
    ASSUME NEW E, NEW q \in Seq(E), NEW r \in Seq(E), NEW d, IsEnd(r, q, d), IdsApart(q)
    PROVE  /\ \A x \in Dropped(q, r) : \E i \in 1..d : i \in 1..Len(q) /\ x = q[i]
           /\ \A i \in 1..Len(q) : q[i] \in Dropped(q, r) \/ \E j \in 1..Len(r) : r[j] = q[i]
           /\ \A j \in 1..Len(r) : \E i \in 1..Len(q) : r[j] = q[i]
<1>1. d \in 0..Len(q) /\ Len(r) = Len(q) - d /\ Len(q) \in Nat
  BY DEF IsEnd
<1>2. \A i \in 1..Len(r) : d + i \in 1..Len(q) /\ r[i] = q[d + i]
  BY DEF IsEnd
<1>3. ASSUME NEW x \in Dropped(q, r) PROVE \E i \in 1..d : i \in 1..Len(q) /\ x = q[i]
  <2>1. PICK i \in 1..Len(q) : x = q[i] /\ \A j \in 1..Len(r) : r[j] # x
    BY DEF Dropped
  <2>2. CASE i \in 1..d
    BY <2>1, <2>2
  <2>3. CASE i \notin 1..d
    <3>1. i - d \in 1..Len(r) /\ d + (i - d) = i
      BY <1>1, <2>3
    <3>2. r[i - d] = q[i]
      BY <1>2, <3>1
    <3> QED BY <2>1, <3>1, <3>2
  <2> QED BY <2>2, <2>3
<1>4. \A i \in 1..Len(q) : q[i] \in Dropped(q, r) \/ \E j \in 1..Len(r) : r[j] = q[i]
  BY DEF Dropped
<1>5. \A j \in 1..Len(r) : \E i \in 1..Len(q) : r[j] = q[i]
  BY <1>2
<1> QED BY <1>3, <1>4, <1>5

(* An ordered ring stays so when it is trimmed, above all that was dropped. *)
LEMMA TrimSorted ==
    ASSUME NEW q \in Seq(L!Event), NEW r \in Seq(L!Event), NEW d, d = Len(q) - Len(r), IsEnd(r, q, d),
           IdsApart(q), Sorted(q), trimmed \subseteq L!Event, Len(r) <= RingSize,
           NEW tr, tr = trimmed \cup Dropped(q, r)
    PROVE  InTime(r) /\ \A x \in tr : LastAbove(r, RingSize, x.ts)
<1>1. d \in 0..Len(q) /\ Len(r) = Len(q) - d /\ Len(q) \in Nat /\ Len(r) \in Nat
  BY DEF IsEnd
<1>2. \A i \in 1..Len(r) : d + i \in 1..Len(q) /\ r[i] = q[d + i]
  BY DEF IsEnd
<1>3. InTime(q) /\ \A x \in trimmed : LastAbove(q, RingSize, x.ts)
  BY DEF Sorted
<1>4. InTime(r)
  <2> SUFFICES ASSUME NEW i \in 1..Len(r), NEW j \in 1..Len(r), i < j PROVE r[i].ts <= r[j].ts
    BY DEF InTime
  <2>1. d + i \in 1..Len(q) /\ d + j \in 1..Len(q) /\ d + i < d + j
    BY <1>1, <1>2
  <2>2. q[d + i].ts <= q[d + j].ts
    BY <1>3, <2>1 DEF InTime
  <2> QED BY <1>2, <2>2
<1>5. ASSUME NEW x \in tr PROVE LastAbove(r, RingSize, x.ts)
  <2> SUFFICES ASSUME NEW j \in 1..Len(r) PROVE x.ts <= r[j].ts
    BY DEF LastAbove
  <2>1. CASE x \in trimmed
    <3>1. d + j \in 1..Len(q) /\ d + j > Len(q) - RingSize
      BY <1>1, <1>2, RingFacts
    <3>2. x.ts <= q[d + j].ts
      BY <1>3, <2>1, <3>1 DEF LastAbove
    <3> QED BY <1>2, <3>2
  <2>2. CASE x \in Dropped(q, r)
    <3>1. PICK i \in 1..d : i \in 1..Len(q) /\ x = q[i]
      BY <2>2, EndParts
    <3>2. d + j \in 1..Len(q) /\ i < d + j
      BY <1>1, <1>2
    <3>3. q[i].ts <= q[d + j].ts
      BY <1>3, <3>1, <3>2 DEF InTime
    <3> QED BY <1>2, <3>1, <3>3
  <2> QED BY <2>1, <2>2
<1> QED BY <1>4, <1>5

FoundOf(m) == {L!Ev(m, i) : i \in L!Range(list[m])}

LEMMA FlushDoes ==
    ASSUME TimeInv, NEW m \in Members, L!Flush(m), NEW full, NEW st,
           full = MergeAllOf(BatchOf(m), [evs |-> events, ids |-> seenIds]), st = L!Trim(full),
           full.evs \in Seq(L!Event), st.evs \in Seq(L!Event)
    PROVE  /\ events' = st.evs /\ seenIds' = st.ids
           /\ merged' = merged \cup FoundOf(m) /\ trimmed' = trimmed \cup Dropped(full.evs, st.evs)
           /\ cursor' = [cursor EXCEPT ![m] = L!Last(list[m])] /\ behind' = [behind EXCEPT ![m] = 0]
           /\ sent' = sent /\ open' = open /\ list' = list /\ list[m] # <<>>
<1>1. /\ events' = st.evs /\ seenIds' = st.ids
      /\ merged' = merged \cup FoundOf(m)
      /\ trimmed' = trimmed \cup (L!Range(full.evs) \ L!Range(st.evs))
  BY DEF L!Flush, MergeAllOf, BatchOf, FoundOf
<1>2. ASSUME NEW q \in Seq(L!Event) PROVE L!Range(q) = {q[i] : i \in 1..Len(q)}
  BY DEF L!Range
<1>3. L!Range(full.evs) \ L!Range(st.evs) = Dropped(full.evs, st.evs)
  BY <1>2 DEF Dropped
<1>4. /\ cursor' = [cursor EXCEPT ![m] = L!Last(list[m])] /\ behind' = [behind EXCEPT ![m] = 0]
      /\ sent' = sent /\ open' = open /\ list' = list /\ list[m] # <<>>
  BY DEF L!Flush
<1> QED BY <1>1, <1>3, <1>4

LEMMA FoundFacts ==
    ASSUME TimeInv, NEW m \in Members
    PROVE  /\ \A i \in 1..Len(list[m]) : L!Ev(m, list[m][i]) \in FoundOf(m)
           /\ \A e \in FoundOf(m) : e \in L!Event /\ AsSent(e)
           /\ \A e \in FoundOf(m) : \E i \in 1..Len(list[m]) : e = L!Ev(m, list[m][i])
<1>1. L!Range(list[m]) = {list[m][i] : i \in 1..Len(list[m])}
  BY ReaderFacts DEF L!Range
<1>2. \A i \in 1..Len(list[m]) : L!Ev(m, list[m][i]) \in FoundOf(m)
  BY <1>1 DEF FoundOf
<1>3. \A e \in FoundOf(m) : \E i \in 1..Len(list[m]) : e = L!Ev(m, list[m][i])
  BY <1>1 DEF FoundOf
<1>4. \A i \in 1..Len(list[m]) : list[m][i] \in 1..Len(sent[m])
  BY DEF TimeInv, ReaderOK, ListHolds
<1>5. \A i \in 1..Len(list[m]) : L!Ev(m, list[m][i]) \in L!Event /\ AsSent(L!Ev(m, list[m][i]))
  BY <1>4, SentEvents
<1> QED BY <1>2, <1>3, <1>5

LEMMA ReadersFlushed ==
    ASSUME TimeInv, NEW m \in Members, merged' = merged \cup FoundOf(m), list[m] # <<>>,
           cursor' = [cursor EXCEPT ![m] = L!Last(list[m])], behind' = [behind EXCEPT ![m] = 0],
           sent' = sent, list' = list, NEW x \in Members
    PROVE  ReaderOK(x)' /\ ClockOK(x)'
<1>0. ReaderOK(x) /\ ClockOK(x) /\ cursor \in [Members -> 0..MaxId] /\ behind \in [Members -> 0..Burst]
  BY DEF TimeInv, L!TypeOK
<1>1. ClockOK(x)'
  BY <1>0 DEF ClockOK
<1>2. ListHolds(x)'
  BY <1>0 DEF ReaderOK, ListHolds
<1>3. \A y, i : L!Ev(y, i)' = L!Ev(y, i)
  BY DEF L!Ev
<1>4. CASE x # m
  <2>1. cursor'[x] = cursor[x] /\ behind'[x] = behind[x] /\ list'[x] = list[x]
    BY <1>0, <1>4
  <2>2. ListFound(x)'
    BY <1>0, <1>3, <2>1 DEF ReaderOK, ListFound, L!Ev
  <2>3. ListRuns(x)' /\ CursorIs(x)'
    BY <1>0, <2>1 DEF ReaderOK, ListRuns, CursorIs
  <2> QED BY <1>1, <1>2, <2>2, <2>3 DEF ReaderOK
<1>5. CASE x = m
  <2>1. cursor'[m] = list[m][Len(list[m])] /\ behind'[m] = 0 /\ list'[m] = list[m]
    BY <1>0 DEF L!Last
  <2>2. Len(list[m]) \in Nat /\ Len(list[m]) # 0 /\ Len(list[m]) - 0 = Len(list[m])
    BY ReaderFacts
  <2>3. \A i \in 1..Len(list[m]) : L!Ev(m, list[m][i]) \in merged'
    BY FoundFacts
  <2>4. ListFound(m)'
    BY <2>1, <2>2, <2>3 DEF ListFound, L!Ev
  <2>5. \A i \in 1..Len(list[m]) : ~(i > Len(list[m]))
    BY <2>2
  <2>6. ListRuns(m)'
    BY <2>1, <2>2, <2>5 DEF ListRuns
  <2>7. CursorIs(m)'
    BY <2>1, <2>2 DEF CursorIs
  <2> QED BY <1>1, <1>2, <1>5, <2>4, <2>6, <2>7 DEF ReaderOK
<1> QED BY <1>4, <1>5

LEMMA FlushKeeps ==
    ASSUME TimeInv, NEW m \in Members, L!Flush(m)
    PROVE  TimeInv'
<1>1. PICK batch : batch = BatchOf(m)
  OBVIOUS
<1>2. PICK full : full = MergeAllOf(batch, [evs |-> events, ids |-> seenIds])
  OBVIOUS
<1>3. PICK st : st = L!Trim(full)
  OBVIOUS
<1>4. L!TypeOK /\ RingOK /\ events \in Seq(L!Event) /\ trimmed \subseteq L!Event /\ merged \subseteq L!Event
  BY DEF TimeInv, L!TypeOK
<1>5. PICK quiet \in BOOLEAN : quiet <=> L!NoTwinTrimmed'
  OBVIOUS
<1>6. batch \in Seq(L!Event) /\ \A n \in 1..Len(batch) : AsSent(batch[n])
  BY <1>1, BatchIs
<1>7. merged \subseteq merged' /\ trimmed \subseteq trimmed'
  BY DEF L!Flush
<1>8. quiet => Rising(batch, L!AllAppend(batch)) /\ Quiet
  <2>1. SUFFICES ASSUME quiet PROVE L!NoTwinTrimmed
    BY <1>1, BatchRises DEF TimeInv
  <2> QED BY <1>5, <1>7, <2>1 DEF L!NoTwinTrimmed
<1>9. full \in Merging /\ MergedSoFar(Len(batch), full, batch, quiet)
  BY <1>2, <1>4, <1>6, <1>8, BatchMerged
<1>10. /\ IdsApart(full.evs) /\ full.ids = IdsOf(full.evs) /\ full.evs \in Seq(L!Event)
       /\ \A j \in 1..Len(full.evs) : AsSent(full.evs[j])
       /\ SomeOld(full.evs)
       /\ Len(events) <= Len(full.evs)
       /\ quiet => Sorted(full.evs)
  BY <1>9 DEF MergedSoFar, Merging
<1>11. \A k \in 1..Len(batch) : batch[k].id \in IdsOf(full.evs)
  BY <1>9 DEF MergedSoFar
<1>12. PICK q, r, d : q = full.evs /\ r = st.evs /\ d = Len(q) - Len(r)
  OBVIOUS
<1>13. /\ st \in Merging /\ IdsApart(r) /\ st.ids = IdsOf(r) /\ IsEnd(r, q, d)
       /\ Len(r) = IF Len(q) <= RingSize THEN Len(q) ELSE RingSize
  BY <1>3, <1>9, <1>10, <1>12, TrimKeepsEnd
<1>14. r \in Seq(L!Event) /\ q \in Seq(L!Event) /\ st.ids \in SUBSET (1..MaxId) /\ Len(q) \in Nat
  BY <1>10, <1>12, <1>13 DEF Merging
<1>15. /\ events' = r /\ seenIds' = st.ids
       /\ merged' = merged \cup FoundOf(m) /\ trimmed' = trimmed \cup Dropped(q, r)
       /\ cursor' = [cursor EXCEPT ![m] = L!Last(list[m])] /\ behind' = [behind EXCEPT ![m] = 0]
       /\ sent' = sent /\ open' = open /\ list' = list /\ list[m] # <<>>
  <2>1. full.evs \in Seq(L!Event) /\ st.evs \in Seq(L!Event)
    BY <1>12, <1>14
  <2> QED BY <1>1, <1>2, <1>3, <1>12, <2>1, FlushDoes
<1>16. /\ \A i \in 1..Len(q) : q[i] \in trimmed' \/ \E j \in 1..Len(r) : r[j] = q[i]
       /\ \A j \in 1..Len(r) : \E i \in 1..Len(q) : r[j] = q[i]
       /\ \A x \in Dropped(q, r) : \E i \in 1..Len(q) : x = q[i]
  <2>1. IdsApart(q)
    BY <1>10, <1>12
  <2>2. \A x \in Dropped(q, r) : \E i \in 1..d : i \in 1..Len(q) /\ x = q[i]
    BY <1>13, <1>14, <2>1, EndParts
  <2>3. \A i \in 1..Len(q) : q[i] \in Dropped(q, r) \/ \E j \in 1..Len(r) : r[j] = q[i]
    BY <1>13, <1>14, <2>1, EndParts
  <2>4. \A j \in 1..Len(r) : \E i \in 1..Len(q) : r[j] = q[i]
    <3>1. \A j \in 1..Len(r) : d + j \in 1..Len(q) /\ r[j] = q[d + j]
      BY <1>13 DEF IsEnd
    <3> QED BY <3>1
  <2> QED BY <1>15, <2>2, <2>3, <2>4
<1>17. \A e : AsSent(e)' <=> AsSent(e)
  BY <1>15 DEF AsSent
<1>18. \A i \in 1..Len(q) : AsSent(q[i]) /\ q[i] \in L!Event
  BY <1>10, <1>12, <1>14
<1>19. trimmed' \subseteq L!Event /\ \A e \in trimmed' : AsSent(e)
  <2>1. \A e \in trimmed : AsSent(e)
    BY DEF TimeInv
  <2> QED BY <1>4, <1>15, <1>16, <1>18, <2>1
<1>20. merged' \subseteq L!Event /\ \A e \in merged' : AsSent(e)
  <2>1. \A e \in merged : AsSent(e)
    BY DEF TimeInv
  <2> QED BY <1>4, <1>15, <2>1, FoundFacts
<1>21. L!TypeOK'
  <2>1. Len(r) <= RingSize
    BY <1>13, <1>14, RingFacts
  <2>2. L!Last(list[m]) \in 0..MaxId
    <3>1. PICK S, l : S = 1..MaxId /\ l = list[m]
      OBVIOUS
    <3>2. l \in Seq(S) /\ l # <<>>
      BY <1>15, <3>1, ReaderFacts
    <3>3. l[Len(l)] \in S
      BY <3>2
    <3> QED BY <3>1, <3>3, MaxIdNat DEF L!Last
  <2>3. cursor' \in [Members -> 0..MaxId] /\ behind' \in [Members -> 0..Burst]
    BY <1>4, <1>15, <2>2, RingFacts DEF L!TypeOK
  <2>4. events' \in Seq(L!Event) /\ Len(events') <= RingSize /\ seenIds' \in SUBSET (1..MaxId)
    BY <1>14, <1>15, <2>1
  <2> QED BY <1>4, <1>15, <1>19, <1>20, <2>3, <2>4 DEF L!TypeOK
<1>22. \A x \in Members : ClockOK(x)' /\ ReaderOK(x)'
  BY <1>15, ReadersFlushed
<1>23. RingOK'
  <2>1. \A i \in 1..Len(r) : AsSent(r[i])
    BY <1>16, <1>18
  <2>2. trimmed' # {} => Len(r) = RingSize
    <3>1. SUFFICES ASSUME trimmed' # {} PROVE Len(r) = RingSize
      OBVIOUS
    <3>2. CASE trimmed # {}
      <4>1. Len(events) = RingSize /\ Len(events) <= Len(q)
        BY <1>4, <1>10, <1>12, <3>2 DEF RingOK
      <4> QED BY <1>13, <1>14, <4>1, RingFacts
    <3>3. CASE trimmed = {}
      <4>1. Dropped(q, r) # {}
        BY <1>15, <3>1, <3>3
      <4>2. PICK i \in 1..d : i \in 1..Len(q)
        <5>1. IdsApart(q)
          BY <1>10, <1>12
        <5>2. \A x \in Dropped(q, r) : \E i \in 1..d : i \in 1..Len(q) /\ x = q[i]
          BY <1>13, <1>14, <5>1, EndParts
        <5> QED BY <4>1, <5>2
      <4>3. ~(Len(q) <= RingSize)
        BY <1>12, <1>13, <1>14, <4>2
      <4> QED BY <1>13, <4>3
    <3> QED BY <3>2, <3>3
  <2>3. IdsApart(events)' /\ seenIds' = IdsOf(events)'
    BY <1>13, <1>15 DEF IdsApart, IdsOf
  <2>4. \A i \in 1..Len(events') : AsSent(events[i])'
    BY <1>15, <2>1 DEF AsSent
  <2> QED BY <1>15, <2>2, <2>3, <2>4 DEF RingOK
<1>24. \A e \in merged' : Accounted(e, r, trimmed')
  <2>1. \A i \in 1..Len(q) : IsShown(q[i], r, trimmed')
    BY <1>16 DEF IsShown
  <2>2. \A i \in 1..Len(events) : \E j \in 1..Len(q) : q[j] = events[i]
    BY <1>10, <1>12 DEF SomeOld
  <2>3. \A i \in 1..Len(events) : IsShown(events[i], r, trimmed')
    BY <2>1, <2>2
  <2>4. ASSUME NEW e \in merged PROVE Accounted(e, r, trimmed')
    <3>1. Accounted(e, events, trimmed)
      BY DEF TimeInv
    <3>2. CASE IsShown(e, events, trimmed)
      BY <1>7, <2>3, <3>2 DEF IsShown, Accounted
    <3>3. CASE \E x \in trimmed : x.id = e.id /\ x.member # e.member
      BY <1>7, <3>3 DEF HasTwin, Accounted
    <3>4. CASE \E i \in 1..Len(events) : events[i].id = e.id /\ events[i].member # e.member
      <4>1. PICK i \in 1..Len(events) : events[i].id = e.id /\ events[i].member # e.member
        BY <3>4
      <4>2. IsShown(events[i], r, trimmed')
        BY <2>3
      <4> QED BY <4>1, <4>2 DEF IsShown, HasTwin, Accounted
    <3> QED BY <3>1, <3>2, <3>3, <3>4 DEF Accounted, HasTwin
  <2>5. ASSUME NEW e \in FoundOf(m) PROVE Accounted(e, r, trimmed')
    <3>1. PICK i \in 1..Len(list[m]) : e = L!Ev(m, list[m][i])
      BY FoundFacts
    <3>2. PICK p : TakenFrom(batch, m, p)
      BY <1>1, BatchIs
    <3>3. p \in 0..Len(list[m]) - behind[m] /\ Len(batch) = Len(list[m]) - p
      BY <3>2 DEF TakenFrom
    <3>4. CASE i \in 1..Len(list[m]) - behind[m]
      <4>1. e \in merged
        BY <3>1, <3>4 DEF TimeInv, ReaderOK, ListFound
      <4> QED BY <2>4, <4>1
    <3>5. CASE i \notin 1..Len(list[m]) - behind[m]
      <4>1. PICK k \in 1..Len(batch) : p + k = i
        <5>1. i - p \in 1..Len(batch) /\ p + (i - p) = i
          BY <3>3, <3>5, ReaderFacts
        <5> QED BY <5>1
      <4>2. batch[k] = e
        BY <3>1, <3>2, <4>1 DEF TakenFrom
      <4>3. PICK j \in 1..Len(q) : q[j].id = e.id
        BY <1>11, <1>12, <4>2 DEF IdsOf
      <4>4. AsSent(q[j]) /\ AsSent(e) /\ q[j] \in L!Event /\ e \in L!Event
        BY <1>18, FoundFacts
      <4>5. CASE q[j].member = e.member
        <5>1. q[j].ts = e.ts
          BY <4>3, <4>4, <4>5 DEF AsSent
        <5>2. q[j] = e
          BY <4>3, <4>4, <4>5, <5>1 DEF L!Event
        <5> QED BY <2>1, <5>2 DEF Accounted
      <4>6. CASE q[j].member # e.member
        <5>1. IsShown(q[j], r, trimmed')
          BY <2>1
        <5> QED BY <4>3, <4>6, <5>1 DEF IsShown, HasTwin, Accounted
      <4> QED BY <4>5, <4>6
    <3> QED BY <3>4, <3>5
  <2> QED BY <1>15, <2>4, <2>5
<1>25. L!NoTwinTrimmed' => Quiet'
  <2> SUFFICES ASSUME L!NoTwinTrimmed' PROVE Quiet'
    OBVIOUS
  <2>1. Sorted(q)
    BY <1>5, <1>10, <1>12
  <2>2. IdsApart(q) /\ Len(r) <= RingSize
    BY <1>10, <1>12, <1>13, <1>14, RingFacts
  <2>3. InTime(r) /\ \A x \in trimmed' : LastAbove(r, RingSize, x.ts)
    BY <1>4, <1>12, <1>13, <1>14, <1>15, <2>1, <2>2, TrimSorted
  <2> QED BY <1>15, <2>3 DEF Quiet, InTime, LastAbove
<1>26. \A e \in merged' : Accounted(e, events, trimmed)'
  BY <1>15, <1>24 DEF Accounted, IsShown, HasTwin
<1>27. \A e \in (merged \cup trimmed)' : AsSent(e)'
  BY <1>17, <1>19, <1>20
<1> QED BY <1>21, <1>22, <1>23, <1>25, <1>26, <1>27 DEF TimeInv

LEMMA TimeStarts == L!Init => TimeInv
<1> SUFFICES ASSUME L!Init PROVE TimeInv
  OBVIOUS
<1>0. /\ sent = [m \in Members |-> <<>>] /\ open = {} /\ list = [m \in Members |-> <<>>]
      /\ cursor = [m \in Members |-> 0] /\ behind = [m \in Members |-> 0]
      /\ events = <<>> /\ seenIds = {} /\ merged = {} /\ trimmed = {}
  BY DEF L!Init
<1>1. Len(<<>>) = 0 /\ \A i : i \notin 1..Len(<<>>)
  OBVIOUS
<1>2. L!TypeOK
  <2>1. sent \in [Members -> Seq(1..MaxTime)] /\ list \in [Members -> Seq(1..MaxId)]
    BY <1>0
  <2>2. cursor \in [Members -> 0..MaxId] /\ behind \in [Members -> 0..Burst]
    BY <1>0, RingFacts, MaxIdNat
  <2>3. \A m \in Members : Len(sent[m]) <= MaxId
    BY <1>0, <1>1, MaxIdNat
  <2>4. events \in Seq(L!Event) /\ Len(events) <= RingSize
    BY <1>0, <1>1, RingFacts
  <2> QED BY <1>0, <2>1, <2>2, <2>3, <2>4 DEF L!TypeOK
<1>3. ASSUME NEW m \in Members PROVE ClockOK(m) /\ ReaderOK(m)
  <2>1. sent[m] = <<>> /\ list[m] = <<>> /\ behind[m] = 0 /\ cursor[m] = 0
    BY <1>0
  <2>2. ClockOK(m) /\ ListHolds(m) /\ ListRuns(m)
    BY <1>1, <2>1 DEF ClockOK, ListHolds, ListRuns
  <2>3. ListFound(m) /\ CursorIs(m)
    BY <1>1, <2>1 DEF ListFound, CursorIs
  <2> QED BY <2>2, <2>3 DEF ReaderOK
<1>4. RingOK
  BY <1>0, <1>1 DEF RingOK, IdsApart, IdsOf
<1>5. Quiet
  BY <1>0, <1>1 DEF Quiet, InTime
<1> QED BY <1>0, <1>2, <1>3, <1>4, <1>5 DEF TimeInv

(* A step of the readers alone keeps what is said of the ring.             *)
LEMMA RingRests ==
    ASSUME TimeInv, L!TypeOK', \A x \in Members : ClockOK(x)' /\ ReaderOK(x)',
           \A e : AsSent(e) => AsSent(e)',
           events' = events, seenIds' = seenIds, merged' = merged, trimmed' = trimmed
    PROVE  TimeInv'
<1>1. RingOK'
  BY DEF TimeInv, RingOK, IdsApart, IdsOf
<1>2. \A e \in (merged \cup trimmed)' : AsSent(e)'
  BY DEF TimeInv
<1>3. \A e \in merged' : Accounted(e, events, trimmed)'
  BY DEF TimeInv, Accounted, IsShown, HasTwin
<1>4. L!NoTwinTrimmed' => Quiet'
  BY DEF TimeInv, L!NoTwinTrimmed, Quiet, InTime, LastAbove
<1> QED BY <1>1, <1>2, <1>3, <1>4 DEF TimeInv

LEMMA ReaderRests ==
    ASSUME TimeInv, NEW x \in Members, sent'[x] = sent[x], list'[x] = list[x], cursor'[x] = cursor[x],
           behind'[x] = behind[x], merged' = merged
    PROVE  ClockOK(x)' /\ ReaderOK(x)'
<1>1. ClockOK(x) /\ ReaderOK(x)
  BY DEF TimeInv
<1>2. ClockOK(x)' /\ ListHolds(x)'
  BY <1>1 DEF ClockOK, ReaderOK, ListHolds
<1>3. ListRuns(x)' /\ CursorIs(x)'
  BY <1>1 DEF ReaderOK, ListRuns, CursorIs
<1>4. ListFound(x)'
  BY <1>1 DEF ReaderOK, ListFound, L!Ev
<1> QED BY <1>2, <1>3, <1>4 DEF ReaderOK

LEMMA PublishKeeps ==
    ASSUME TimeInv, NEW m \in Members, NEW t \in 1..MaxTime, L!Publish(m, t)
    PROVE  TimeInv'
<1>1. /\ Len(sent[m]) < MaxId /\ (sent[m] # <<>> => t >= L!Last(sent[m]))
      /\ sent' = [sent EXCEPT ![m] = Append(sent[m], t)]
      /\ open' = open /\ list' = list /\ cursor' = cursor /\ behind' = behind
      /\ events' = events /\ seenIds' = seenIds /\ merged' = merged /\ trimmed' = trimmed
  BY DEF L!Publish
<1>2. L!TypeOK
  BY DEF TimeInv
<1>3. PICK q, S : q = sent[m] /\ S = 1..MaxTime
  OBVIOUS
<1>4. q \in Seq(S) /\ t \in S /\ Len(q) \in Nat /\ Len(q) < MaxId
  BY <1>1, <1>3, ReaderFacts
<1>5. PICK u : u = Append(q, t)
  OBVIOUS
<1>6. u \in Seq(S) /\ Len(u) = Len(q) + 1 /\ u[Len(q) + 1] = t /\ \A i \in 1..Len(q) : u[i] = q[i]
  BY <1>4, <1>5
<1>7. sent'[m] = u /\ \A x \in Members : x # m => sent'[x] = sent[x]
  BY <1>1, <1>2, <1>3, <1>5 DEF L!TypeOK
<1>8. \A x \in Members : \A i \in 1..Len(sent[x]) : i \in 1..Len(sent'[x]) /\ sent'[x][i] = sent[x][i]
  <2> SUFFICES ASSUME NEW x \in Members, NEW i \in 1..Len(sent[x])
               PROVE  i \in 1..Len(sent'[x]) /\ sent'[x][i] = sent[x][i]
    OBVIOUS
  <2>1. CASE x = m
    BY <1>3, <1>4, <1>6, <1>7, <2>1
  <2> QED BY <1>7, <2>1
<1>9. L!TypeOK'
  <2>1. sent' \in [Members -> Seq(1..MaxTime)]
    BY <1>1, <1>2, <1>3, <1>5, <1>6 DEF L!TypeOK
  <2>2. Len(u) <= MaxId
    BY <1>4, <1>6, MaxIdNat
  <2>3. \A x \in Members : Len(sent'[x]) <= MaxId
    BY <1>2, <1>7, <2>2 DEF L!TypeOK
  <2> QED BY <1>1, <1>2, <2>1, <2>3 DEF L!TypeOK
<1>10. \A e : AsSent(e) => AsSent(e)'
  BY <1>8 DEF AsSent
<1>11. ClockOK(m)'
  <2>1. \A i, j \in 1..Len(q) : i <= j => q[i] <= q[j]
    BY <1>3 DEF TimeInv, ClockOK
  <2>2. ASSUME NEW i \in 1..Len(u), NEW j \in 1..Len(u), i <= j PROVE u[i] <= u[j]
    <3>1. CASE j \in 1..Len(q)
      BY <1>4, <1>6, <2>1, <2>2, <3>1
    <3>2. CASE j \notin 1..Len(q)
      <4>1. j = Len(q) + 1 /\ u[j] = t
        BY <1>4, <1>6, <3>2
      <4>2. CASE i = j
        BY <1>4, <4>1, <4>2, MaxIdNat, <1>3
      <4>3. CASE i # j
        <5>1. i \in 1..Len(q) /\ i <= Len(q) /\ Len(q) \in 1..Len(q)
          BY <1>4, <1>6, <2>2, <4>1, <4>3
        <5>2. q[i] <= q[Len(q)] /\ u[i] = q[i]
          BY <1>6, <2>1, <5>1
        <5>3. q # <<>>
          BY <5>1
        <5>4. q[Len(q)] <= t
          <6>1. t >= q[Len(q)]
            BY <1>1, <1>3, <5>3 DEF L!Last
          <6> QED BY <6>1
        <5>5. q[i] \in S /\ q[Len(q)] \in S
          BY <1>4, <5>1
        <5>6. q[i] \in Nat /\ q[Len(q)] \in Nat /\ t \in Nat
          BY <1>3, <5>5, MaxIdNat
        <5> QED BY <4>1, <5>2, <5>4, <5>6
      <4> QED BY <4>2, <4>3
    <3> QED BY <3>1, <3>2
  <2> QED BY <1>7, <2>2 DEF ClockOK
<1>12. ReaderOK(m)'
  <2>1. ReaderOK(m)
    BY DEF TimeInv
  <2>2. ListHolds(m)'
    BY <1>1, <1>8, <2>1 DEF ReaderOK, ListHolds
  <2>3. ListRuns(m)' /\ CursorIs(m)'
    BY <1>1, <2>1 DEF ReaderOK, ListRuns, CursorIs
  <2>4. \A i \in 1..Len(list[m]) - behind[m] : i \in 1..Len(list[m])
    BY ReaderFacts
  <2>5. \A i \in 1..Len(list[m]) - behind[m] : L!Ev(m, list[m][i])' = L!Ev(m, list[m][i])
    BY <1>1, <1>8, <2>1, <2>4 DEF ReaderOK, ListHolds, L!Ev
  <2>6. ListFound(m)'
    BY <1>1, <2>1, <2>5 DEF ReaderOK, ListFound
  <2> QED BY <2>2, <2>3, <2>6 DEF ReaderOK
<1>13. ASSUME NEW x \in Members PROVE ClockOK(x)' /\ ReaderOK(x)'
  <2>1. CASE x = m
    BY <1>11, <1>12, <2>1
  <2>2. CASE x # m
    BY <1>1, <1>7, <2>2, ReaderRests
  <2> QED BY <2>1, <2>2
<1> QED BY <1>1, <1>9, <1>10, <1>13, RingRests

(* The places of a reader's list after one more event has come.            *)
ListGrown(S, l, b, a, r) ==
    /\ r \in Seq(S) /\ Len(r) \in Nat /\ IsEnd(r, a, Len(a) - Len(r))
    /\ b + 1 <= Len(r) /\ (b + 1 = Len(r) <=> b = Len(l))

LEMMA ListGrows ==
    ASSUME NEW S, NEW l \in Seq(S), NEW i \in S, NEW n \in Nat \ {0}, NEW b \in Nat,
           b <= Len(l), b + 1 < n, NEW a, a = Append(l, i), NEW r, r = L!Newest(a, n)
    PROVE  ListGrown(S, l, b, a, r)
<1>1. a \in Seq(S) /\ Len(a) = Len(l) + 1 /\ Len(l) \in Nat
  OBVIOUS
<1>2. r \in Seq(S) /\ Len(r) = (IF Len(a) <= n THEN Len(a) ELSE n) /\ IsEnd(r, a, Len(a) - Len(r))
  <2>1. a \in Seq(S) /\ n \in Nat \ {0} /\ r = L!Newest(a, n)
    BY <1>1
  <2> QED BY <2>1, NewestIs, Zenon
<1>3. Len(r) \in Nat
  BY <1>2
<1>4. b + 1 <= Len(r) /\ (b + 1 = Len(r) <=> b = Len(l))
  <2>1. PICK x, y : x = Len(l) /\ y = Len(r)
    OBVIOUS
  <2>2. x \in Nat /\ y = (IF x + 1 <= n THEN x + 1 ELSE n) /\ b <= x
    BY <1>1, <1>2, <2>1
  <2>3. b + 1 <= y /\ (b + 1 = y <=> b = x)
    BY <2>2
  <2> QED BY <2>1, <2>3
<1> QED BY <1>2, <1>3, <1>4 DEF ListGrown

LEMMA ReceiveKeeps ==
    ASSUME TimeInv, NEW m \in Members, L!Receive(m)
    PROVE  TimeInv'
<1>1. PICK i \in 1..Len(sent[m]) :
          /\ behind[m] > 0 => i = L!Last(list[m]) + 1
          /\ list' = [list EXCEPT ![m] = L!Newest(Append(list[m], i), RingSize)]
  BY DEF L!Receive
<1>2. /\ behind[m] < Burst /\ behind' = [behind EXCEPT ![m] = behind[m] + 1]
      /\ sent' = sent /\ open' = open /\ cursor' = cursor
      /\ events' = events /\ seenIds' = seenIds /\ merged' = merged /\ trimmed' = trimmed
  BY DEF L!Receive
<1>3. L!TypeOK /\ ReaderOK(m) /\ ClockOK(m)
  BY DEF TimeInv
<1>4. PICK l, S, b : l = list[m] /\ S = 1..MaxId /\ b = behind[m]
  OBVIOUS
<1>5. PICK a : a = Append(l, i)
  OBVIOUS
<1>6. PICK r : r = L!Newest(a, RingSize)
  OBVIOUS
<1>7. PICK d : d = Len(a) - Len(r)
  OBVIOUS
<1>8. /\ l \in Seq(S) /\ Len(l) \in Nat /\ b \in Nat /\ b <= Len(l) /\ b + 1 < RingSize
      /\ RingSize \in Nat \ {0} /\ b + 1 \in 0..Burst
  <2>1. l \in Seq(S) /\ Len(l) \in Nat /\ b \in Nat /\ b <= Len(l)
    BY <1>4, ReaderFacts
  <2>2. b + 1 < RingSize /\ RingSize \in Nat \ {0} /\ b + 1 \in 0..Burst
    BY <1>2, <1>4, <2>1, RingFacts
  <2> QED BY <2>1, <2>2
<1>9. i \in S /\ i \in Nat
  BY <1>4, ReaderFacts, MaxIdNat
<1>10. /\ r \in Seq(S) /\ Len(r) \in Nat /\ IsEnd(r, a, d)
       /\ b + 1 <= Len(r) /\ (b + 1 = Len(r) <=> b = Len(l))
  <2>1. l \in Seq(S) /\ i \in S /\ RingSize \in Nat \ {0} /\ b \in Nat
    BY <1>8, <1>9
  <2>2. b <= Len(l) /\ b + 1 < RingSize
    BY <1>8
  <2>3. ListGrown(S, l, b, a, r)
    BY <1>5, <1>6, <2>1, <2>2, ListGrows
  <2> QED BY <1>7, <2>3 DEF ListGrown
<1>11. /\ Len(a) = Len(l) + 1 /\ a[Len(l) + 1] = i /\ \A k \in 1..Len(l) : a[k] = l[k]
  BY <1>5, <1>8, <1>9
<1>12. d \in 0..Len(a) /\ Len(r) = Len(a) - d /\ \A k \in 1..Len(r) : d + k \in 1..Len(a) /\ r[k] = a[d + k]
  BY <1>10 DEF IsEnd
<1>13. d \in Nat /\ d <= Len(l) + 1 /\ Len(r) = Len(l) + 1 - d
  BY <1>8, <1>11, <1>12
<1>14. list'[m] = r /\ behind'[m] = b + 1 /\ cursor'[m] = cursor[m]
  BY <1>1, <1>2, <1>3, <1>4, <1>5, <1>6 DEF L!TypeOK
<1>15. \A k \in 1..Len(l) : l[k] \in 1..Len(sent[m]) /\ l[k] \in Nat
  BY <1>3, <1>4 DEF ReaderOK, ListHolds
<1>16. ListHolds(m)'
  <2>1. \A k \in 1..Len(a) : a[k] \in 1..Len(sent[m])
    BY <1>8, <1>11, <1>15
  <2>2. \A k \in 1..Len(r) : r[k] \in 1..Len(sent[m])
    BY <1>12, <2>1
  <2> QED BY <1>2, <1>14, <2>2 DEF ListHolds
<1>17. \A k \in 1..Len(r) - (b + 1) : k \in 1..Len(r) /\ d + k \in 1..Len(l) - b /\ d + k \in 1..Len(l)
  BY <1>8, <1>10, <1>13
<1>18. \A k \in 1..Len(r) - (b + 1) : r[k] = l[d + k]
  BY <1>11, <1>12, <1>17
<1>19. ListFound(m)'
  <2>1. \A k \in 1..Len(l) - b : L!Ev(m, l[k]) \in merged
    BY <1>3, <1>4 DEF ReaderOK, ListFound
  <2>2. \A k \in 1..Len(r) - (b + 1) : L!Ev(m, r[k]) \in merged
    BY <1>17, <1>18, <2>1
  <2> QED BY <1>2, <1>14, <2>2 DEF ListFound, L!Ev
<1>20. ListRuns(m)'
  <2>1. \A x, y \in 1..Len(l) : x > Len(l) - b /\ x <= y => l[x] <= l[y]
    BY <1>3, <1>4 DEF ReaderOK, ListRuns
  <2>2. ASSUME NEW x \in 1..Len(r), NEW y \in 1..Len(r), x > Len(r) - (b + 1), x <= y
        PROVE  r[x] <= r[y]
    <3>1. /\ d + x \in 1..Len(a) /\ d + y \in 1..Len(a) /\ d + x > Len(l) - b /\ d + x <= d + y
          /\ r[x] = a[d + x] /\ r[y] = a[d + y]
      <4>1. /\ d + x \in 1..Len(a) /\ d + y \in 1..Len(a)
            /\ r[x] = a[d + x] /\ r[y] = a[d + y]
        BY <1>12
      <4>2. d + x > Len(l) - b /\ d + x <= d + y
        BY <1>8, <1>10, <1>13, <2>2
      <4> QED BY <4>1, <4>2
    <3>2. CASE d + y \in 1..Len(l)
      <4>1. d + x \in 1..Len(l)
        BY <1>8, <1>11, <3>1, <3>2
      <4> QED BY <1>11, <2>1, <3>1, <3>2, <4>1
    <3>3. CASE d + y \notin 1..Len(l)
      <4>1. d + y = Len(l) + 1 /\ r[y] = i
        BY <1>8, <1>11, <3>1, <3>3
      <4>2. CASE d + x = Len(l) + 1
        <5>1. r[x] = r[y]
          BY <3>1, <4>1, <4>2
        <5> QED BY <1>9, <4>1, <5>1
      <4>3. CASE d + x # Len(l) + 1
        <5>1. d + x \in 1..Len(l) /\ d + x <= Len(l) /\ Len(l) \in 1..Len(l) /\ b > 0
          BY <1>8, <1>11, <3>1, <4>3
        <5>2. l[d + x] <= l[Len(l)] /\ i = l[Len(l)] + 1
          BY <1>1, <1>4, <2>1, <3>1, <5>1 DEF L!Last
        <5>3. r[x] = l[d + x] /\ l[d + x] \in Nat /\ l[Len(l)] \in Nat
          BY <1>11, <1>15, <3>1, <5>1
        <5> QED BY <4>1, <5>2, <5>3
      <4> QED BY <4>2, <4>3
    <3> QED BY <3>2, <3>3
  <2> QED BY <1>14, <2>2 DEF ListRuns
<1>21. CursorIs(m)'
  <2>1. cursor[m] = IF b = Len(l) THEN 0 ELSE l[Len(l) - b]
    BY <1>3, <1>4 DEF ReaderOK, CursorIs
  <2>2. ASSUME b + 1 # Len(r) PROVE r[Len(r) - (b + 1)] = l[Len(l) - b] /\ b # Len(l)
    <3>1. PICK k : k = Len(r) - (b + 1)
      OBVIOUS
    <3>2. k \in 1..Len(r) - (b + 1) /\ d + k = Len(l) - b
      BY <1>8, <1>10, <1>13, <2>2, <3>1
    <3> QED BY <1>10, <1>18, <2>2, <3>1, <3>2
  <2>3. cursor[m] = IF b + 1 = Len(r) THEN 0 ELSE r[Len(r) - (b + 1)]
    BY <1>10, <2>1, <2>2
  <2> QED BY <1>10, <1>14, <2>3 DEF CursorIs
<1>22. ASSUME NEW x \in Members PROVE ClockOK(x)' /\ ReaderOK(x)'
  <2>1. CASE x = m
    <3>1. ClockOK(m)'
      BY <1>2, <1>3 DEF ClockOK
    <3> QED BY <1>16, <1>19, <1>20, <1>21, <2>1, <3>1 DEF ReaderOK
  <2>2. CASE x # m
    <3>1. list'[x] = list[x] /\ behind'[x] = behind[x]
      BY <1>1, <1>2, <1>3, <2>2 DEF L!TypeOK
    <3> QED BY <1>2, <3>1, ReaderRests
  <2> QED BY <2>1, <2>2
<1>23. L!TypeOK'
  <2>1. list' \in [Members -> Seq(1..MaxId)]
    BY <1>1, <1>3, <1>4, <1>5, <1>6, <1>10 DEF L!TypeOK
  <2>2. behind' \in [Members -> 0..Burst]
    BY <1>2, <1>3, <1>4, <1>8 DEF L!TypeOK
  <2> QED BY <1>2, <1>3, <2>1, <2>2 DEF L!TypeOK
<1>24. \A e : AsSent(e) => AsSent(e)'
  BY <1>2 DEF AsSent
<1> QED BY <1>2, <1>22, <1>23, <1>24, RingRests

LEMMA JoinKeeps ==
    ASSUME TimeInv, NEW m \in Members, L!Join(m)
    PROVE  TimeInv'
<1>1. /\ open' = open \cup {m} /\ list' = [list EXCEPT ![m] = <<>>]
      /\ cursor' = [cursor EXCEPT ![m] = 0] /\ behind' = [behind EXCEPT ![m] = 0]
      /\ sent' = sent /\ events' = events /\ seenIds' = seenIds /\ merged' = merged
      /\ trimmed' = trimmed
  BY DEF L!Join
<1>2. L!TypeOK /\ ClockOK(m)
  BY DEF TimeInv
<1>3. list'[m] = <<>> /\ cursor'[m] = 0 /\ behind'[m] = 0
  BY <1>1, <1>2 DEF L!TypeOK
<1>4. Len(<<>>) = 0 /\ \A i : i \notin 1..Len(<<>>)
  OBVIOUS
<1>5. ClockOK(m)' /\ ReaderOK(m)'
  <2>1. ClockOK(m)' /\ ListHolds(m)' /\ ListRuns(m)'
    BY <1>1, <1>2, <1>3, <1>4 DEF ClockOK, ListHolds, ListRuns
  <2>2. ListFound(m)' /\ CursorIs(m)'
    BY <1>3, <1>4 DEF ListFound, CursorIs
  <2> QED BY <2>1, <2>2 DEF ReaderOK
<1>6. ASSUME NEW x \in Members PROVE ClockOK(x)' /\ ReaderOK(x)'
  <2>1. CASE x # m
    <3>1. list'[x] = list[x] /\ behind'[x] = behind[x] /\ cursor'[x] = cursor[x]
      BY <1>1, <1>2, <2>1 DEF L!TypeOK
    <3> QED BY <1>1, <3>1, ReaderRests
  <2> QED BY <1>5, <2>1
<1>7. L!TypeOK'
  <2>1. list' \in [Members -> Seq(1..MaxId)]
    BY <1>1, <1>2 DEF L!TypeOK
  <2>2. behind' \in [Members -> 0..Burst] /\ cursor' \in [Members -> 0..MaxId]
    BY <1>1, <1>2, RingFacts, MaxIdNat DEF L!TypeOK
  <2> QED BY <1>1, <1>2, <2>1, <2>2 DEF L!TypeOK
<1>8. \A e : AsSent(e) => AsSent(e)'
  BY <1>1 DEF AsSent
<1> QED BY <1>1, <1>6, <1>7, <1>8, RingRests

LEMMA NobodyReads ==
    ASSUME TimeInv, open' \in SUBSET Members, sent' = sent, list' = list, cursor' = cursor,
           behind' = behind, events' = events, seenIds' = seenIds, merged' = merged, trimmed' = trimmed
    PROVE  TimeInv'
<1>1. L!TypeOK'
  BY DEF TimeInv, L!TypeOK
<1>2. \A x \in Members : ClockOK(x)' /\ ReaderOK(x)'
  BY ReaderRests
<1>3. \A e : AsSent(e) => AsSent(e)'
  BY DEF AsSent
<1> QED BY <1>1, <1>2, <1>3, RingRests

LEMMA TimeNextKeeps == TimeInv /\ [L!Next]_tlvars => TimeInv'
<1> SUFFICES ASSUME TimeInv, [L!Next]_tlvars PROVE TimeInv'
  OBVIOUS
<1>1. CASE UNCHANGED tlvars
  <2>1. open' \in SUBSET Members
    BY <1>1 DEF tlvars, TimeInv, L!TypeOK
  <2> QED BY <1>1, <2>1, NobodyReads DEF tlvars
<1>2. ASSUME NEW m \in Members, L!Leave(m) PROVE TimeInv'
  <2>1. open' \in SUBSET Members
    BY <1>2 DEF L!Leave, TimeInv, L!TypeOK
  <2> QED BY <1>2, <2>1, NobodyReads DEF L!Leave
<1> QED BY <1>1, <1>2, PublishKeeps, ReceiveKeeps, FlushKeeps, JoinKeeps DEF L!Next

LEMMA TimeIs == TimeInv => TimelineTruthful
<1> SUFFICES ASSUME TimeInv PROVE TimelineTruthful
  OBVIOUS
<1>1. events \in Seq(L!Event) /\ IdsApart(events) /\ seenIds = IdsOf(events)
  BY DEF TimeInv, L!TypeOK, RingOK
<1>2. L!OrderedUnlessTwin
  BY DEF TimeInv, Quiet, InTime, L!OrderedUnlessTwin, L!OrderedByTime
<1>3. L!ShownOnce /\ L!SeenIsTheRing
  BY <1>1 DEF L!ShownOnce, L!SeenIsTheRing, IdsApart, IdsOf
<1>4. L!LostOnlyToTwin
  <2>1. PICK q : q = L!Range(events)
    OBVIOUS
  <2>2. q = {events[i] : i \in 1..Len(events)}
    BY <1>1, <2>1 DEF L!Range
  <2>3. ASSUME NEW e \in merged \ (q \cup trimmed)
        PROVE  \E x \in q \cup trimmed : x.id = e.id /\ x.member # e.member
    <3>1. Accounted(e, events, trimmed)
      BY DEF TimeInv
    <3> QED BY <2>2, <2>3, <3>1 DEF Accounted, IsShown, HasTwin
  <2> QED BY <2>1, <2>3 DEF L!LostOnlyToTwin
<1> QED BY <1>2, <1>3, <1>4 DEF TimelineTruthful

(* The merged timeline shows no event twice and loses one only to another  *)
(* member's event of the same number, its set of known ids is that of the  *)
(* ring, and until such a number leaves the ring it is ordered: for any    *)
(* members, ring size and burst, any number of events, however their       *)
(* streams are cut, replayed and flushed.                                  *)
THEOREM TimelineTruthfulHolds == SafetySpec => []TimelineTruthful
<1>1. SafetyInit => TimeInv
  BY TimeStarts DEF SafetyInit
<1>2. TimeInv /\ [SafetyNext]_<<focus, runners, backends>> => TimeInv'
  <2> SUFFICES ASSUME TimeInv, [SafetyNext]_<<focus, runners, backends>> PROVE TimeInv'
    OBVIOUS
  <2>1. [L!Next]_tlvars
    BY DEF SafetyNext, backends, runners
  <2> QED BY <2>1, TimeNextKeeps
<1>3. TimeInv => TimelineTruthful
  BY TimeIs
<1> QED BY <1>1, <1>2, <1>3, PTL DEF SafetySpec
=============================================================================
