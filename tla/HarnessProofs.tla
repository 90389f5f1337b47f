---------------------------- MODULE HarnessProofs ----------------------------
(* Proofs about MessageBus for every set of messages, every assignment of  *)
(* kinds that keeps send and try_send apart and every queue depth, and     *)
(* about the readiness probe (HealthReady) for any number of concurrent    *)
(* probes and of backends, every TTL and every bound on a sweep.           *)
EXTENDS MCHarness, LoopProofs

-----------------------------------------------------------------------------
(* Membership in a queue under Append and under Head/Tail. *)

(* Appending a message adds that message and nothing else.                 *)
LEMMA InAppend ==
    ASSUME NEW S, NEW q \in Seq(S), NEW x \in S, NEW m
    PROVE  In(Append(q, x), m) <=> (In(q, m) \/ m = x)
<1> DEFINE r == Append(q, x)
<1>1. /\ Len(r) = Len(q) + 1
      /\ Len(q) \in Nat
      /\ \A i \in 1..Len(q) : r[i] = q[i]
      /\ r[Len(q) + 1] = x
  OBVIOUS
<1> HIDE DEF r
<1>2. (In(q, m) \/ m = x) => In(r, m)
  BY <1>1 DEF In
<1>3. In(r, m) => (In(q, m) \/ m = x)
  <2> SUFFICES ASSUME NEW i \in 1..Len(r), r[i] = m
               PROVE  In(q, m) \/ m = x
    BY DEF In
  <2>1. CASE i = Len(q) + 1
    BY <1>1, <2>1
  <2>2. CASE i \in 1..Len(q)
    BY <1>1, <2>2 DEF In
  <2> QED BY <1>1, <2>1, <2>2
<1> QED BY <1>2, <1>3 DEF r

(* A message of a nonempty queue is its head or in its tail.               *)
LEMMA InHeadTail ==
    ASSUME NEW S, NEW q \in Seq(S), q # <<>>, NEW m
    PROVE  In(q, m) <=> (m = Head(q) \/ In(Tail(q), m))
<1> DEFINE t == Tail(q)
<1>1. /\ Len(q) \in Nat /\ Len(q) >= 1
      /\ Len(t) = Len(q) - 1
      /\ \A i \in 1..Len(t) : t[i] = q[i + 1]
      /\ Head(q) = q[1]
  OBVIOUS
<1> HIDE DEF t
<1>2. In(q, m) => (m = Head(q) \/ In(t, m))
  <2> SUFFICES ASSUME NEW i \in 1..Len(q), q[i] = m, i # 1
               PROVE  In(t, m)
    BY <1>1 DEF In
  <2>1. i - 1 \in 1..Len(t) /\ t[i - 1] = q[(i - 1) + 1]
    BY <1>1
  <2>2. (i - 1) + 1 = i
    OBVIOUS
  <2> QED BY <2>1, <2>2 DEF In
<1>3. (m = Head(q) \/ In(t, m)) => In(q, m)
  <2>1. m = Head(q) => In(q, m)
    BY <1>1 DEF In
  <2>2. ASSUME NEW i \in 1..Len(t), t[i] = m
        PROVE  In(q, m)
    <3>1. i + 1 \in 1..Len(q) /\ q[i + 1] = m
      BY <1>1, <2>2
    <3> QED BY <3>1 DEF In
  <2> QED BY <2>1, <2>2 DEF In
<1> QED BY <1>2, <1>3 DEF t

Distinct(q) == \A i, j \in 1..Len(q) : q[i] = q[j] => i = j

(* A queue stays free of repetitions when a message that is not in it is   *)
(* appended ...                                                            *)
LEMMA DistinctAppend ==
    ASSUME NEW S, NEW q \in Seq(S), NEW x \in S, Distinct(q), ~In(q, x)
    PROVE  Distinct(Append(q, x))
<1> DEFINE r == Append(q, x)
<1>1. /\ Len(r) = Len(q) + 1
      /\ Len(q) \in Nat
      /\ \A i \in 1..Len(q) : r[i] = q[i]
      /\ r[Len(q) + 1] = x
  OBVIOUS
<1> HIDE DEF r
<1> SUFFICES ASSUME NEW i \in 1..Len(r), NEW j \in 1..Len(r), r[i] = r[j]
             PROVE  i = j
  BY DEF Distinct, r
<1>2. CASE i \in 1..Len(q) /\ j \in 1..Len(q)
  BY <1>1, <1>2 DEF Distinct
<1>3. CASE i = Len(q) + 1 /\ j \in 1..Len(q)
  BY <1>1, <1>3 DEF In
<1>4. CASE j = Len(q) + 1 /\ i \in 1..Len(q)
  BY <1>1, <1>4 DEF In
<1> QED BY <1>1, <1>2, <1>3, <1>4

(* ... and when its head is removed, which is then no longer in it.        *)
LEMMA DistinctTail ==
    ASSUME NEW S, NEW q \in Seq(S), q # <<>>, Distinct(q)
    PROVE  Distinct(Tail(q)) /\ ~In(Tail(q), Head(q))
<1> DEFINE t == Tail(q)
<1>1. /\ Len(q) \in Nat /\ Len(q) >= 1
      /\ Len(t) = Len(q) - 1
      /\ \A i \in 1..Len(t) : t[i] = q[i + 1]
      /\ Head(q) = q[1]
  OBVIOUS
<1> HIDE DEF t
<1>2. Distinct(t)
  <2> SUFFICES ASSUME NEW i \in 1..Len(t), NEW j \in 1..Len(t), t[i] = t[j]
               PROVE  i = j
    BY DEF Distinct
  <2>1. i + 1 \in 1..Len(q) /\ j + 1 \in 1..Len(q) /\ q[i + 1] = q[j + 1]
    BY <1>1
  <2>2. i + 1 = j + 1
    BY <2>1 DEF Distinct
  <2> QED BY <2>2
<1>3. ~In(t, Head(q))
  <2> SUFFICES ASSUME NEW i \in 1..Len(t), t[i] = q[1]
               PROVE  FALSE
    BY <1>1 DEF In
  <2>1. i + 1 \in 1..Len(q) /\ q[i + 1] = q[1] /\ 1 \in 1..Len(q)
    BY <1>1
  <2>2. i + 1 = 1
    BY <2>1 DEF Distinct
  <2> QED BY <2>2
<1> QED BY <1>2, <1>3 DEF t

-----------------------------------------------------------------------------
(* The inductive invariant.  SingleFlight is not inductive by itself: that *)
(* try_send's membership test excludes a second message needs the slot to  *)
(* be held for as long as the first is in flight, which in turn needs that *)
(* no sender of another kind, putting or cancelled, can discard it.        *)
NoRepetition ==
    /\ Distinct(queue)
    /\ \A m \in Msgs : Queued(m) => worker # m

PuttersWait ==
    \A m \in Msgs : caller[m] = "putting" => m \in SendMsgs /\ ~InFlight(m)

OnePerTryKind ==
    \A m, n \in TryMsgs :
        InFlight(m) /\ InFlight(n) /\ KindOf[m] = KindOf[n] => m = n

IInv ==
    /\ TypeOK
    /\ NoRepetition
    /\ PuttersWait
    /\ TrySlotSpansExecution
    /\ OnePerTryKind
    /\ NoLeakedSlot
    /\ AwaitedIsInFlight

(* The part of IInv that only speaks of which messages are in flight.      *)
LEMMA EnqueueStep ==
    ASSUME TypeOK, NoRepetition, NEW m \in Msgs, ~InFlight(m), ~Full,
           queue' = Append(queue, m), UNCHANGED worker
    PROVE  /\ queue' \in Seq(Msgs) /\ Len(queue') <= MaxDepth
           /\ NoRepetition'
           /\ \A n \in Msgs : InFlight(n)' <=> (InFlight(n) \/ n = m)
<1> USE BusAssumption
<1>1. queue \in Seq(Msgs)
  BY DEF TypeOK
<1>2. /\ queue' \in Seq(Msgs)
      /\ Len(queue') <= MaxDepth
  BY <1>1 DEF Full, TypeOK
<1>3. Distinct(queue')
  BY <1>1, DistinctAppend DEF NoRepetition, InFlight, Queued
<1>4. \A n \in Msgs : In(queue', n) <=> (In(queue, n) \/ n = m)
  BY <1>1, InAppend
<1>5. \A n \in Msgs : Queued(n)' => worker' # n
  BY <1>4 DEF NoRepetition, InFlight, Queued
<1> QED
  BY <1>2, <1>3, <1>4, <1>5 DEF NoRepetition, InFlight, Queued

LEMMA ReceiveStep ==
    ASSUME TypeOK, NoRepetition, Receive
    PROVE  /\ queue' \in Seq(Msgs) /\ Len(queue') <= MaxDepth
           /\ worker' \in Msgs
           /\ NoRepetition'
           /\ \A n \in Msgs : InFlight(n)' <=> InFlight(n)
<1> USE BusAssumption
<1>1. /\ queue \in Seq(Msgs) /\ queue # <<>>
      /\ queue' = Tail(queue) /\ worker' = Head(queue) /\ worker = NoMsg
  BY DEF TypeOK, Receive
<1>2. /\ queue' \in Seq(Msgs)
      /\ Len(queue') <= MaxDepth
      /\ worker' \in Msgs
  BY <1>1 DEF TypeOK
<1>3. Distinct(queue') /\ ~In(queue', worker')
  BY <1>1, DistinctTail DEF NoRepetition
<1>4. \A n \in Msgs : In(queue, n) <=> (n = worker' \/ In(queue', n))
  BY <1>1, InHeadTail
<1>5. \A n \in Msgs : n # NoMsg
  BY DEF Msgs
<1> QED
  BY <1>1, <1>2, <1>3, <1>4, <1>5 DEF NoRepetition, InFlight, Queued

(* When process_bus is left, only the worker's message leaves flight.      *)
LEMMA LeaveStep ==
    ASSUME TypeOK, NoRepetition, NEW m \in Msgs, worker = m,
           worker' \in {NoMsg, Stopped}, UNCHANGED queue
    PROVE  /\ NoRepetition'
           /\ \A n \in Msgs : InFlight(n)' <=> (InFlight(n) /\ n # m)
  BY BusAssumption DEF Msgs, NoRepetition, InFlight, Queued, Distinct

LEMMA SameFlight ==
    ASSUME NoRepetition, UNCHANGED <<queue, worker>>
    PROVE  /\ NoRepetition'
           /\ \A n \in Msgs : InFlight(n)' <=> InFlight(n)
  BY DEF NoRepetition, InFlight, Queued, Distinct, In

(* KindOf is a kind, and tells send from try_send.                         *)
LEMMA KindFacts ==
    /\ \A m \in Msgs : KindOf[m] \in Kinds
    /\ \A s \in SendMsgs, t \in TryMsgs : KindOf[s] # KindOf[t]
    /\ SendMsgs \subseteq Msgs /\ TryMsgs \subseteq Msgs
    /\ \A m \in Msgs : m \in SendMsgs \/ m \in TryMsgs
    /\ \A m \in SendMsgs : m \notin TryMsgs
  BY BusAssumption DEF Msgs

LEMMA InitIInv == Init => IInv
<1> SUFFICES ASSUME Init PROVE IInv
  OBVIOUS
<1>1. TypeOK
  BY BusAssumption DEF Init, TypeOK, CallerStates, ResultStates
<1>2. \A m \in Msgs : ~InFlight(m)
  BY BusAssumption DEF Init, InFlight, Queued, In, Msgs
<1>3. NoRepetition
  BY <1>2 DEF Init, NoRepetition, Distinct, InFlight
<1> QED
  BY <1>1, <1>2, <1>3, KindFacts
  DEF IInv, Init, PuttersWait, TrySlotSpansExecution, OnePerTryKind,
      NoLeakedSlot, AwaitedIsInFlight

LEMMA NextIInv == IInv /\ [Next]_vars => IInv'
<1> SUFFICES ASSUME IInv, [Next]_vars PROVE IInv'
  OBVIOUS
<1> USE DEF Done, CallerStates, ResultStates
<1>0. /\ TypeOK /\ NoRepetition /\ PuttersWait /\ TrySlotSpansExecution
      /\ OnePerTryKind /\ NoLeakedSlot /\ AwaitedIsInFlight
  BY DEF IInv
<1>1. ASSUME NEW m \in SendMsgs, Send(m) PROVE IInv'
  <2>0. m \in Msgs /\ caller[m] = "idle" /\ ~InFlight(m) /\ UNCHANGED worker
    BY <1>1, KindFacts DEF Send, Fresh
  <2>1. CASE Full
    <3>1. /\ UNCHANGED <<queue, worker>>
          /\ caller' = [caller EXCEPT ![m] = "putting"]
          /\ result' = [result EXCEPT ![m] = "pending"]
          /\ pending' = pending \cup {KindOf[m]}
      BY <1>1, <2>1 DEF Send
    <3>2. NoRepetition' /\ \A n \in Msgs : InFlight(n)' <=> InFlight(n)
      BY <1>0, <3>1, SameFlight
    <3>3. TypeOK'
      BY <1>0, <2>0, <3>1, KindFacts DEF TypeOK
    <3> QED BY <1>0, <2>0, <3>1, <3>2, <3>3, KindFacts
        DEF IInv, TypeOK, PuttersWait, TrySlotSpansExecution, OnePerTryKind,
            NoLeakedSlot, AwaitedIsInFlight
  <2>2. CASE ~Full
    <3>1. /\ queue' = Append(queue, m)
          /\ caller' = [caller EXCEPT ![m] = "awaiting"]
          /\ result' = [result EXCEPT ![m] = "pending"]
          /\ pending' = pending \cup {KindOf[m]}
      BY <1>1, <2>2 DEF Send
    <3>2. /\ queue' \in Seq(Msgs) /\ Len(queue') <= MaxDepth
          /\ NoRepetition'
          /\ \A n \in Msgs : InFlight(n)' <=> (InFlight(n) \/ n = m)
      BY <1>0, <2>0, <2>2, <3>1, EnqueueStep
    <3>3. TypeOK'
      BY <1>0, <2>0, <3>1, <3>2, KindFacts DEF TypeOK
    <3> QED BY <1>0, <2>0, <3>1, <3>2, <3>3, KindFacts
        DEF IInv, TypeOK, PuttersWait, TrySlotSpansExecution, OnePerTryKind,
            NoLeakedSlot, AwaitedIsInFlight
  <2> QED BY <2>1, <2>2
<1>2. ASSUME NEW m \in SendMsgs, PutResumes(m) PROVE IInv'
  <2>0. /\ m \in Msgs /\ ~InFlight(m) /\ ~Full
        /\ queue' = Append(queue, m)
        /\ caller' = [caller EXCEPT ![m] = "awaiting"]
        /\ UNCHANGED <<pending, result, worker>>
    BY <1>0, <1>2, KindFacts DEF PutResumes, PuttersWait
  <2>1. /\ queue' \in Seq(Msgs) /\ Len(queue') <= MaxDepth
        /\ NoRepetition'
        /\ \A n \in Msgs : InFlight(n)' <=> (InFlight(n) \/ n = m)
    BY <1>0, <2>0, EnqueueStep
  <2>2. TypeOK'
    BY <1>0, <2>0, <2>1 DEF TypeOK
  <2> QED BY <1>0, <2>0, <2>1, <2>2, KindFacts
      DEF IInv, TypeOK, PuttersWait, TrySlotSpansExecution, OnePerTryKind,
          NoLeakedSlot, AwaitedIsInFlight
<1>3. ASSUME NEW m \in SendMsgs,
             SendTimesOut(m) \/ SendCancelled(m) \/ SendReturns(m)
      PROVE  IInv'
  <2>0. /\ m \in Msgs
        /\ caller' = [caller EXCEPT ![m] = "idle"]
        /\ UNCHANGED <<queue, worker>>
        /\ \/ pending' = pending \ {KindOf[m]}
           \/ pending' = pending /\ caller[m] = "awaiting"
        /\ \/ result' = result
           \/ result' = [result EXCEPT ![m] = "cancelled"]
    BY <1>3, KindFacts DEF SendTimesOut, SendCancelled, SendReturns, Discard
  <2>1. NoRepetition' /\ \A n \in Msgs : InFlight(n)' <=> InFlight(n)
    BY <1>0, <2>0, SameFlight
  <2>2. TypeOK'
    BY <1>0, <2>0 DEF TypeOK
  <2>3. NoLeakedSlot'
    BY <1>0, <2>0, <2>1, KindFacts DEF NoLeakedSlot, TypeOK
  <2>4. PuttersWait' /\ AwaitedIsInFlight'
    BY <1>0, <2>0, <2>1, KindFacts DEF PuttersWait, AwaitedIsInFlight, TypeOK
  <2>5. TrySlotSpansExecution' /\ OnePerTryKind'
    BY <1>0, <2>0, <2>1, KindFacts DEF TrySlotSpansExecution, OnePerTryKind
  <2> QED BY <2>1, <2>2, <2>3, <2>4, <2>5 DEF IInv
<1>4. ASSUME NEW m \in TryMsgs, TrySend(m) PROVE IInv'
  <2>0. m \in Msgs /\ caller[m] = "idle" /\ ~InFlight(m)
    BY <1>4, KindFacts
       DEF TrySend, TrySendDeduped, TrySendFull, TrySendEnqueues, Fresh
  <2>1. CASE TrySendDeduped(m)
    <3>1. UNCHANGED <<queue, worker, pending, caller, result>>
      BY <2>1 DEF TrySendDeduped, vars
    <3>2. NoRepetition' /\ \A n \in Msgs : InFlight(n)' <=> InFlight(n)
      BY <1>0, <3>1, SameFlight
    <3> QED BY <1>0, <3>1, <3>2, KindFacts
        DEF IInv, TypeOK, PuttersWait, TrySlotSpansExecution, OnePerTryKind,
            NoLeakedSlot, AwaitedIsInFlight
  <2>2. CASE TrySendFull(m)
    <3>1. /\ UNCHANGED <<queue, worker, pending, caller>>
          /\ result' = [result EXCEPT ![m] = "pending"]
      BY <2>2 DEF TrySendFull
    <3>2. NoRepetition' /\ \A n \in Msgs : InFlight(n)' <=> InFlight(n)
      BY <1>0, <3>1, SameFlight
    <3> QED BY <1>0, <2>0, <3>1, <3>2, KindFacts
        DEF IInv, TypeOK, PuttersWait, TrySlotSpansExecution, OnePerTryKind,
            NoLeakedSlot, AwaitedIsInFlight
  <2>3. CASE TrySendEnqueues(m)
    <3>1. /\ queue' = Append(queue, m) /\ ~Full /\ UNCHANGED worker
          /\ KindOf[m] \notin pending
          /\ caller' = [caller EXCEPT ![m] = "awaiting"]
          /\ result' = [result EXCEPT ![m] = "pending"]
          /\ pending' = pending \cup {KindOf[m]}
      BY <2>3 DEF TrySendEnqueues
    <3>2. /\ queue' \in Seq(Msgs) /\ Len(queue') <= MaxDepth
          /\ NoRepetition'
          /\ \A n \in Msgs : InFlight(n)' <=> (InFlight(n) \/ n = m)
      BY <1>0, <2>0, <3>1, EnqueueStep
    <3>3. TypeOK'
      BY <1>0, <2>0, <3>1, <3>2, KindFacts DEF TypeOK
    <3>4. \A n \in TryMsgs : InFlight(n) => KindOf[n] # KindOf[m]
      BY <1>0, <3>1 DEF TrySlotSpansExecution
    <3>5. OnePerTryKind' /\ TrySlotSpansExecution'
      BY <1>0, <3>1, <3>2, <3>4, KindFacts
         DEF OnePerTryKind, TrySlotSpansExecution
    <3> QED BY <1>0, <2>0, <3>1, <3>2, <3>3, <3>5, KindFacts
        DEF IInv, TypeOK, PuttersWait, NoLeakedSlot, AwaitedIsInFlight
  <2> QED BY <1>4, <2>1, <2>2, <2>3 DEF TrySend
<1>5. ASSUME NEW m \in TryMsgs, TryCallerLeaves(m) PROVE IInv'
  <2>0. /\ m \in Msgs
        /\ caller[m] = "awaiting"
        /\ caller' = [caller EXCEPT ![m] = "idle"]
        /\ UNCHANGED <<queue, worker, pending, result>>
    BY <1>5, KindFacts DEF TryCallerLeaves
  <2>1. NoRepetition' /\ \A n \in Msgs : InFlight(n)' <=> InFlight(n)
    BY <1>0, <2>0, SameFlight
  <2> QED BY <1>0, <2>0, <2>1, KindFacts
      DEF IInv, TypeOK, PuttersWait, TrySlotSpansExecution, OnePerTryKind,
          NoLeakedSlot, AwaitedIsInFlight
<1>6. CASE Receive
  <2>0. UNCHANGED <<pending, caller, result>>
    BY <1>6 DEF Receive
  <2>1. /\ queue' \in Seq(Msgs) /\ Len(queue') <= MaxDepth
        /\ worker' \in Msgs
        /\ NoRepetition'
        /\ \A n \in Msgs : InFlight(n)' <=> InFlight(n)
    BY <1>0, <1>6, ReceiveStep
  <2> QED BY <1>0, <2>0, <2>1, KindFacts
      DEF IInv, TypeOK, PuttersWait, TrySlotSpansExecution, OnePerTryKind,
          NoLeakedSlot, AwaitedIsInFlight
<1>7. ASSUME NEW m \in Msgs, worker = m, worker' \in {NoMsg, Stopped},
             NEW outcome \in {"ok", "error", "cancelled"}, Settle(m, outcome),
             UNCHANGED <<queue, caller>>
      PROVE  IInv'
  <2>0. /\ pending' = pending \ {KindOf[m]}
        /\ result' = IF Done(m) THEN result ELSE [result EXCEPT ![m] = outcome]
    BY <1>7 DEF Settle
  <2>1. NoRepetition' /\ \A n \in Msgs : InFlight(n)' <=> (InFlight(n) /\ n # m)
    BY <1>0, <1>7, LeaveStep
  <2>2. TypeOK'
    BY <1>0, <1>7, <2>0 DEF TypeOK
  <2>3. NoLeakedSlot'
    BY <1>0, <1>7, <2>0, <2>1 DEF NoLeakedSlot
  <2>4. PuttersWait' /\ AwaitedIsInFlight'
    BY <1>0, <1>7, <2>0, <2>1, KindFacts
       DEF PuttersWait, AwaitedIsInFlight, TypeOK
  <2>5. TrySlotSpansExecution' /\ OnePerTryKind'
    BY <1>0, <1>7, <2>0, <2>1, KindFacts
       DEF TrySlotSpansExecution, OnePerTryKind, InFlight
  <2> QED BY <2>1, <2>2, <2>3, <2>4, <2>5 DEF IInv
<1>8. ASSUME NEW m \in Msgs, ProcessEnds(m) PROVE IInv'
  BY <1>7, <1>8 DEF ProcessEnds
<1>9. CASE WorkerCancelled
  <2>1. CASE worker \in Msgs
    BY <1>7, <1>9, <2>1 DEF WorkerCancelled
  <2>2. CASE worker \notin Msgs
    <3>1. UNCHANGED <<queue, pending, caller, result>> /\ worker' = Stopped
      BY <1>9, <2>2 DEF WorkerCancelled
    <3>2. NoRepetition' /\ \A n \in Msgs : InFlight(n)' <=> InFlight(n)
      BY <1>0, <2>2, <3>1, BusAssumption
         DEF NoRepetition, Msgs, InFlight, Queued, In, Distinct
    <3> QED BY <1>0, <3>1, <3>2, KindFacts
        DEF IInv, TypeOK, PuttersWait, TrySlotSpansExecution, OnePerTryKind,
            NoLeakedSlot, AwaitedIsInFlight
  <2> QED BY <2>1, <2>2
<1>10. CASE UNCHANGED vars
  <2>1. UNCHANGED <<queue, worker, pending, caller, result>>
    BY <1>10 DEF vars
  <2>2. NoRepetition' /\ \A n \in Msgs : InFlight(n)' <=> InFlight(n)
    BY <1>0, <2>1, SameFlight
  <2> QED BY <1>0, <2>1, <2>2, KindFacts
      DEF IInv, TypeOK, PuttersWait, TrySlotSpansExecution, OnePerTryKind,
          NoLeakedSlot, AwaitedIsInFlight
<1> QED
  BY <1>1, <1>2, <1>3, <1>4, <1>5, <1>6, <1>8, <1>9, <1>10
  DEF Next, SenderStep

-----------------------------------------------------------------------------
LEMMA IInvInvariant == Spec => []IInv
  BY InitIInv, NextIInv, PTL DEF Spec

(* Every reachable state of the bus is well typed: in particular the queue *)
(* never exceeds BUS_MAX_QUEUE_DEPTH.                                      *)
THEOREM TypeCorrect == Spec => []TypeOK
<1>1. IInv => TypeOK
  BY DEF IInv
<1> QED BY <1>1, IInvInvariant, PTL

(* try_send deduplicates: at most one message of a kind it is used for is  *)
(* queued or executing (#514).                                             *)
THEOREM SingleFlightHolds == Spec => []SingleFlight
<1>1. IInv => SingleFlight
  BY KindFacts DEF IInv, NoRepetition, OnePerTryKind, SingleFlight, Distinct
<1> QED BY <1>1, IInvInvariant, PTL

(* release_pending and send's cleanup together never leak a dedup slot.    *)
THEOREM NoLeakedSlotHolds == Spec => []NoLeakedSlot
<1>1. IInv => NoLeakedSlot
  BY DEF IInv
<1> QED BY <1>1, IInvInvariant, PTL

(* A sender never awaits a future whose message is gone from the bus.      *)
THEOREM AwaitedIsInFlightHolds == Spec => []AwaitedIsInFlight
<1>1. IInv => AwaitedIsInFlight
  BY DEF IInv
<1> QED BY <1>1, IInvInvariant, PTL

(* process_bus, bus_worker's finally and a cancelled sender never write a  *)
(* future that is already done.  Only a fresh Message gets a new future.   *)
THEOREM ResolvedOnceHolds == Spec => ResolvedOnce
<1> DEFINE Keeps == \A m \in Msgs : InFlight(m) /\ Done(m) => result'[m] = result[m]
<1>1. ASSUME TypeOK, [Next]_vars PROVE Keeps
  <2>0. result \in [Msgs -> ResultStates]
    BY <1>1 DEF TypeOK
  <2>1. ASSUME NEW m \in SendMsgs, SenderStep(m) PROVE Keeps
    <3>1. m \in Msgs
      BY KindFacts
    <3>2. CASE Send(m)
      BY <2>0, <3>1, <3>2 DEF Send, Fresh
    <3>3. CASE SendCancelled(m)
      BY <2>0, <3>1, <3>3 DEF SendCancelled, Done
    <3>4. CASE PutResumes(m) \/ SendTimesOut(m) \/ SendReturns(m)
      BY <3>4 DEF PutResumes, SendTimesOut, SendReturns
    <3> QED BY <2>1, <3>2, <3>3, <3>4 DEF SenderStep
  <2>2. ASSUME NEW m \in TryMsgs, TrySend(m) \/ TryCallerLeaves(m) PROVE Keeps
    <3>1. m \in Msgs
      BY KindFacts
    <3>2. CASE TrySendFull(m) \/ TrySendEnqueues(m)
      BY <2>0, <3>1, <3>2 DEF TrySendFull, TrySendEnqueues, Fresh
    <3>3. CASE TrySendDeduped(m) \/ TryCallerLeaves(m)
      BY <3>3 DEF TrySendDeduped, TryCallerLeaves, vars
    <3> QED BY <2>2, <3>2, <3>3 DEF TrySend
  <2>3. ASSUME NEW m \in Msgs, NEW outcome, Settle(m, outcome) PROVE Keeps
    BY <2>0, <2>3 DEF Settle
  <2>4. ASSUME NEW m \in Msgs, ProcessEnds(m) PROVE Keeps
    BY <2>3, <2>4 DEF ProcessEnds
  <2>5. CASE WorkerCancelled
    BY <2>3, <2>5 DEF WorkerCancelled
  <2>6. CASE Receive \/ UNCHANGED vars
    BY <2>6 DEF Receive, vars
  <2> QED BY <1>1, <2>1, <2>2, <2>4, <2>5, <2>6 DEF Next
<1>2. TypeOK /\ [Next]_vars => [Keeps]_vars
  BY <1>1
<1> QED BY <1>2, TypeCorrect, PTL DEF Spec, ResolvedOnce

-----------------------------------------------------------------------------
(* The bus implements the slot of DispatchSlot, for every set of messages, *)
(* kinds and queue depth: try_send claims, receive starts, the worker's    *)
(* finally finishes, and every other step of the bus leaves the slots of   *)
(* the guarded kinds alone.                                                *)
Running(k) == \E m \in TryMsgs : KindOf[m] = k /\ worker = m
Waiting(k) == \E m \in TryMsgs : KindOf[m] = k /\ Queued(m)

(* SlotPhase, kind by kind.                                                *)
LEMMA PhaseOf ==
    /\ SlotPhase = [k \in TryKinds |-> SlotPhase[k]]
    /\ \A k \in TryKinds :
          SlotPhase[k] = IF Running(k) THEN "running"
                         ELSE IF Waiting(k) THEN "queued" ELSE "free"
BY DEF SlotPhase, Running, Waiting, Msgs

(* A step that neither starts, ends nor queues a guarded message is a      *)
(* stutter of the slots.                                                   *)
LEMMA SameSlots ==
    ASSUME \A k \in TryKinds : (Running(k)' <=> Running(k)) /\ (Waiting(k)' <=> Waiting(k))
    PROVE  SlotPhase' = SlotPhase
<1>1. /\ SlotPhase' = [k \in TryKinds |-> SlotPhase'[k]]
      /\ \A k \in TryKinds :
            SlotPhase'[k] = IF Running(k)' THEN "running"
                            ELSE IF Waiting(k)' THEN "queued" ELSE "free"
  BY DEF SlotPhase, Running, Waiting, Msgs
<1>2. \A k \in TryKinds : SlotPhase'[k] = SlotPhase[k]
  BY <1>1, PhaseOf
<1> QED BY <1>1, <1>2, PhaseOf

(* A step that changes one guarded kind moves that slot only.              *)
LEMMA OneSlot ==
    ASSUME NEW k \in TryKinds,
           \A j \in TryKinds \ {k} :
              (Running(j)' <=> Running(j)) /\ (Waiting(j)' <=> Waiting(j))
    PROVE  SlotPhase' = [SlotPhase EXCEPT ![k] = SlotPhase'[k]]
<1>1. /\ SlotPhase' = [j \in TryKinds |-> SlotPhase'[j]]
      /\ \A j \in TryKinds :
            SlotPhase'[j] = IF Running(j)' THEN "running"
                            ELSE IF Waiting(j)' THEN "queued" ELSE "free"
  BY DEF SlotPhase, Running, Waiting, Msgs
<1>2. \A j \in TryKinds \ {k} : SlotPhase'[j] = SlotPhase[j]
  BY <1>1, PhaseOf
<1>3. SlotPhase = [j \in TryKinds |-> SlotPhase[j]]
  BY PhaseOf
<1> QED BY <1>1, <1>2, <1>3

(* An enqueued message that send put there belongs to no guarded kind; one *)
(* that try_send put there makes its kind wait.                            *)
LEMMA EnqueueSlots ==
    ASSUME TypeOK, NEW m \in Msgs, queue' = Append(queue, m), UNCHANGED worker
    PROVE  \A j \in TryKinds :
              /\ Running(j)' <=> Running(j)
              /\ Waiting(j)' <=> Waiting(j) \/ (m \in TryMsgs /\ KindOf[m] = j)
<1>1. \A n \in Msgs : In(queue', n) <=> (In(queue, n) \/ n = m)
  BY InAppend DEF TypeOK
<1> QED BY <1>1, KindFacts DEF Running, Waiting, Queued

LEMMA QuietSlots ==
    ASSUME UNCHANGED <<queue, worker>>
    PROVE  SlotPhase' = SlotPhase
BY DEF SlotPhase, Queued, In, Msgs

(* The worker leaves process_bus (its finally, or its cancellation).       *)
LEMMA LeaveSlots ==
    ASSUME IInv, NEW m \in Msgs, worker = m, worker' \in {NoMsg, Stopped}, UNCHANGED queue
    PROVE  [Slot!Next]_SlotPhase
<1>0. NoMsg \notin Msgs /\ Stopped \notin Msgs
  BY BusAssumption DEF Msgs
<1>1. \A j \in TryKinds : ~Running(j)' /\ (Waiting(j)' <=> Waiting(j))
  BY <1>0, KindFacts DEF Running, Waiting, Queued, In
<1>2. CASE m \in SendMsgs
  <2>1. \A j \in TryKinds : ~Running(j)
    BY <1>2, KindFacts DEF Running
  <2> QED BY <1>1, <2>1, SameSlots
<1>3. CASE m \in TryMsgs
  <2> DEFINE k == KindOf[m]
  <2>1. k \in TryKinds /\ Running(k)
    BY <1>3 DEF TryKinds, Running
  <2>2. \A j \in TryKinds \ {k} : ~Running(j)
    BY DEF Running
  <2>3. ~Waiting(k)
    <3> SUFFICES ASSUME NEW n \in TryMsgs, KindOf[n] = k, Queued(n) PROVE FALSE
      BY DEF Waiting
    <3>1. n = m
      BY <1>3 DEF IInv, OnePerTryKind, InFlight
    <3> QED BY <3>1 DEF IInv, NoRepetition
  <2>4. SlotPhase[k] = "running" /\ SlotPhase'[k] = "free"
    <3>1. SlotPhase[k] = "running"
      BY <2>1, PhaseOf
    <3>2. SlotPhase'[k] = IF Running(k)' THEN "running"
                          ELSE IF Waiting(k)' THEN "queued" ELSE "free"
      BY <2>1 DEF SlotPhase, Running, Waiting, Msgs
    <3> QED BY <1>1, <2>1, <2>3, <3>1, <3>2
  <2>5. SlotPhase' = [SlotPhase EXCEPT ![k] = SlotPhase'[k]]
    BY <1>1, <2>1, <2>2, OneSlot
  <2>6. Slot!Finish(k)
    BY <2>4, <2>5 DEF Slot!Finish, Slot!Move
  <2> QED BY <2>1, <2>6 DEF Slot!Next
<1> QED BY <1>2, <1>3, KindFacts

-----------------------------------------------------------------------------
(* One step per action of the bus.                                         *)
LEMMA SlotStep == IInv /\ [Next]_vars => [Slot!Next]_SlotPhase
<1> SUFFICES ASSUME IInv, [Next]_vars PROVE [Slot!Next]_SlotPhase
  OBVIOUS
<1>0. TypeOK
  BY DEF IInv
<1>1. ASSUME NEW m \in SendMsgs, Send(m) \/ PutResumes(m) PROVE [Slot!Next]_SlotPhase
  <2>1. m \in Msgs /\ m \notin TryMsgs /\ UNCHANGED worker
    BY <1>1, KindFacts DEF Send, PutResumes
  <2>2. CASE UNCHANGED queue
    BY <2>1, <2>2, QuietSlots
  <2>3. CASE queue' = Append(queue, m)
    BY <1>0, <2>1, <2>3, EnqueueSlots, SameSlots
  <2> QED BY <1>1, <2>2, <2>3 DEF Send, PutResumes
<1>2. ASSUME NEW m \in SendMsgs, SendTimesOut(m) \/ SendCancelled(m) \/ SendReturns(m)
      PROVE  [Slot!Next]_SlotPhase
  BY <1>2, QuietSlots DEF SendTimesOut, SendCancelled, SendReturns
<1>3. ASSUME NEW m \in TryMsgs,
             TrySendDeduped(m) \/ TrySendFull(m) \/ TryCallerLeaves(m)
      PROVE  [Slot!Next]_SlotPhase
  BY <1>3, QuietSlots DEF TrySendDeduped, TrySendFull, TryCallerLeaves, vars
<1>4. ASSUME NEW m \in TryMsgs, TrySendEnqueues(m) PROVE [Slot!Next]_SlotPhase
  <2> DEFINE k == KindOf[m]
  <2>1. /\ m \in Msgs /\ k \in TryKinds /\ k \notin pending
        /\ queue' = Append(queue, m) /\ UNCHANGED worker
    BY <1>4, KindFacts DEF TrySendEnqueues, TryKinds
  <2>2. ~Running(k) /\ ~Waiting(k)
    BY <2>1 DEF IInv, TrySlotSpansExecution, InFlight, Running, Waiting
  <2>3. /\ \A j \in TryKinds \ {k} :
              (Running(j)' <=> Running(j)) /\ (Waiting(j)' <=> Waiting(j))
        /\ ~Running(k)' /\ Waiting(k)'
    BY <1>0, <2>1, <2>2, EnqueueSlots
  <2>4. SlotPhase[k] = "free"
    BY <2>1, <2>2, PhaseOf
  <2>5. SlotPhase'[k] = "queued"
    <3>1. SlotPhase'[k] = IF Running(k)' THEN "running"
                          ELSE IF Waiting(k)' THEN "queued" ELSE "free"
      BY <2>1 DEF SlotPhase, Running, Waiting, Msgs
    <3> QED BY <2>3, <3>1
  <2>6. SlotPhase' = [SlotPhase EXCEPT ![k] = SlotPhase'[k]]
    BY <2>1, <2>3, OneSlot
  <2>7. Slot!Claim(k)
    BY <2>4, <2>5, <2>6 DEF Slot!Claim, Slot!Move
  <2> QED BY <2>1, <2>7 DEF Slot!Next
<1>5. CASE Receive
  <2>0. queue \in Seq(Msgs) /\ queue # <<>> /\ Head(queue) \in Msgs
    BY <1>0, <1>5 DEF TypeOK, Receive
  <2> PICK m \in Msgs : m = Head(queue)
    BY <2>0
  <2>1. queue' = Tail(queue) /\ worker' = m /\ worker = NoMsg
    BY <1>5 DEF Receive
  <2>2. \A n \in Msgs : In(queue, n) <=> (n = m \/ In(queue', n))
    BY <2>0, <2>1, InHeadTail
  <2>3. NoMsg \notin Msgs
    BY BusAssumption DEF Msgs
  <2>4. \A j \in TryKinds : ~Running(j)
    BY <2>1, <2>3, KindFacts DEF Running
  <2>5. CASE m \in SendMsgs
    <3>1. \A j \in TryKinds : ~Running(j)' /\ (Waiting(j)' <=> Waiting(j))
      BY <2>1, <2>2, <2>5, KindFacts DEF Running, Waiting, Queued
    <3> QED BY <2>4, <3>1, SameSlots
  <2>6. CASE m \in TryMsgs
    <3> DEFINE k == KindOf[m]
    <3>1. k \in TryKinds /\ Waiting(k) /\ Running(k)'
      BY <2>1, <2>2, <2>3, <2>6 DEF TryKinds, Waiting, Queued, Running
    <3>2. \A j \in TryKinds \ {k} : ~Running(j)' /\ (Waiting(j)' <=> Waiting(j))
      BY <2>1, <2>2, <2>3, KindFacts DEF Running, Waiting, Queued
    <3>3. SlotPhase[k] = "queued"
      BY <2>4, <3>1, PhaseOf
    <3>4. SlotPhase'[k] = "running"
      <4>1. SlotPhase'[k] = IF Running(k)' THEN "running"
                            ELSE IF Waiting(k)' THEN "queued" ELSE "free"
        BY <3>1 DEF SlotPhase, Running, Waiting, Msgs
      <4> QED BY <3>1, <4>1
    <3>5. SlotPhase' = [SlotPhase EXCEPT ![k] = SlotPhase'[k]]
      BY <2>4, <3>1, <3>2, OneSlot
    <3>6. Slot!Start(k)
      BY <3>3, <3>4, <3>5 DEF Slot!Start, Slot!Move
    <3> QED BY <3>1, <3>6 DEF Slot!Next
  <2> QED BY <2>3, <2>5, <2>6, KindFacts
<1>6. ASSUME NEW m \in Msgs, ProcessEnds(m) PROVE [Slot!Next]_SlotPhase
  BY <1>6, LeaveSlots DEF ProcessEnds
<1>7. CASE WorkerCancelled
  <2>1. CASE worker \in Msgs
    BY <1>7, <2>1, LeaveSlots DEF WorkerCancelled
  <2>2. CASE worker \notin Msgs
    <3>1. worker' \notin Msgs /\ UNCHANGED queue
      BY <1>7, BusAssumption DEF WorkerCancelled, Msgs
    <3>2. \A j \in TryKinds :
             /\ ~Running(j) /\ ~Running(j)'
             /\ Waiting(j)' <=> Waiting(j)
      BY <2>2, <3>1, KindFacts DEF Running, Waiting, Queued, In
    <3> QED BY <3>2, SameSlots
  <2> QED BY <2>1, <2>2
<1>8. CASE UNCHANGED vars
  BY <1>8, QuietSlots DEF vars
<1> QED
  BY <1>1, <1>2, <1>3, <1>4, <1>5, <1>6, <1>7, <1>8
  DEF Next, SenderStep, TrySend

LEMMA SlotInit == Init => Slot!Init
BY BusAssumption DEF Init, Slot!Init, SlotPhase, Queued, In, Msgs

(* The bus implements DispatchSlot: for each kind given to try_send        *)
(* (bus.py, _pending_kinds), fires claim, start and finish one slot in     *)
(* turn, whatever send, cancellations, timeouts and the worker's shutdown  *)
(* do in between.                                                          *)
THEOREM ImplementsSlotHolds == Spec => ImplementsSlot
BY SlotInit, SlotStep, IInvInvariant, PTL DEF Spec, ImplementsSlot, Slot!Spec

-----------------------------------------------------------------------------
(* Maxima.                                                                 *)

(* A bounded set of naturals that is not empty has a maximum. *)
LEMMA MaxOfBounded ==
    ASSUME NEW n \in Nat, NEW T, T \subseteq 0..n, T # {}
    PROVE  R!Max(T) \in T /\ \A y \in T : y <= R!Max(T)
<1> DEFINE U == {k \in 0..n : n - k \in T}
<1>1. U # {}
  <2>1. PICK x \in T : TRUE
    OBVIOUS
  <2>2. n - x \in 0..n /\ n - (n - x) = x
    OBVIOUS
  <2> QED BY <2>1, <2>2
<1>2. PICK k \in U : \A j \in U : k <= j
  <2>1. U \subseteq Nat
    OBVIOUS
  <2> HIDE DEF U
  <2> QED BY <1>1, <2>1, LeastNumber
<1>3. \A y \in T : y <= n - k
  <2> SUFFICES ASSUME NEW y \in T PROVE y <= n - k
    OBVIOUS
  <2>1. n - y \in 0..n /\ n - (n - y) = y
    OBVIOUS
  <2>2. k <= n - y
    BY <1>2, <2>1
  <2> QED BY <2>2
<1>4. n - k \in T
  OBVIOUS
<1>5. \E x \in T : \A y \in T : x >= y
  BY <1>3, <1>4
<1> QED BY <1>5 DEF R!Max

-----------------------------------------------------------------------------
(* The readiness probe: the inductive invariant.                           *)

(* A backend that would answer has no outage; a backend that answered this *)
(* sweep has been down for no longer than the sweep has lasted.            *)
SeenFresh ==
    \A b \in Backends :
        /\ reachable[b] => down[b] = 0
        /\ lock # None /\ seen[b] = TRUE => down[b] <= sweeping

(* A cached 200 has aged with the outage it may hide: what is left of its  *)
(* TTL and the outage together never exceed a sweep and a TTL.             *)
CacheFresh ==
    R!Valid /\ cache = 200 => \A b \in Backends : down[b] + left <= TTL + SweepMax

HealthInv ==
    R!TypeOK /\ SeenFresh /\ CacheFresh /\ R!NoRedundantSweep /\ R!StaleBounded

(* The outage a reply records is that of some backend, or none. *)
LEMMA OutageBounded ==
    ASSUME R!TypeOK, NEW n \in 0..R!DownCap, \A b \in Backends : down[b] <= n
    PROVE  R!Outage \in 0..n
<1> DEFINE T == {down[b] : b \in Backends} \cup {0}
<1>1. T \subseteq 0..n /\ n \in Nat /\ T # {}
  BY HarnessAssumption DEF R!TypeOK, R!DownCap, R!HealthAssumption
<1>2. R!Max(T) \in T
  <2> HIDE DEF T
  <2> QED BY <1>1, MaxOfBounded
<1> QED BY <1>1, <1>2 DEF R!Outage

(* A reply of the right type, and no 200 past the bound. *)
LEMMA ReplyFresh ==
    ASSUME HealthInv, NEW code \in {200, 503}, NEW flag \in BOOLEAN,
           R!Reply(code, flag),
           code = 200 => \A b \in Backends : down[b] < TTL + SweepMax
    PROVE  answer' \in R!Answers /\ R!StaleBounded'
<1>1. TTL \in Nat \ {0} /\ SweepMax \in Nat /\ R!DownCap = TTL + SweepMax + 1
  BY HarnessAssumption DEF R!HealthAssumption, R!DownCap
<1>2. R!Outage \in 0..R!DownCap
  <2>1. R!TypeOK /\ R!DownCap \in 0..R!DownCap
    BY <1>1 DEF HealthInv
  <2>2. \A b \in Backends : down[b] <= R!DownCap
    BY <1>1, <2>1 DEF R!TypeOK
  <2> QED BY <2>1, <2>2, OutageBounded
<1>3. answer' = [code |-> code, down |-> R!Outage, late |-> flag]
  BY DEF R!Reply
<1>4. code = 200 => R!Outage < TTL + SweepMax
  <2> SUFFICES ASSUME code = 200 PROVE R!Outage < TTL + SweepMax
    OBVIOUS
  <2>1. TTL + SweepMax - 1 \in 0..R!DownCap
    BY <1>1
  <2>2. \A b \in Backends : down[b] <= TTL + SweepMax - 1
    BY <1>1 DEF HealthInv, R!TypeOK
  <2>3. R!Outage \in 0..(TTL + SweepMax - 1)
    BY <2>1, <2>2, OutageBounded DEF HealthInv
  <2> QED BY <1>1, <2>3
<1>5. answer' \in R!Answers
  BY <1>2, <1>3 DEF R!Answers
<1> QED BY <1>3, <1>4, <1>5 DEF R!StaleBounded

LEMMA ArriveFresh ==
    ASSUME HealthInv, NEW p \in Probes, R!Arrive(p)
    PROVE  HealthInv'
<1>0. TTL \in Nat \ {0} /\ SweepMax \in Nat
  BY HarnessAssumption DEF R!HealthAssumption
<1>1. /\ SeenFresh' /\ CacheFresh' /\ R!NoRedundantSweep'
      /\ UNCHANGED <<gate, reachable, down, cache, left, lock, seen, sweeping, flipped>>
  BY DEF HealthInv, R!Arrive, SeenFresh, CacheFresh, R!NoRedundantSweep, R!Valid
<1>2. pc' \in [Probes -> {"idle", "waiting", "sweeping"}]
  <2>1. pc' = pc \/ pc' = [pc EXCEPT ![p] = "waiting"]
    BY DEF R!Arrive
  <2> QED BY <2>1 DEF HealthInv, R!TypeOK
<1>3. answer' \in R!Answers \cup {None} /\ R!StaleBounded'
  <2>1. CASE ~gate /\ R!Reply(503, FALSE)
    <3>1. 503 \in {200, 503} /\ FALSE \in BOOLEAN /\ 503 # 200
      OBVIOUS
    <3> QED BY <2>1, <3>1, ReplyFresh, Zenon
  <2>2. CASE R!Valid /\ R!Reply(cache, flipped)
    <3>1. cache \in {200, 503} /\ flipped \in BOOLEAN
      BY <2>2 DEF HealthInv, R!TypeOK, R!Valid
    <3>2. cache = 200 => \A b \in Backends : down[b] < TTL + SweepMax
      BY <1>0, <2>2 DEF HealthInv, CacheFresh, R!TypeOK, R!Valid
    <3> QED BY <2>2, <3>1, <3>2, ReplyFresh
  <2>3. CASE UNCHANGED answer
    BY <2>3 DEF HealthInv, R!StaleBounded, R!TypeOK
  <2> QED BY <2>1, <2>2, <2>3 DEF R!Arrive
<1>4. R!TypeOK'
  BY <1>1, <1>2, <1>3 DEF HealthInv, R!TypeOK
<1> QED BY <1>1, <1>3, <1>4 DEF HealthInv

LEMMA EnterFresh ==
    ASSUME HealthInv, NEW p \in Probes, R!Enter(p)
    PROVE  HealthInv'
<1>0. TTL \in Nat \ {0} /\ SweepMax \in Nat /\ None \notin BOOLEAN
  BY HarnessAssumption DEF R!HealthAssumption
<1>1. CASE R!Valid
  <2>1. /\ R!Reply(cache, flipped)
        /\ pc' = [pc EXCEPT ![p] = "idle"]
        /\ UNCHANGED <<gate, reachable, down, cache, left, lock, seen, sweeping, flipped>>
    BY <1>1 DEF R!Enter
  <2>2. cache \in {200, 503} /\ flipped \in BOOLEAN
    BY <1>1 DEF HealthInv, R!TypeOK, R!Valid
  <2>3. cache = 200 => \A b \in Backends : down[b] < TTL + SweepMax
    BY <1>0, <1>1 DEF HealthInv, CacheFresh, R!TypeOK, R!Valid
  <2>4. answer' \in R!Answers /\ R!StaleBounded'
    BY <2>1, <2>2, <2>3, ReplyFresh
  <2>5. R!TypeOK'
    BY <2>1, <2>4 DEF HealthInv, R!TypeOK
  <2>6. SeenFresh' /\ CacheFresh' /\ R!NoRedundantSweep'
    BY <2>1 DEF HealthInv, SeenFresh, CacheFresh, R!NoRedundantSweep, R!Valid
  <2> QED BY <2>4, <2>5, <2>6 DEF HealthInv
<1>2. CASE ~R!Valid
  <2>1. R!Begin(p)
    BY <1>2 DEF R!Enter
  <2>2. R!TypeOK'
    <3>1. /\ seen' \in [Backends -> {TRUE, FALSE, None}]
          /\ flipped' \in BOOLEAN
          /\ lock' \in Probes \cup {None}
      BY <2>1, Zenon DEF R!Begin
    <3>2. pc' \in [Probes -> {"idle", "waiting", "sweeping"}] /\ sweeping' \in 0..SweepMax
      BY <1>0, <2>1 DEF R!Begin, HealthInv, R!TypeOK
    <3>3. UNCHANGED <<gate, reachable, down, cache, left, answer>>
      BY <2>1 DEF R!Begin
    <3> QED BY <3>1, <3>2, <3>3, Zenon DEF HealthInv, R!TypeOK
  <2>3. SeenFresh'
    BY <1>0, <2>1 DEF R!Begin, HealthInv, SeenFresh
  <2>4. CacheFresh' /\ R!NoRedundantSweep' /\ R!StaleBounded'
    BY <1>2, <2>1 DEF R!Begin, HealthInv, CacheFresh, R!NoRedundantSweep, R!StaleBounded,
          R!Valid
  <2> QED BY <2>2, <2>3, <2>4 DEF HealthInv
<1> QED BY <1>1, <1>2

LEMMA ProbeBackendFresh ==
    ASSUME HealthInv, NEW p \in Probes, NEW b \in Backends, R!ProbeBackend(p, b)
    PROVE  HealthInv'
<1>1. PICK ok \in {reachable[b], FALSE} : seen' = [seen EXCEPT ![b] = ok]
  BY DEF R!ProbeBackend
<1>2. UNCHANGED <<gate, reachable, down, cache, left, lock, pc, sweeping, flipped, answer>>
  BY DEF R!ProbeBackend
<1>3. ok \in {TRUE, FALSE} /\ (ok = TRUE => reachable[b])
  <2>1. reachable[b] \in BOOLEAN
    BY DEF HealthInv, R!TypeOK
  <2>2. ok = reachable[b] \/ ok = FALSE
    BY <1>1, Zenon
  <2> QED BY <2>1, <2>2, Zenon
<1>4. seen' \in [Backends -> {TRUE, FALSE, None}]
  <2>1. ok \in {TRUE, FALSE, None}
    BY <1>3, Zenon
  <2> QED BY <1>1, <2>1, Zenon DEF HealthInv, R!TypeOK
<1>5. R!TypeOK'
  BY <1>2, <1>4 DEF HealthInv, R!TypeOK
<1>6. SeenFresh'
  <2> SUFFICES ASSUME NEW c \in Backends, lock # None, seen'[c] = TRUE
               PROVE  down[c] <= sweeping
    BY <1>2 DEF HealthInv, SeenFresh
  <2>1. CASE c = b
    <3>0. DOMAIN seen = Backends
      BY DEF HealthInv, R!TypeOK
    <3>1. seen'[b] = ok
      BY <1>1, <3>0
    <3>3. reachable[c]
      BY <1>3, <2>1, <3>1, Zenon
    <3>2. down[c] = 0
      BY <3>3 DEF HealthInv, SeenFresh
    <3> QED BY <3>2 DEF HealthInv, R!TypeOK
  <2>2. CASE c # b
    <3>1. seen'[c] = seen[c]
      BY <1>1, <2>2 DEF HealthInv, R!TypeOK
    <3>2. seen[c] = TRUE
      BY <3>1, Zenon
    <3> QED BY <3>2 DEF HealthInv, SeenFresh
  <2> QED BY <2>1, <2>2
<1>7. CacheFresh' /\ R!NoRedundantSweep' /\ R!StaleBounded'
  BY <1>2 DEF HealthInv, CacheFresh, R!NoRedundantSweep, R!StaleBounded, R!Valid
<1> QED BY <1>5, <1>6, <1>7 DEF HealthInv

LEMMA FinishFresh ==
    ASSUME HealthInv, NEW p \in Probes, R!Finish(p)
    PROVE  HealthInv'
<1> DEFINE code == IF \A b \in Backends : seen[b] THEN 200 ELSE 503
<1>0. TTL \in Nat \ {0} /\ SweepMax \in Nat /\ None \notin Probes
  BY HarnessAssumption DEF R!HealthAssumption
<1>1. /\ lock = p /\ R!Store(code) /\ R!Reply(code, FALSE) /\ lock' = None
      /\ pc' = [pc EXCEPT ![p] = "idle"]
      /\ UNCHANGED <<gate, reachable, down, seen, sweeping, flipped>>
  BY DEF R!Finish
<1>2. code = 200 => \A b \in Backends : down[b] <= SweepMax
  <2> SUFFICES ASSUME \A b \in Backends : seen[b], NEW b \in Backends
               PROVE  down[b] <= SweepMax
    <3>1. code = 200 => \A b \in Backends : seen[b]
      OBVIOUS
    <3> QED BY <3>1, Zenon
  <2>1. seen[b] = TRUE
    <3>1. seen[b] \in {TRUE, FALSE}
      BY Zenon DEF R!Finish, HealthInv, R!TypeOK
    <3> QED BY <3>1, Zenon
  <2>2. lock # None
    BY <1>0, <1>1
  <2>3. down[b] <= sweeping
    BY <2>1, <2>2 DEF HealthInv, SeenFresh
  <2> QED BY <1>0, <2>3 DEF HealthInv, R!TypeOK
<1>3. code \in {200, 503}
  OBVIOUS
<1> HIDE DEF code
<1>4. code = 200 => \A b \in Backends : down[b] < TTL + SweepMax
  BY <1>0, <1>2 DEF HealthInv, R!TypeOK
<1>5. answer' \in R!Answers /\ R!StaleBounded'
  BY <1>1, <1>3, <1>4, ReplyFresh
<1>6. R!TypeOK'
  <2>1. /\ cache' \in {None, 200, 503} /\ left' \in 0..TTL
        /\ lock' \in Probes \cup {None}
        /\ pc' \in [Probes -> {"idle", "waiting", "sweeping"}]
        /\ answer' \in R!Answers \cup {None}
    BY <1>0, <1>1, <1>3, <1>5 DEF HealthInv, R!TypeOK, R!Store
  <2> QED BY <1>1, <2>1, Zenon DEF HealthInv, R!TypeOK
<1>7. SeenFresh' /\ R!NoRedundantSweep'
  BY <1>1 DEF HealthInv, SeenFresh, R!NoRedundantSweep
<1>8. CacheFresh'
  BY <1>0, <1>1, <1>2 DEF HealthInv, R!TypeOK, CacheFresh, R!Store
<1> QED BY <1>5, <1>6, <1>7, <1>8 DEF HealthInv

LEMMA TickFresh ==
    ASSUME HealthInv, R!Tick
    PROVE  HealthInv'
<1>0. TTL \in Nat \ {0} /\ SweepMax \in Nat /\ R!DownCap = TTL + SweepMax + 1
  BY HarnessAssumption DEF R!HealthAssumption, R!DownCap
<1>1. /\ UNCHANGED <<gate, reachable, cache, lock, pc, seen, flipped, answer>>
      /\ sweeping' = IF lock # None THEN sweeping + 1 ELSE sweeping
      /\ left' = IF left > 0 THEN left - 1 ELSE 0
      /\ lock # None => sweeping < SweepMax
  BY DEF R!Tick
<1>2. \A b \in Backends :
        /\ down'[b] \in 0..R!DownCap
        /\ down'[b] <= down[b] + 1
        /\ reachable[b] => down'[b] = down[b]
  BY <1>0 DEF R!Tick, HealthInv, R!TypeOK
<1>3. R!TypeOK'
  <2>1. down' \in [Backends -> 0..R!DownCap]
    BY <1>2 DEF R!Tick
  <2>2. left' \in 0..TTL /\ sweeping' \in 0..SweepMax
    BY <1>0, <1>1 DEF HealthInv, R!TypeOK
  <2> QED BY <1>1, <2>1, <2>2 DEF HealthInv, R!TypeOK
<1>4. SeenFresh'
  BY <1>0, <1>1, <1>2 DEF HealthInv, R!TypeOK, SeenFresh
<1>5. CacheFresh'
  BY <1>0, <1>1, <1>2 DEF HealthInv, R!TypeOK, CacheFresh, R!Valid
<1>6. R!NoRedundantSweep' /\ R!StaleBounded'
  BY <1>0, <1>1 DEF HealthInv, R!TypeOK, R!NoRedundantSweep, R!StaleBounded, R!Valid
<1> QED BY <1>3, <1>4, <1>5, <1>6 DEF HealthInv

LEMMA OutsideFresh ==
    ASSUME HealthInv,
           (\E b \in Backends : R!CircuitOpens(b) \/ R!BackendFlips(b)) \/ R!GateFlips
    PROVE  HealthInv'
<1>0. TTL \in Nat \ {0} /\ SweepMax \in Nat /\ R!DownCap = TTL + SweepMax + 1
  BY HarnessAssumption DEF R!HealthAssumption, R!DownCap
<1>1. ASSUME NEW b \in Backends, R!CircuitOpens(b) PROVE HealthInv'
  <2>1. /\ UNCHANGED <<gate, reachable, down, lock, pc, seen, sweeping, answer>>
        /\ flipped' = TRUE
        /\ (cache' = None /\ left' = 0) \/ UNCHANGED <<cache, left>>
    BY <1>1 DEF R!CircuitOpens, R!Invalidate
  <2>2. R!TypeOK'
    <3>1. cache' \in {None, 200, 503} /\ left' \in 0..TTL
      BY <1>0, <2>1 DEF HealthInv, R!TypeOK
    <3>2. flipped' \in BOOLEAN
      BY <2>1, Zenon
    <3> QED BY <2>1, <3>1, <3>2, Zenon DEF HealthInv, R!TypeOK
  <2>3. SeenFresh' /\ CacheFresh' /\ R!NoRedundantSweep' /\ R!StaleBounded'
    BY <1>0, <2>1 DEF HealthInv, SeenFresh, CacheFresh, R!NoRedundantSweep, R!StaleBounded,
          R!Valid
  <2> QED BY <2>2, <2>3 DEF HealthInv
<1>2. ASSUME NEW b \in Backends, R!BackendFlips(b) PROVE HealthInv'
  <2>1. UNCHANGED <<gate, cache, left, lock, pc, seen, sweeping, flipped, answer>>
    BY <1>2 DEF R!BackendFlips
  <2>2. reachable' \in [Backends -> BOOLEAN]
    BY <1>2, Zenon DEF R!BackendFlips, HealthInv, R!TypeOK
  <2>3. /\ down' \in [Backends -> 0..R!DownCap] /\ down'[b] = 0
        /\ \A c \in Backends : c # b => down'[c] = down[c]
    BY <1>0, <1>2 DEF R!BackendFlips, HealthInv, R!TypeOK
  <2>4. R!TypeOK'
    BY <2>1, <2>2, <2>3 DEF HealthInv, R!TypeOK
  <2>5. \A c \in Backends : c # b => reachable'[c] = reachable[c]
    BY <1>2 DEF R!BackendFlips, HealthInv, R!TypeOK
  <2>6. SeenFresh' /\ CacheFresh' /\ R!NoRedundantSweep' /\ R!StaleBounded'
    BY <1>0, <2>1, <2>3, <2>5 DEF HealthInv, R!TypeOK, SeenFresh, CacheFresh,
          R!NoRedundantSweep, R!StaleBounded, R!Valid
  <2> QED BY <2>4, <2>6 DEF HealthInv
<1>3. CASE R!GateFlips
  <2>1. gate' \in BOOLEAN
    BY <1>3, Zenon DEF R!GateFlips, HealthInv, R!TypeOK
  <2>2. UNCHANGED <<reachable, down, cache, left, lock, pc, seen, sweeping, flipped, answer>>
    BY <1>3 DEF R!GateFlips
  <2>3. R!TypeOK'
    BY <2>1, <2>2 DEF HealthInv, R!TypeOK
  <2>4. SeenFresh' /\ CacheFresh' /\ R!NoRedundantSweep' /\ R!StaleBounded'
    BY <2>2 DEF HealthInv, SeenFresh, CacheFresh, R!NoRedundantSweep, R!StaleBounded, R!Valid
  <2> QED BY <2>3, <2>4 DEF HealthInv
<1> QED BY <1>1, <1>2, <1>3

LEMMA HealthInit == R!Init => HealthInv
<1> SUFFICES ASSUME R!Init PROVE HealthInv
  OBVIOUS
<1>0. TTL \in Nat \ {0} /\ SweepMax \in Nat /\ R!DownCap = TTL + SweepMax + 1
  BY HarnessAssumption DEF R!HealthAssumption, R!DownCap
<1>1. R!TypeOK
  <2>1. /\ gate \in BOOLEAN /\ flipped \in BOOLEAN
        /\ reachable \in [Backends -> BOOLEAN]
        /\ seen \in [Backends -> {TRUE, FALSE, None}]
        /\ cache \in {None, 200, 503} /\ lock \in Probes \cup {None}
        /\ answer \in R!Answers \cup {None}
    BY Zenon DEF R!Init
  <2>2. /\ down \in [Backends -> 0..R!DownCap] /\ left \in 0..TTL /\ sweeping \in 0..SweepMax
        /\ pc \in [Probes -> {"idle", "waiting", "sweeping"}]
    BY <1>0 DEF R!Init
  <2> QED BY <2>1, <2>2, Zenon DEF R!TypeOK
<1>2. SeenFresh /\ CacheFresh /\ R!NoRedundantSweep /\ R!StaleBounded
  BY <1>0 DEF R!Init, SeenFresh, CacheFresh, R!NoRedundantSweep, R!StaleBounded, R!Valid
<1> QED BY <1>1, <1>2 DEF HealthInv

LEMMA HealthNext == HealthInv /\ [R!Next]_rdvars => HealthInv'
<1> SUFFICES ASSUME HealthInv, [R!Next]_rdvars PROVE HealthInv'
  OBVIOUS
<1>1. ASSUME NEW p \in Probes, R!Arrive(p) \/ R!Enter(p) \/ R!Finish(p)
      PROVE  HealthInv'
  BY <1>1, ArriveFresh, EnterFresh, FinishFresh
<1>2. ASSUME NEW p \in Probes, NEW b \in Backends, R!ProbeBackend(p, b)
      PROVE  HealthInv'
  BY <1>2, ProbeBackendFresh
<1>3. CASE (\E b \in Backends : R!CircuitOpens(b) \/ R!BackendFlips(b)) \/ R!GateFlips
  BY <1>3, OutsideFresh
<1>4. CASE R!Tick
  BY <1>4, TickFresh
<1>5. CASE UNCHANGED rdvars
  <2>1. R!TypeOK'
    BY <1>5, Zenon DEF rdvars, HealthInv, R!TypeOK
  <2>2. (SeenFresh /\ CacheFresh /\ R!NoRedundantSweep /\ R!StaleBounded)'
    BY <1>5 DEF rdvars, HealthInv, SeenFresh, CacheFresh, R!NoRedundantSweep,
          R!StaleBounded, R!Valid
  <2> QED BY <2>1, <2>2 DEF HealthInv
<1> QED BY <1>1, <1>2, <1>3, <1>4, <1>5 DEF R!Next

(* The readiness probe keeps its types: the sweep, the cache's TTL and the *)
(* recorded outage stay within their bounds (main.py, health_ready).       *)
THEOREM HealthTypeCorrect == R!Init /\ [][R!Next]_rdvars => []R!TypeOK
<1>1. HealthInv => R!TypeOK
  BY DEF HealthInv
<1> QED BY HealthInit, HealthNext, <1>1, PTL

(* However many probes race, whatever the backends and the circuits do: a  *)
(* sweep never runs while a cached answer is valid, and no probe is told   *)
(* "ready" once a backend has been unreachable for a sweep and a TTL       *)
(* (main.py, health_ready and its single-flight cache).                    *)
THEOREM HealthFreshHolds == R!Init /\ [][R!Next]_rdvars => []HealthFresh
<1>1. HealthInv => HealthFresh
  BY DEF HealthInv, HealthFresh
<1> QED BY HealthInit, HealthNext, <1>1, PTL

-----------------------------------------------------------------------------
(* The harness run is a behaviour of the bus and a behaviour of the probe. *)
LEMMA HarnessParts ==
    HarnessSpec => Spec /\ (R!Init /\ [][R!Next]_rdvars)
<1>1. HarnessInit => Init /\ R!Init
  BY DEF HarnessInit
<1>2. [HarnessNext]_<<focus, vars, rdvars>> => [Next]_vars /\ [R!Next]_rdvars
  BY DEF HarnessNext
<1> QED BY <1>1, <1>2, PTL DEF HarnessSpec, Spec

(* The variables of the bus and of the probe keep to their types, for      *)
(* every set of messages, probes and backends (bus.py; main.py,            *)
(* health_ready).                                                          *)
THEOREM HarnessTypesHold == HarnessSpec => []HarnessTypes
<1>1. TypeOK /\ R!TypeOK => HarnessTypes
  BY DEF HarnessTypes
<1> QED BY HarnessParts, TypeCorrect, HealthTypeCorrect, <1>1, PTL
=============================================================================
