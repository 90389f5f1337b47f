--------------------------- MODULE BackendsProofs ---------------------------
(* Proofs about the components MCBackends composes: the circuit breaker    *)
(* and its retries for any callers, threshold and retry policy, the turns  *)
(* and session files of the claude backend, the sessions, rows and browser *)
(* contexts of the openai backend and the key rotation of the gemini one,  *)
(* for any requests, sessions, keys and caps.                              *)
EXTENDS MCBackends, FiniteSetTheorems, SequenceTheorems, TLAPS

-----------------------------------------------------------------------------
(* The inductive invariant.  A call backs off only while it has attempts   *)
(* left, which bounds attempt; a call that is still under way has not had  *)
(* its turn executed, which is what makes another attempt harmless.        *)
BackoffHasAttempts == \A c \in Callers : pc[c] = "backoff" => attempt[c] < MaxRetries

UnderWayNotRun ==
    Policy # "always" =>
        \A c \in Callers : ran[c] <= 1 /\ (pc[c] # "idle" => ran[c] = 0)

BreakerInv == TypeOK /\ BackoffHasAttempts /\ BreakerCountsFailures /\ UnderWayNotRun

(* The breaker's state as the two records leave it. *)
BreakerOK ==
    /\ circuit \in {"closed", "open", "half_open"}
    /\ failures \in 0..Threshold
    /\ cooled \in BOOLEAN
    /\ BreakerCountsFailures

(* Recording a failure, late or not, keeps the counter within Threshold    *)
(* and opens a closed breaker exactly when the counter reaches it.         *)
LEMMA RecordFailureOK == BreakerOK /\ RecordFailure => BreakerOK'
<1> SUFFICES ASSUME BreakerOK, RecordFailure PROVE BreakerOK'
  OBVIOUS
<1>1. CASE circuit = "closed"
  <2>1. failures < Threshold /\ failures' = failures + 1
    BY <1>1, A2AAssumption DEF BreakerOK, BreakerCountsFailures, RecordFailure, Counted
  <2>2. CASE failures + 1 >= Threshold
    <3>1. circuit' = "open"
      BY <1>1, <2>2 DEF RecordFailure
    <3>3. cooled' \in BOOLEAN
      BY <1>1, <2>2, Zenon DEF RecordFailure
    <3>2. failures' = Threshold
      BY <2>1, <2>2, A2AAssumption DEF BreakerOK
    <3> QED BY <3>1, <3>2, <3>3, A2AAssumption DEF BreakerOK, BreakerCountsFailures
  <2>3. CASE ~(failures + 1 >= Threshold)
    BY <1>1, <2>1, <2>3, A2AAssumption DEF BreakerOK, BreakerCountsFailures, RecordFailure
  <2> QED BY <2>2, <2>3
<1>2. CASE circuit # "closed"
  <2>1. failures = Threshold /\ failures' = failures
    BY <1>2, A2AAssumption DEF BreakerOK, BreakerCountsFailures, RecordFailure, Counted
  <2>2. circuit' # "closed" /\ circuit' \in {"open", "half_open"} /\ cooled' \in BOOLEAN
    BY <1>2 DEF BreakerOK, RecordFailure
  <2> QED BY <2>1, <2>2, A2AAssumption DEF BreakerOK, BreakerCountsFailures
<1> QED BY <1>1, <1>2

(* Recording a success closes the breaker with a counter of zero.          *)
LEMMA RecordOkOK == BreakerOK /\ RecordOk => BreakerOK'
BY A2AAssumption DEF BreakerOK, BreakerCountsFailures, RecordOk

(* The rest of the state: where the calls stand.                           *)
CallsOK ==
    /\ pc \in [Callers -> {"idle", "attempt", "backoff"}]
    /\ attempt \in [Callers -> 0..MaxRetries]
    /\ ran \in [Callers -> Nat]
    /\ up \in BOOLEAN
    /\ BackoffHasAttempts
    /\ UnderWayNotRun

LEMMA InvSplits == BreakerInv <=> BreakerOK /\ CallsOK
BY DEF BreakerInv, TypeOK, BreakerOK, CallsOK

(* A call that ends having executed its turn at most once keeps the calls  *)
(* in order.                                                               *)
LEMMA LeaveOK ==
    ASSUME CallsOK, NEW c \in Callers, NEW n \in {0, 1}, pc[c] # "idle",
           Leave(c), Ran(c, n)
    PROVE  CallsOK'
<1>1. /\ pc' \in [Callers -> {"idle", "attempt", "backoff"}]
      /\ ran' \in [Callers -> Nat]
      /\ attempt' = attempt /\ up' = up
  BY DEF CallsOK, Leave, Ran
<1>2. pc'[c] = "idle" /\ \A d \in Callers : d # c => pc'[d] = pc[d]
  BY DEF CallsOK, Leave
<1>3. ran'[c] = ran[c] + n /\ \A d \in Callers : d # c => ran'[d] = ran[d]
  BY DEF CallsOK, Ran
<1>4. BackoffHasAttempts'
  BY <1>1, <1>2 DEF CallsOK, BackoffHasAttempts
<1>5. UnderWayNotRun'
  BY <1>2, <1>3 DEF CallsOK, UnderWayNotRun
<1> QED BY <1>1, <1>4, <1>5 DEF CallsOK

(* The same for a call that ends or is abandoned without running.          *)
LEMMA LeaveUnrunOK ==
    ASSUME CallsOK, NEW c \in Callers, pc[c] # "idle", Leave(c), UNCHANGED ran
    PROVE  CallsOK'
<1>1. Ran(c, 0)
  BY DEF CallsOK, Ran
<1> QED BY <1>1, LeaveOK

(* A transient failure before the turn ran: backoff or give up.            *)
LEMMA RetryOK ==
    ASSUME BreakerOK, CallsOK, NEW c \in Callers, pc[c] # "idle",
           RetryOrGiveUp(c), UNCHANGED ran
    PROVE  BreakerOK' /\ CallsOK'
<1>1. CASE attempt[c] < MaxRetries
  <2>1. /\ pc' = [pc EXCEPT ![c] = "backoff"]
        /\ UNCHANGED <<breaker, attempt, up>>
    BY <1>1 DEF RetryOrGiveUp
  <2>2. BreakerOK'
    BY <2>1 DEF BreakerOK, BreakerCountsFailures, breaker
  <2>3. pc' \in [Callers -> {"idle", "attempt", "backoff"}]
    BY <2>1 DEF CallsOK
  <2>4. pc'[c] = "backoff" /\ \A d \in Callers : d # c => pc'[d] = pc[d]
    BY <2>1 DEF CallsOK
  <2>5. BackoffHasAttempts'
    BY <1>1, <2>1, <2>4 DEF CallsOK, BackoffHasAttempts
  <2>6. UnderWayNotRun'
    BY <2>4 DEF CallsOK, UnderWayNotRun
  <2> QED BY <2>1, <2>2, <2>3, <2>5, <2>6 DEF CallsOK
<1>2. CASE ~(attempt[c] < MaxRetries)
  <2>1. Leave(c) /\ RecordFailure
    BY <1>2 DEF RetryOrGiveUp
  <2> QED BY <2>1, RecordFailureOK, LeaveUnrunOK
<1> QED BY <1>1, <1>2

(* Policy "always" repeats executed turns; UnderWayNotRun says nothing     *)
(* then, and the rest of the calls' state does not depend on ran.          *)
LEMMA RetryAlwaysOK ==
    ASSUME BreakerOK, CallsOK, Policy = "always", NEW c \in Callers, NEW n \in {0, 1},
           pc[c] # "idle", RetryOrGiveUp(c), Ran(c, n)
    PROVE  BreakerOK' /\ CallsOK'
<1>1. ran' \in [Callers -> Nat] /\ UnderWayNotRun'
  BY DEF CallsOK, Ran, UnderWayNotRun
<1>2. CASE attempt[c] < MaxRetries
  <2>1. /\ pc' = [pc EXCEPT ![c] = "backoff"]
        /\ UNCHANGED <<breaker, attempt, up>>
    BY <1>2 DEF RetryOrGiveUp
  <2>2. BreakerOK'
    BY <2>1 DEF BreakerOK, BreakerCountsFailures, breaker
  <2>3. pc' \in [Callers -> {"idle", "attempt", "backoff"}]
    BY <2>1 DEF CallsOK
  <2>4. BackoffHasAttempts'
    BY <1>2, <2>1 DEF CallsOK, BackoffHasAttempts
  <2> QED BY <1>1, <2>1, <2>2, <2>3, <2>4 DEF CallsOK
<1>3. CASE ~(attempt[c] < MaxRetries)
  <2>1. Leave(c) /\ RecordFailure
    BY <1>3 DEF RetryOrGiveUp
  <2> QED BY <2>1, RecordFailureOK, LeaveOK
<1> QED BY <1>2, <1>3

-----------------------------------------------------------------------------
(* One lemma for the two outcomes whose retry depends on the policy and on *)
(* how slow the attempt was.                                               *)
Guarded(c, slow, retry) ==
    /\ pc[c] = "attempt"
    /\ Ran(c, IF slow THEN 1 ELSE 0)
    /\ IF retry THEN RetryOrGiveUp(c) ELSE Leave(c) /\ UNCHANGED breaker

LEMMA GuardedOK ==
    ASSUME BreakerOK, CallsOK, NEW c \in Callers, NEW slow \in BOOLEAN,
           NEW retry \in BOOLEAN, retry /\ slow => Policy = "always",
           Guarded(c, slow, retry)
    PROVE  BreakerOK' /\ CallsOK'
<1>1. pc[c] # "idle"
  BY DEF Guarded
<1>2. CASE ~retry
  <2>1. /\ Leave(c) /\ UNCHANGED breaker
        /\ \E n \in {0, 1} : Ran(c, n)
    BY <1>2 DEF Guarded
  <2>2. BreakerOK'
    BY <2>1 DEF BreakerOK, BreakerCountsFailures, breaker
  <2> QED BY <1>1, <2>1, <2>2, LeaveOK
<1>3. CASE retry /\ ~slow
  <2>1. RetryOrGiveUp(c) /\ Ran(c, 0)
    BY <1>3 DEF Guarded
  <2>2. UNCHANGED ran
    BY <2>1 DEF Ran, CallsOK
  <2> QED BY <1>1, <2>1, <2>2, RetryOK
<1>4. CASE retry /\ slow
  <2>1. RetryOrGiveUp(c) /\ Ran(c, 1) /\ Policy = "always"
    BY <1>4 DEF Guarded
  <2> QED BY <1>1, <2>1, RetryAlwaysOK
<1> QED BY <1>2, <1>3, <1>4

-----------------------------------------------------------------------------
(* Every outcome of an attempt preserves the invariant.                    *)
LEMMA AttemptOK ==
    ASSUME BreakerOK, CallsOK, NEW c \in Callers, Attempt(c)
    PROVE  BreakerOK' /\ CallsOK'
<1>1. CASE Succeeds(c)
  BY <1>1, RecordOkOK, LeaveOK DEF Succeeds
<1>2. CASE FailsAfterRun(c)
  BY <1>2, RecordFailureOK, LeaveOK DEF FailsAfterRun
<1>3. CASE ClientError(c)
  <2>1. Leave(c) /\ UNCHANGED ran /\ UNCHANGED breaker /\ pc[c] # "idle"
    BY <1>3 DEF ClientError
  <2>2. BreakerOK'
    BY <2>1 DEF BreakerOK, BreakerCountsFailures, breaker
  <2> QED BY <2>1, <2>2, LeaveUnrunOK
<1>4. ASSUME NEW slow \in BOOLEAN, RetryableStatus(c, slow)
      PROVE  BreakerOK' /\ CallsOK'
  <2> DEFINE retry == RetryStatus(c, slow)
  <2>1. retry \in BOOLEAN /\ (retry /\ slow => Policy = "always")
    BY DEF RetryStatus
  <2>2. Guarded(c, slow, retry)
    BY <1>4 DEF RetryableStatus, Guarded
  <2> HIDE DEF retry
  <2> QED BY <2>1, <2>2, GuardedOK
<1>5. ASSUME NEW slow \in BOOLEAN, ReadFails(c, slow)
      PROVE  BreakerOK' /\ CallsOK'
  <2> DEFINE retry == RetryRead(c, slow)
  <2>1. retry \in BOOLEAN /\ (retry /\ slow => Policy = "always")
    BY DEF RetryRead
  <2>2. Guarded(c, slow, retry)
    BY <1>5 DEF ReadFails, Guarded
  <2> HIDE DEF retry
  <2> QED BY <2>1, <2>2, GuardedOK
<1>6. CASE NotSent(c)
  <2>1. RetryOrGiveUp(c) /\ UNCHANGED ran /\ pc[c] # "idle"
    BY <1>6 DEF NotSent
  <2> QED BY <2>1, RetryOK
<1> QED BY <1>1, <1>2, <1>3, <1>4, <1>5, <1>6 DEF Attempt

-----------------------------------------------------------------------------
LEMMA BreakerInvInit == Init => BreakerInv
<1> SUFFICES ASSUME Init PROVE BreakerInv
  OBVIOUS
<1>1. TypeOK
  <2>1. cooled \in BOOLEAN /\ up \in BOOLEAN
    BY Zenon DEF Init
  <2>2. /\ circuit \in {"closed", "open", "half_open"} /\ failures \in 0..Threshold
        /\ pc \in [Callers -> {"idle", "attempt", "backoff"}]
        /\ attempt \in [Callers -> 0..MaxRetries]
        /\ ran \in [Callers -> Nat]
    BY A2AAssumption, SMT DEF Init
  <2> QED BY <2>1, <2>2 DEF TypeOK
<1>2. BackoffHasAttempts
  BY DEF Init, BackoffHasAttempts
<1>3. BreakerCountsFailures
  BY A2AAssumption DEF Init, BreakerCountsFailures
<1>4. UnderWayNotRun
  <2>1. \A c \in Callers : pc[c] = "idle" /\ ran[c] = 0
    BY DEF Init
  <2>2. ASSUME NEW c \in Callers PROVE ran[c] <= 1
    <3>1. ran[c] = 0
      BY <2>1
    <3> QED BY <3>1
  <2> QED BY <2>1, <2>2 DEF UnderWayNotRun
<1> QED BY <1>1, <1>2, <1>3, <1>4 DEF BreakerInv

(* One step per action; the outcomes of an attempt are AttemptOK.          *)
LEMMA BreakerInvStep == BreakerInv /\ [Next]_vars => BreakerInv'
<1> SUFFICES ASSUME BreakerOK, CallsOK, [Next]_vars PROVE BreakerOK' /\ CallsOK'
  BY InvSplits, PTL
<1>1. ASSUME NEW c \in Callers, Acquire(c) PROVE BreakerOK' /\ CallsOK'
  <2>1. BreakerOK'
    <3>1. circuit' \in {"closed", "open", "half_open"}
          /\ (circuit' = "closed" <=> circuit = "closed")
      BY <1>1 DEF Acquire, BreakerOK
    <3> QED BY <1>1, <3>1 DEF Acquire, BreakerOK, BreakerCountsFailures
  <2>2. /\ pc' \in [Callers -> {"idle", "attempt", "backoff"}]
        /\ attempt' \in [Callers -> 0..MaxRetries]
        /\ ran' \in [Callers -> Nat]
        /\ up' \in BOOLEAN
    BY <1>1, A2AAssumption DEF Acquire, CallsOK
  <2>3. /\ pc'[c] = "attempt" /\ ran'[c] = 0
        /\ \A d \in Callers : d # c =>
              pc'[d] = pc[d] /\ ran'[d] = ran[d] /\ attempt'[d] = attempt[d]
    BY <1>1 DEF Acquire, CallsOK
  <2>4. BackoffHasAttempts'
    BY <2>3 DEF CallsOK, BackoffHasAttempts
  <2>5. UnderWayNotRun'
    BY <2>3 DEF CallsOK, UnderWayNotRun
  <2> QED BY <2>1, <2>2, <2>4, <2>5 DEF CallsOK
<1>2. ASSUME NEW c \in Callers, TryAgain(c) PROVE BreakerOK' /\ CallsOK'
  <2>1. BreakerOK'
    BY <1>2 DEF TryAgain, BreakerOK, BreakerCountsFailures, breaker
  <2>2. attempt[c] < MaxRetries
    BY <1>2 DEF TryAgain, CallsOK, BackoffHasAttempts
  <2>3. /\ pc' \in [Callers -> {"idle", "attempt", "backoff"}]
        /\ attempt' \in [Callers -> 0..MaxRetries]
        /\ ran' = ran /\ up' = up
    BY <1>2, <2>2, A2AAssumption DEF TryAgain, CallsOK
  <2>4. /\ pc'[c] = "attempt" /\ pc[c] # "idle"
        /\ \A d \in Callers : d # c => pc'[d] = pc[d] /\ attempt'[d] = attempt[d]
    BY <1>2 DEF TryAgain, CallsOK
  <2>5. BackoffHasAttempts'
    BY <2>4 DEF CallsOK, BackoffHasAttempts
  <2>6. UnderWayNotRun'
    BY <2>3, <2>4 DEF CallsOK, UnderWayNotRun
  <2> QED BY <2>1, <2>3, <2>5, <2>6 DEF CallsOK
<1>3. ASSUME NEW c \in Callers, Abandoned(c) PROVE BreakerOK' /\ CallsOK'
  <2>1. Leave(c) /\ UNCHANGED ran /\ UNCHANGED breaker /\ pc[c] # "idle"
    BY <1>3 DEF Abandoned
  <2>2. BreakerOK'
    BY <2>1 DEF BreakerOK, BreakerCountsFailures, breaker
  <2> QED BY <2>1, <2>2, LeaveUnrunOK
<1>4. CASE CoolOff
  BY <1>4 DEF CoolOff, BreakerOK, BreakerCountsFailures, CallsOK, BackoffHasAttempts, UnderWayNotRun
<1>5. CASE Flip
  BY <1>5 DEF Flip, breaker, BreakerOK, BreakerCountsFailures, CallsOK, BackoffHasAttempts, UnderWayNotRun
<1>6. CASE UNCHANGED vars
  BY <1>6 DEF vars, BreakerOK, BreakerCountsFailures, CallsOK, BackoffHasAttempts, UnderWayNotRun
<1> QED BY <1>1, <1>2, <1>3, <1>4, <1>5, <1>6, AttemptOK DEF Next

LEMMA BreakerInvHolds == Spec => []BreakerInv
BY BreakerInvInit, BreakerInvStep, PTL DEF Spec

-----------------------------------------------------------------------------
(* run_query and the breaker stay well typed: in particular no call begins *)
(* more than _MAX_RETRIES attempts.                                        *)
THEOREM BreakerTypeCorrect == Spec => []TypeOK
<1>1. BreakerInv => TypeOK
  BY DEF BreakerInv
<1> QED BY <1>1, BreakerInvHolds, PTL

(* The breaker is closed exactly while fewer than Threshold consecutive    *)
(* failures are recorded, for any number of concurrent calls and however   *)
(* late their outcomes arrive (_circuit_record).                           *)
THEOREM BreakerCountsFailuresHolds == Spec => []BreakerCountsFailures
<1>1. BreakerInv => BreakerCountsFailures
  BY DEF BreakerInv
<1> QED BY <1>1, BreakerInvHolds, PTL

(* Under "fast-only" and "never" _post_with_retry never sends a turn again *)
(* that the backend has executed.                                          *)
THEOREM NoDoubleRunHolds == Spec => []NoDoubleRun
<1>1. BreakerInv => NoDoubleRun
  BY DEF BreakerInv, UnderWayNotRun, NoDoubleRun
<1> QED BY <1>1, BreakerInvHolds, PTL

-----------------------------------------------------------------------------
(* The turns of claude, for any turns and sessions.                        *)

(* Tools ran in the present attempt only, which the flag tells; that keeps *)
(* run_query from a second attempt once one has run.                       *)
OneAttempt ==
    \A c \in CTurns :
        /\ toolRuns[c] = {} \/ toolRuns[c] = {tries[c]}
        /\ toolRuns[c] # {} => toolFlag[c]
        /\ cpc[c] \in {"idle", "probed"} => toolRuns[c] = {}

Lines == {"user", "agent", "system"}
TurnPlaces ==
    {"idle", "probed", "query", "track", "evict", "lapse", "unlink", "done", "failed", "cancelled"}

TurnTypes ==
    /\ cpc \in [CTurns -> TurnPlaces]
    /\ tries \in [CTurns -> 0..2]
    /\ unlogged \in [CTurns -> 0..1]
    /\ collectedBy \in [CTurns -> Nat]
    /\ convo \in [CTurns -> Seq(Lines)]
    /\ isNew \in [CTurns -> BOOLEAN]
    /\ toolFlag \in [CTurns -> BOOLEAN]
    /\ DOMAIN toolRuns = CTurns

(* The log of a first attempt holds the prompt and each collected block    *)
(* but the one at hand, until a marker ends it.                            *)
LogTells ==
    \A c \in CTurns :
        /\ cpc[c] = "idle" => convo[c] = <<>> /\ collectedBy[c] = 0 /\ unlogged[c] = 0
        /\ cpc[c] = "probed" => Len(convo[c]) = 1 /\ collectedBy[c] = 0 /\ unlogged[c] = 0
        /\ cpc[c] = "query" => tries[c] # 0
        /\ cpc[c] = "query" /\ tries[c] = 1 => Len(convo[c]) = 1 + collectedBy[c] - unlogged[c]
        /\ cpc[c] \in {"track", "evict", "done"} /\ tries[c] = 1 =>
              \/ convo[c] # <<>> /\ convo[c][Len(convo[c])] = "system"
              \/ Len(convo[c]) = 1 + collectedBy[c]
        /\ cpc[c] \in {"lapse", "unlink", "failed"} =>
              convo[c] # <<>> /\ convo[c][Len(convo[c])] = "system"

TurnInv == TurnTypes /\ OneAttempt /\ LogTells

(* What a turn's parts are when one line is logged.                        *)
LEMMA Logged ==
    ASSUME NEW q \in Seq(Lines), NEW x \in Lines
    PROVE  /\ Append(q, x) \in Seq(Lines)
           /\ Append(q, x) # <<>>
           /\ Len(Append(q, x)) = Len(q) + 1
           /\ Append(q, x)[Len(Append(q, x))] = x
<1>1. Append(q, x) \in Seq(Lines) /\ Len(Append(q, x)) = Len(q) + 1 /\ Append(q, x)[Len(q) + 1] = x
  BY AppendProperties
<1> QED BY <1>1

LEMMA NoLine == <<>> \in Seq(Lines) /\ Len(<<>>) = 0
BY EmptySeq

LEMMA TurnInvInit == C!ClaudeInit => TurnInv
<1> SUFFICES ASSUME C!ClaudeInit PROVE TurnInv
  OBVIOUS
<1>1. TurnTypes
  <2>1. isNew \in [CTurns -> BOOLEAN] /\ toolFlag \in [CTurns -> BOOLEAN]
    BY Zenon DEF C!ClaudeInit
  <2>2. convo \in [CTurns -> Seq(Lines)]
    BY NoLine DEF C!ClaudeInit
  <2>3. cpc \in [CTurns -> TurnPlaces]
    BY DEF C!ClaudeInit, TurnPlaces
  <2> QED BY <2>1, <2>2, <2>3 DEF C!ClaudeInit, TurnTypes
<1>2. OneAttempt
  BY DEF C!ClaudeInit, OneAttempt
<1>3. LogTells
  BY DEF C!ClaudeInit, LogTells
<1> QED BY <1>1, <1>2, <1>3 DEF TurnInv

(* A turn that only moves on keeps the invariant: to track when its last   *)
(* block is logged, and from track, or after a marker, to its end.         *)
LEMMA TurnMoves ==
    ASSUME TurnInv, NEW c \in CTurns, NEW w \in TurnPlaces,
           cpc' = [cpc EXCEPT ![c] = w],
           UNCHANGED <<tries, toolFlag, toolRuns, collectedBy, unlogged, isNew, convo>>,
           \/ w = "track" /\ cpc[c] = "query" /\ unlogged[c] = 0
           \/ w = "cancelled"
           \/ w \in {"evict", "done"} /\ cpc[c] \in {"track", "evict"}
           \/ w \in {"unlink", "failed"} /\ cpc[c] \in {"lapse", "unlink"}
    PROVE  TurnInv'
<1>1. TurnTypes'
  BY Zenon DEF TurnInv, TurnTypes
<1>2. OneAttempt'
  BY DEF TurnInv, TurnTypes, OneAttempt, TurnPlaces
<1>3. LogTells'
  <2> SUFFICES ASSUME NEW d \in CTurns
               PROVE  LogTells!(d)'
    BY DEF LogTells
  <2>1. CASE d # c
    BY <2>1 DEF TurnInv, TurnTypes, LogTells
  <2>2. CASE d = c
    BY <2>2 DEF TurnInv, TurnTypes, LogTells, TurnPlaces
  <2> QED BY <2>1, <2>2
<1> QED BY <1>1, <1>2, <1>3 DEF TurnInv

(* A turn that leaves its query with a marker in the log.                  *)
LEMMA TurnMarked ==
    ASSUME TurnInv, NEW c \in CTurns, NEW w \in {"track", "lapse", "failed"},
           cpc[c] = "query",
           cpc' = [cpc EXCEPT ![c] = w],
           convo' = [convo EXCEPT ![c] = Append(@, "system")],
           UNCHANGED <<tries, toolFlag, toolRuns, collectedBy, unlogged, isNew>>
    PROVE  TurnInv'
<1> DEFINE line == Append(convo[c], "system")
<1>0. line \in Seq(Lines) /\ line # <<>> /\ line[Len(line)] = "system"
  BY Logged DEF TurnInv, TurnTypes, Lines
<1> HIDE DEF line
<1>5. convo' = [convo EXCEPT ![c] = line]
  BY DEF line, TurnInv, TurnTypes
<1>1. TurnTypes'
  <2>1. w \in TurnPlaces
    BY DEF TurnPlaces
  <2> QED BY <1>0, <1>5, <2>1, Zenon DEF TurnInv, TurnTypes
<1>2. OneAttempt'
  BY DEF TurnInv, TurnTypes, OneAttempt, TurnPlaces
<1>3. LogTells'
  <2> SUFFICES ASSUME NEW d \in CTurns
               PROVE  LogTells!(d)'
    BY DEF LogTells
  <2>1. CASE d # c
    BY <2>1, <1>5 DEF TurnInv, TurnTypes, LogTells
  <2>2. CASE d = c
    BY <2>2, <1>5, <1>0 DEF TurnInv, TurnTypes, LogTells
  <2> QED BY <2>1, <2>2
<1> QED BY <1>1, <1>2, <1>3 DEF TurnInv

LEMMA TurnStepOK ==
    ASSUME TurnInv, NEW c \in CTurns,
           \/ C!Probe(c) \/ C!Start(c) \/ C!TextBlock(c) \/ C!ToolUseBlock(c) \/ C!EndMessage(c) \/ C!Retry(c)
    PROVE  TurnInv'
<1>1. CASE C!Probe(c)
  <2>1. isNew' \in [CTurns -> BOOLEAN]
    BY <1>1, Zenon DEF C!Probe, TurnInv, TurnTypes
  <2>2. convo' = [convo EXCEPT ![c] = Append(<<>>, "user")]
    BY <1>1 DEF C!Probe, C!Log, TurnInv, TurnTypes, LogTells
  <2>3. Append(<<>>, "user") \in Seq(Lines) /\ Len(Append(<<>>, "user")) = 1
    BY NoLine, Logged DEF Lines
  <2>4. cpc' = [cpc EXCEPT ![c] = "probed"]
    BY <1>1 DEF C!Probe, C!Goto
  <2>5. TurnTypes'
    <3>1. cpc' \in [CTurns -> TurnPlaces] /\ convo' \in [CTurns -> Seq(Lines)]
      BY <2>2, <2>3, <2>4 DEF TurnInv, TurnTypes, TurnPlaces
    <3> QED BY <1>1, <2>1, <3>1 DEF C!Probe, TurnInv, TurnTypes
  <2>6. OneAttempt'
    BY <1>1, <2>4 DEF C!Probe, TurnInv, TurnTypes, OneAttempt
  <2>7. LogTells'
    <3> SUFFICES ASSUME NEW d \in CTurns
                 PROVE  LogTells!(d)'
      BY DEF LogTells
    <3>1. CASE d # c
      BY <1>1, <2>2, <2>4, <3>1 DEF C!Probe, TurnInv, TurnTypes, LogTells
    <3>2. CASE d = c
      BY <1>1, <2>2, <2>3, <2>4, <3>2 DEF C!Probe, TurnInv, TurnTypes, LogTells
    <3> QED BY <3>1, <3>2
  <2> QED BY <2>5, <2>6, <2>7 DEF TurnInv
<1>2. CASE C!Start(c)
  <2>1. TurnTypes'
    BY <1>2 DEF C!Start, C!Goto, TurnInv, TurnTypes, TurnPlaces
  <2>2. OneAttempt'
    BY <1>2 DEF C!Start, C!Goto, TurnInv, TurnTypes, OneAttempt
  <2>3. LogTells'
    <3>0. /\ tries' = [tries EXCEPT ![c] = 1] /\ cpc' = [cpc EXCEPT ![c] = "query"]
          /\ UNCHANGED <<collectedBy, unlogged, convo>> /\ cpc[c] = "probed"
      BY <1>2 DEF C!Start, C!Goto
    <3> SUFFICES ASSUME NEW d \in CTurns
                 PROVE  LogTells!(d)'
      BY DEF LogTells
    <3>1. CASE d # c
      BY <3>0, <3>1 DEF TurnInv, TurnTypes, LogTells
    <3>2. CASE d = c
      <4>1. Len(convo[d]) = 1 /\ collectedBy[d] = 0 /\ unlogged[d] = 0
        BY <3>0, <3>2 DEF TurnInv, LogTells
      <4> QED BY <3>0, <3>2, <4>1 DEF TurnInv, TurnTypes
    <3> QED BY <3>1, <3>2
  <2> QED BY <2>1, <2>2, <2>3 DEF TurnInv
<1>3. CASE C!TextBlock(c)
  <2>1. TurnTypes'
    BY <1>3 DEF C!TextBlock, TurnInv, TurnTypes
  <2>2. OneAttempt'
    BY <1>3 DEF C!TextBlock, TurnInv, TurnTypes, OneAttempt
  <2>3. LogTells'
    BY <1>3 DEF C!TextBlock, TurnInv, TurnTypes, LogTells
  <2> QED BY <2>1, <2>2, <2>3 DEF TurnInv
<1>4. CASE C!ToolUseBlock(c)
  <2>1. TurnTypes'
    <3>1. toolFlag' \in [CTurns -> BOOLEAN]
      BY <1>4, Zenon DEF C!ToolUseBlock, TurnInv, TurnTypes
    <3> QED BY <1>4, <3>1 DEF C!ToolUseBlock, TurnInv, TurnTypes
  <2>2. OneAttempt'
    BY <1>4 DEF C!ToolUseBlock, TurnInv, TurnTypes, OneAttempt
  <2>3. LogTells'
    BY <1>4 DEF C!ToolUseBlock, TurnInv, TurnTypes, LogTells
  <2> QED BY <2>1, <2>2, <2>3 DEF TurnInv
<1>5. CASE C!EndMessage(c)
  <2> DEFINE line == Append(convo[c], "agent")
  <2>1. line \in Seq(Lines) /\ Len(line) = Len(convo[c]) + 1
    BY Logged DEF TurnInv, TurnTypes, Lines
  <2> HIDE DEF line
  <2>2. convo' = [convo EXCEPT ![c] = line]
    BY <1>5 DEF line, C!EndMessage, C!Log, TurnInv, TurnTypes
  <2>3. TurnTypes'
    <3>1. convo' \in [CTurns -> Seq(Lines)]
      BY <2>1, <2>2 DEF TurnInv, TurnTypes
    <3>2. unlogged' \in [CTurns -> 0..1]
      BY <1>5 DEF C!EndMessage, TurnInv, TurnTypes
    <3> QED BY <1>5, <3>1, <3>2, Zenon DEF C!EndMessage, TurnInv, TurnTypes
  <2>4. OneAttempt'
    BY <1>5 DEF C!EndMessage, TurnInv, TurnTypes, OneAttempt
  <2>5. LogTells'
    <3> SUFFICES ASSUME NEW d \in CTurns
                 PROVE  LogTells!(d)'
      BY DEF LogTells
    <3>1. CASE d # c
      BY <1>5, <2>2, <3>1 DEF C!EndMessage, TurnInv, TurnTypes, LogTells
    <3>2. CASE d = c
      <4>1. unlogged[c] = 1 /\ unlogged'[c] = 0 /\ convo'[c] = line /\ cpc[c] = "query"
        BY <1>5, <2>2 DEF C!EndMessage, TurnInv, TurnTypes
      <4>2. UNCHANGED <<cpc, tries, collectedBy>>
        BY <1>5 DEF C!EndMessage
      <4>3. Len(convo[c]) \in Nat /\ collectedBy[c] \in Nat
        BY LenProperties DEF TurnInv, TurnTypes
      <4>4. tries[c] # 0 /\ (tries[c] = 1 => Len(convo[c]) = 1 + collectedBy[c] - unlogged[c])
        BY <4>1 DEF TurnInv, LogTells
      <4> QED BY <3>2, <2>1, <4>1, <4>2, <4>3, <4>4
    <3> QED BY <3>1, <3>2
  <2> QED BY <2>3, <2>4, <2>5 DEF TurnInv
<1>6. CASE C!Retry(c)
  <2>1. TurnTypes'
    BY <1>6 DEF C!Retry, TurnInv, TurnTypes
  <2>2. OneAttempt'
    BY <1>6 DEF C!Retry, C!MayRetry, TurnInv, TurnTypes, OneAttempt
  <2>3. LogTells'
    BY <1>6 DEF C!Retry, TurnInv, TurnTypes, LogTells
  <2> QED BY <2>1, <2>2, <2>3 DEF TurnInv
<1> QED BY <1>1, <1>2, <1>3, <1>4, <1>5, <1>6

LEMMA TurnInvStep == TurnInv /\ [C!ClaudeNext]_claudevars => TurnInv'
<1> SUFFICES ASSUME TurnInv, [C!ClaudeNext]_claudevars PROVE TurnInv'
  OBVIOUS
<1>1. CASE UNCHANGED claudevars
  BY <1>1 DEF claudevars, TurnInv, TurnTypes, OneAttempt, LogTells
<1>2. CASE C!ClaudeNext
  <2> PICK c \in CTurns :
        \/ C!Probe(c) \/ C!Start(c) \/ C!SdkSaves(c)
        \/ C!TextBlock(c) \/ C!ToolUseBlock(c) \/ C!EndMessage(c) \/ C!BudgetExceeded(c) \/ C!Completes(c)
        \/ C!Retry(c) \/ C!Fails(c) \/ C!Cancelled(c)
        \/ C!TimesOut(c) \/ C!Forget(c) \/ C!Unlink(c)
        \/ C!Track(c) \/ C!Evicted(c)
    BY <1>2, Zenon DEF C!ClaudeNext
  <2>1. CASE C!SdkSaves(c)
    BY <2>1 DEF C!SdkSaves, C!attempt, TurnInv, TurnTypes, OneAttempt, LogTells
  <2>2. CASE C!BudgetExceeded(c)
    BY <2>2, TurnMarked DEF C!BudgetExceeded, C!attempt, C!Goto, C!Log
  <2>3. CASE C!Completes(c)
    BY <2>3, TurnMoves DEF C!Completes, C!attempt, C!Goto, TurnPlaces
  <2>4. CASE C!Fails(c)
    BY <2>4, TurnMarked DEF C!Fails, C!attempt, C!Goto, C!Log
  <2>5. CASE C!Cancelled(c)
    BY <2>5, TurnMoves DEF C!Cancelled, C!attempt, C!Goto, TurnPlaces
  <2>6. CASE C!TimesOut(c)
    BY <2>6, TurnMarked DEF C!TimesOut, C!attempt, C!Goto, C!Log
  <2>7. CASE C!Forget(c)
    BY <2>7, TurnMoves DEF C!Forget, C!attempt, C!Goto, TurnPlaces
  <2>8. CASE C!Unlink(c)
    BY <2>8, TurnMoves DEF C!Unlink, C!attempt, C!Goto, TurnPlaces
  <2>9. CASE C!Track(c)
    BY <2>9, TurnMoves DEF C!Track, C!attempt, C!Goto, TurnPlaces
  <2>10. CASE C!Evicted(c)
    BY <2>10, TurnMoves DEF C!Evicted, C!attempt, C!Goto, TurnPlaces
  <2> QED BY TurnStepOK, <2>1, <2>2, <2>3, <2>4, <2>5, <2>6, <2>7, <2>8, <2>9, <2>10
<1> QED BY <1>1, <1>2

(* Whatever collisions, failures, cancellations and timeouts its attempts  *)
(* meet, a turn of claude runs tools in one attempt at most (#1048) and    *)
(* its conversation log tells how it ended (#566), for any number of turns *)
(* and sessions, at once or not.                                           *)
THEOREM ToolsRunOnceHolds == C!ClaudeInit /\ [][C!ClaudeNext]_claudevars => []ToolsRunOnce
<1>1. TurnInv => ToolsRunOnce
  <2> SUFFICES ASSUME TurnInv PROVE ToolsRunOnce
    OBVIOUS
  <2>1. C!NoToolReplayed
    <3> SUFFICES ASSUME NEW c \in CTurns PROVE C!Cardinality(toolRuns[c]) <= 1
      BY DEF C!NoToolReplayed
    <3>1. C!Cardinality(toolRuns[c]) = Cardinality(toolRuns[c])
      BY Zenon DEF C!Cardinality, Cardinality
    <3>2. toolRuns[c] = {} \/ toolRuns[c] = {tries[c]}
      BY DEF TurnInv, OneAttempt
    <3>3. Cardinality(toolRuns[c]) \in {0, 1}
      BY <3>2, FS_EmptySet, FS_Singleton
    <3> QED BY <3>1, <3>3
  <2>2. C!TranscriptHonest
    BY DEF C!TranscriptHonest, C!Last, TurnInv, LogTells
  <2> QED BY <2>1, <2>2 DEF ToolsRunOnce
<1> QED BY <1>1, TurnInvInit, TurnInvStep, PTL

-----------------------------------------------------------------------------
(* The LRUs and the pool of openai's computers: sequences without a value  *)
(* twice.                                                                  *)
Elems(q) == {q[i] : i \in 1..Len(q)}
Once(q) == \A i, j \in 1..Len(q) : q[i] = q[j] => i = j

LEMMA CutOutOnce ==
    ASSUME NEW q, Len(q) \in Nat, Once(q), NEW k \in 1..Len(q),
           NEW r, Len(r) = Len(q) - 1,
           \A i \in 1..Len(r) : r[i] = IF i < k THEN q[i] ELSE q[i + 1]
    PROVE  Once(r) /\ Elems(r) = Elems(q) \ {q[k]}
<1>0. Len(q) \in Nat /\ k \in Nat
  OBVIOUS
<1>1. Once(r)
  BY <1>0 DEF Once
<1>2. Elems(r) \subseteq Elems(q) \ {q[k]}
  BY <1>0 DEF Once, Elems
<1>3. Elems(q) \ {q[k]} \subseteq Elems(r)
  <2> SUFFICES ASSUME NEW i \in 1..Len(q), q[i] # q[k] PROVE q[i] \in Elems(r)
    BY DEF Elems
  <2>1. CASE i < k
    BY <1>0, <2>1 DEF Elems
  <2>2. CASE i > k
    <3>1. i - 1 \in 1..Len(r) /\ ~(i - 1 < k) /\ (i - 1) + 1 = i
      BY <1>0, <2>2
    <3> QED BY <3>1 DEF Elems
  <2> QED BY <1>0, <2>1, <2>2
<1> QED BY <1>1, <1>2, <1>3

LEMMA CutOut ==
    ASSUME NEW S, NEW q \in Seq(S), Once(q), NEW k \in 1..Len(q)
    PROVE  LET r == SubSeq(q, 1, k - 1) \o SubSeq(q, k + 1, Len(q))
           IN  /\ r \in Seq(S) /\ Once(r)
               /\ Len(r) = Len(q) - 1
               /\ Elems(r) = Elems(q) \ {q[k]}
<1> DEFINE a == SubSeq(q, 1, k - 1)
           b == SubSeq(q, k + 1, Len(q))
           c == a \o b
<1>0. Len(q) \in Nat /\ k \in Nat
  BY LenProperties
<1>1. a \in Seq(S) /\ Len(a) = k - 1 /\ \A i \in 1..(k - 1) : a[i] = q[i]
  BY <1>0, SubSeqProperties
<1>2. b \in Seq(S) /\ Len(b) = Len(q) - k /\ \A i \in 1..(Len(q) - k) : b[i] = q[k + i]
  BY <1>0, SubSeqProperties
<1> HIDE DEF a, b
<1>3. /\ c \in Seq(S) /\ Len(c) = Len(a) + Len(b)
      /\ \A i \in 1..(Len(a) + Len(b)) : c[i] = IF i <= Len(a) THEN a[i] ELSE b[i - Len(a)]
  BY <1>1, <1>2, ConcatProperties
<1> HIDE DEF c
<1>4. c \in Seq(S) /\ Len(c) = Len(q) - 1
  BY <1>0, <1>1, <1>2, <1>3
<1>5. \A i \in 1..Len(c) : c[i] = IF i < k THEN q[i] ELSE q[i + 1]
  <2> SUFFICES ASSUME NEW i \in 1..Len(c) PROVE c[i] = IF i < k THEN q[i] ELSE q[i + 1]
    OBVIOUS
  <2>1. CASE i < k
    BY <1>0, <1>1, <1>2, <1>3, <1>4, <2>1
  <2>2. CASE ~(i < k)
    <3>1. i - Len(a) \in 1..(Len(q) - k) /\ k + (i - Len(a)) = i + 1 /\ ~(i <= Len(a))
      BY <1>0, <1>1, <1>4, <2>2
    <3>2. c[i] = b[i - Len(a)]
      BY <1>0, <1>1, <1>2, <1>3, <1>4, <3>1
    <3> QED BY <1>2, <2>2, <3>1, <3>2
  <2> QED BY <2>1, <2>2
<1>6. Once(c) /\ Elems(c) = Elems(q) \ {q[k]}
  BY <1>0, <1>4, <1>5, CutOutOnce
<1> QED BY <1>4, <1>6 DEF a, b, c

LEMMA PutLast ==
    ASSUME NEW S, NEW q \in Seq(S), Once(q), NEW x \in S, x \notin Elems(q)
    PROVE  /\ Append(q, x) \in Seq(S) /\ Once(Append(q, x))
           /\ Len(Append(q, x)) = Len(q) + 1
           /\ Elems(Append(q, x)) = Elems(q) \cup {x}
<1> DEFINE r == Append(q, x)
<1>0. Len(q) \in Nat
  BY LenProperties
<1>1. /\ r \in Seq(S) /\ Len(r) = Len(q) + 1
      /\ \A i \in 1..Len(q) : r[i] = q[i]
      /\ r[Len(q) + 1] = x
  BY AppendProperties
<1> HIDE DEF r
<1>2. Once(r)
  BY <1>0, <1>1 DEF Once, Elems
<1>3. Elems(r) = Elems(q) \cup {x}
  BY <1>0, <1>1 DEF Elems
<1> QED BY <1>1, <1>2, <1>3 DEF r

LEMMA DropFirst ==
    ASSUME NEW S, NEW q \in Seq(S), Once(q), Len(q) > 0
    PROVE  /\ Tail(q) \in Seq(S) /\ Once(Tail(q))
           /\ Len(Tail(q)) = Len(q) - 1
           /\ Head(q) \in S
           /\ Elems(q) = Elems(Tail(q)) \cup {Head(q)}
<1> DEFINE r == Tail(q)
<1>0. Len(q) \in Nat /\ q # <<>>
  BY LenProperties, EmptySeq
<1>1. /\ r \in Seq(S) /\ Len(r) = Len(q) - 1 /\ Head(q) = q[1]
      /\ \A i \in 1..Len(r) : r[i] = q[i + 1]
  BY <1>0, HeadTailProperties
<1> HIDE DEF r
<1>2. Once(r)
  BY <1>0, <1>1 DEF Once
<1>3. q[1] \in S
  BY <1>0, ElementOfSeq
<1>4. Elems(r) \cup {q[1]} \subseteq Elems(q)
  BY <1>0, <1>1 DEF Elems
<1>5. Elems(q) \subseteq Elems(r) \cup {q[1]}
  <2> SUFFICES ASSUME NEW i \in 1..Len(q), i # 1 PROVE q[i] \in Elems(r)
    BY DEF Elems
  <2>1. i - 1 \in 1..Len(r) /\ (i - 1) + 1 = i
    BY <1>0, <1>1
  <2> QED BY <1>1, <2>1 DEF Elems
<1> QED BY <1>1, <1>2, <1>3, <1>4, <1>5 DEF r

(* The operators of SequencesExt, as the two backends use them.            *)
LEMMA InElems ==
    ASSUME NEW S, NEW q \in Seq(S)
    PROVE  /\ \A x : O!Contains(q, x) <=> x \in Elems(q)
           /\ \A x : C!Contains(q, x) <=> x \in Elems(q)
           /\ O!ToSet(q) = Elems(q) /\ C!ToSet(q) = Elems(q)
           /\ O!IsInjective(q) <=> Once(q)
           /\ C!IsInjective(q) <=> Once(q)
           /\ Elems(q) \subseteq S
<1>1. DOMAIN q = 1..Len(q) /\ \A i \in 1..Len(q) : q[i] \in S
  BY LenProperties, ElementOfSeq
<1>2. (\A x : O!Contains(q, x) <=> x \in Elems(q)) /\ (\A x : C!Contains(q, x) <=> x \in Elems(q))
  BY Zenon DEF O!Contains, C!Contains, Elems
<1>3. O!ToSet(q) = Elems(q) /\ C!ToSet(q) = Elems(q)
  BY <1>1, Zenon DEF O!ToSet, C!ToSet, Elems
<1>4. (O!IsInjective(q) <=> Once(q)) /\ (C!IsInjective(q) <=> Once(q))
  BY <1>1, Zenon DEF O!IsInjective, C!IsInjective, Once
<1>5. Elems(q) \subseteq S
  BY <1>1 DEF Elems
<1> QED BY <1>2, <1>3, <1>4, <1>5

LEMMA LeastPlace ==
    ASSUME NEW q, Len(q) \in Nat, Once(q), NEW x, x \in Elems(q)
    PROVE  \E k \in 1..Len(q) : q[k] = x /\ {i \in 1..Len(q) : q[i] = x} = {k}
<1> PICK k \in 1..Len(q) : q[k] = x
  BY DEF Elems
<1> QED BY DEF Once

LEMMA TakenOut ==
    ASSUME NEW S, NEW q \in Seq(S), Once(q), NEW x,
           NEW r, r = O!RemoveFirst(q, x) \/ r = C!RemoveFirst(q, x)
    PROVE  /\ r \in Seq(S) /\ Once(r)
           /\ Elems(r) = Elems(q) \ {x}
           /\ Len(r) = IF x \in Elems(q) THEN Len(q) - 1 ELSE Len(q)
<1>0. Len(q) \in Nat
  BY LenProperties
<1>1. CASE x \notin Elems(q)
  <2>1. ~\E i \in 1..Len(q) : q[i] = x
    BY <1>1 DEF Elems
  <2>2. r = q
    BY <2>1 DEF O!RemoveFirst, C!RemoveFirst
  <2> QED BY <1>1, <2>2
<1>2. CASE x \in Elems(q)
  <2> PICK k \in 1..Len(q) : q[k] = x /\ {i \in 1..Len(q) : q[i] = x} = {k}
    BY <1>0, <1>2, LeastPlace
  <2>1. \E i \in 1..Len(q) : q[i] = x
    OBVIOUS
  <2>2. O!Min({k}) = k /\ C!Min({k}) = k
    BY DEF O!Min, C!Min
  <2>3. r = SubSeq(q, 1, k - 1) \o SubSeq(q, k + 1, Len(q))
    <3>1. r = O!RemoveAt(q, k) \/ r = C!RemoveAt(q, k)
      BY <2>1, <2>2, Zenon DEF O!RemoveFirst, C!RemoveFirst, O!SelectInSeq, C!SelectInSeq
    <3> QED BY <3>1, Zenon DEF O!RemoveAt, C!RemoveAt
  <2> HIDE DEF Elems
  <2> QED BY <1>2, <2>3, CutOut
<1> QED BY <1>1, <1>2

-----------------------------------------------------------------------------
(* The session files of claude.  The lock is held by the turn that evicts, *)
(* and by no other, while its session still waits to come into the LRU;    *)
(* that leaves the room it needs.  A file is of a session in the LRU, of   *)
(* one left over, of the one being evicted, or of one at work.             *)
AtWork == {"probed", "query", "track", "evict", "lapse", "unlink"}
Over == {"done", "failed", "cancelled"}

FileTypes ==
    /\ csession \in [CTurns -> CSessions]
    /\ cpc \in [CTurns -> TurnPlaces]
    /\ clru \in Seq(CSessions) /\ Once(clru)
    /\ onDisk \subseteq CSessions
    /\ slowWatch \subseteq CTurns

EvictsAlone ==
    \A c \in CTurns :
        /\ cpc[c] = "evict" <=> cLock = c
        /\ cpc[c] = "evict" => Len(clru) < CMaxSessions /\ csession[c] \notin Elems(clru)

FilesCovered ==
    \A s \in onDisk :
        \/ s \in Elems(clru)
        \/ s \in leftOver
        \/ s = cEvicting /\ \E c \in CTurns : cpc[c] = "evict"
        \/ \E c \in CTurns : cpc[c] \in AtWork /\ csession[c] = s

NotWatched == \A c \in CTurns : cpc[c] \in Over => c \notin slowWatch

FileInv == FileTypes /\ EvictsAlone /\ Len(clru) <= CMaxSessions /\ FilesCovered /\ NotWatched

-----------------------------------------------------------------------------
(* The sessions of openai: the same for the LRU, the rows and the lock;    *)
(* the row of a session that is forgotten is gone once its deletion is     *)
(* over.  A computer's number is bounded by the requests that have begun.  *)
OPlaces == {"idle", "running", "track", "lapse", "drop", "dropped", "evict", "evicted", "done"}
Locking == {"drop", "dropped", "evict", "evicted"}
OAtWork == {"running", "track", "lapse", "evict", "evicted"}
Begun == {r \in OReqs : opc[r] # "idle"}

RowTypes ==
    /\ opc \in [OReqs -> OPlaces]
    /\ olru \in Seq(O!OSessions) /\ Once(olru) /\ Len(olru) <= OMaxSessions
    /\ rows \subseteq O!OSessions

LocksAlone ==
    \A r \in OReqs :
        /\ opc[r] \in Locking <=> sessionsLock = r
        /\ opc[r] \in {"evict", "evicted"} =>
              Len(olru) < OMaxSessions /\ OSessionOf[r] \notin Elems(olru)
        /\ opc[r] \in {"drop", "dropped"} => evicting = OSessionOf[r]

RowsCovered ==
    \A s \in rows :
        \/ s \in Elems(olru)
        \/ s \in failedOnce
        \/ s = evicting /\ \E r \in OReqs : opc[r] \in {"drop", "evict"}
        \/ \E r \in OReqs : opc[r] \in OAtWork /\ OSessionOf[r] = s

RowInv == RowTypes /\ LocksAlone /\ RowsCovered

PoolTypes ==
    /\ opc \in [OReqs -> OPlaces]
    /\ pool \in Seq(O!OSessions) /\ Once(pool) /\ Len(pool) <= MaxContexts
    /\ made \in [O!OSessions -> Nat]
    /\ \A s \in O!OSessions : made[s] <= Cardinality(Begun)
    /\ DOMAIN held = OReqs
    /\ \A r \in OReqs : held[r] # <<>> => held[r] \in O!Computers
    /\ contexts \subseteq O!Computers /\ closing \subseteq O!Computers

ContextsKept ==
    ~reused => \A c \in contexts : c \in closing \/ (c[1] \in Elems(pool) /\ <<c[1], made[c[1]]>> = c)

PoolInv == PoolTypes /\ ContextsKept

-----------------------------------------------------------------------------
LEMMA FileInvInit == C!ClaudeInit => FileInv
<1> SUFFICES ASSUME C!ClaudeInit PROVE FileInv
  OBVIOUS
<1>1. <<>> \in Seq(CSessions) /\ Len(<<>>) = 0
  BY EmptySeq
<1>2. clru = <<>> /\ cLock = "free" /\ onDisk = {} /\ slowWatch = {} /\ cpc = [c \in CTurns |-> "idle"]
  BY DEF C!ClaudeInit
<1>3. Once(clru) /\ Len(clru) <= CMaxSessions
  BY <1>1, <1>2, BackendsAssumption DEF Once, C!ClaudeAssumption
<1>4. FileTypes
  BY <1>1, <1>2, <1>3 DEF FileTypes, TurnPlaces, C!ClaudeInit
<1>5. EvictsAlone
  BY <1>2, BackendsAssumption DEF EvictsAlone, C!ClaudeAssumption
<1> QED BY <1>2, <1>3, <1>4, <1>5 DEF FileInv, FilesCovered, NotWatched, Over

(* A turn that moves from one place at work to another, or begins, while   *)
(* the store is left alone.                                                *)
LEMMA FilesMove ==
    ASSUME FileInv, NEW c \in CTurns, NEW w \in {"probed", "query", "track", "lapse"},
           cpc[c] \in {"idle", "probed", "query"},
           cpc' = [cpc EXCEPT ![c] = w],
           slowWatch' \subseteq slowWatch \cup {c},
           UNCHANGED <<csession, clru, cLock, cEvicting, onDisk, leftOver>>
    PROVE  FileInv'
<1>1. FileTypes'
  BY DEF FileInv, FileTypes, TurnPlaces
<1>2. EvictsAlone'
  BY DEF FileInv, FileTypes, EvictsAlone
<1>3. FilesCovered'
  BY DEF FileInv, FileTypes, FilesCovered, AtWork
<1>4. NotWatched'
  BY DEF FileInv, FileTypes, NotWatched, Over
<1> QED BY <1>1, <1>2, <1>3, <1>4 DEF FileInv

(* A turn of session s that ends: the store keeps whatever else it had.    *)
LEMMA FilesEnd ==
    ASSUME FileInv, NEW c \in CTurns, NEW w \in Over,
           cpc[c] # "evict",
           cpc' = [cpc EXCEPT ![c] = w],
           slowWatch' = slowWatch \ {c},
           onDisk' \subseteq onDisk, leftOver \subseteq leftOver',
           csession[c] \in onDisk' => csession[c] \in leftOver',
           UNCHANGED <<csession, clru, cLock, cEvicting>>
    PROVE  FileInv'
<1>1. FileTypes'
  BY DEF FileInv, FileTypes, TurnPlaces, Over
<1>2. EvictsAlone'
  BY DEF FileInv, FileTypes, EvictsAlone, Over
<1>3. FilesCovered'
  BY DEF FileInv, FileTypes, FilesCovered, AtWork
<1>4. NotWatched'
  BY DEF FileInv, FileTypes, NotWatched, Over
<1> QED BY <1>1, <1>2, <1>3, <1>4 DEF FileInv

LEMMA FilesForget ==
    ASSUME FileInv, NEW c \in CTurns, C!Forget(c) PROVE FileInv'
<1>1. PICK q : q = C!RemoveFirst(clru, csession[c])
  OBVIOUS
<1>2. /\ q \in Seq(CSessions) /\ Once(q) /\ Elems(q) = Elems(clru) \ {csession[c]}
      /\ Len(q) = IF csession[c] \in Elems(clru) THEN Len(clru) - 1 ELSE Len(clru)
  BY <1>1, TakenOut DEF FileInv, FileTypes
<1>3. /\ cpc[c] = "lapse" /\ cLock = "free" /\ clru' = q
      /\ cpc' = [cpc EXCEPT ![c] = "unlink"]
      /\ UNCHANGED <<csession, slowWatch, cLock, cEvicting, onDisk, leftOver>>
  BY <1>1 DEF C!Forget, C!Goto, C!attempt
<1>4. Len(clru) \in Nat /\ Len(q) <= Len(clru)
  BY <1>2, LenProperties DEF FileInv, FileTypes
<1>5. FileTypes'
  BY <1>2, <1>3 DEF FileInv, FileTypes, TurnPlaces
<1>6. \A d \in CTurns : cpc[d] # "evict" /\ cpc'[d] # "evict" /\ cLock # d
  BY <1>3, BackendsAssumption DEF FileInv, FileTypes, EvictsAlone, C!ClaudeAssumption
<1>7. EvictsAlone'
  BY <1>3, <1>6 DEF EvictsAlone
<1>8. FilesCovered'
  <2> SUFFICES ASSUME NEW s \in onDisk PROVE FilesCovered!(s)'
    BY <1>3 DEF FilesCovered
  <2>1. CASE s = csession[c]
    BY <1>3, <2>1 DEF FileInv, FileTypes, AtWork
  <2>2. CASE s # csession[c]
    BY <1>2, <1>3, <1>6, <2>2 DEF FileInv, FileTypes, FilesCovered, AtWork
  <2> QED BY <2>1, <2>2
<1>9. NotWatched'
  BY <1>3 DEF FileInv, FileTypes, NotWatched, Over
<1>10. Len(clru') <= CMaxSessions
  BY <1>2, <1>3, <1>4, BackendsAssumption, LenProperties DEF FileInv, C!ClaudeAssumption
<1> QED BY <1>5, <1>7, <1>8, <1>9, <1>10 DEF FileInv

LEMMA FilesTrack ==
    ASSUME FileInv, NEW c \in CTurns, C!Track(c) PROVE FileInv'
<1> DEFINE s == csession[c]
<1>0. /\ Len(clru) \in Nat /\ CMaxSessions \in Nat \ {0} /\ Len(clru) <= CMaxSessions
      /\ clru \in Seq(CSessions) /\ Once(clru) /\ s \in CSessions
  BY LenProperties, BackendsAssumption DEF FileInv, FileTypes, C!ClaudeAssumption
<1>1. cpc[c] = "track" /\ cLock = "free" /\ UNCHANGED <<csession, onDisk, leftOver>>
  BY DEF C!Track, C!attempt
<1>2. \A d \in CTurns : cpc[d] # "evict" /\ cLock # d
  BY <1>1, BackendsAssumption DEF FileInv, FileTypes, EvictsAlone, C!ClaudeAssumption
<1>3. CASE ~C!Contains(clru, s) /\ Len(clru) >= CMaxSessions
  <2>1. /\ cLock' = c /\ cEvicting' = Head(clru) /\ clru' = Tail(clru)
        /\ cpc' = [cpc EXCEPT ![c] = "evict"] /\ UNCHANGED slowWatch
    BY <1>3 DEF C!Track, C!Goto
  <2>2. /\ Tail(clru) \in Seq(CSessions) /\ Once(Tail(clru)) /\ Len(Tail(clru)) = Len(clru) - 1
        /\ Elems(clru) = Elems(Tail(clru)) \cup {Head(clru)}
    BY <1>0, <1>3, DropFirst
  <2>3. s \notin Elems(clru)
    BY <1>0, <1>3, InElems
  <2>4. PICK q : q = Tail(clru)
    OBVIOUS
  <2>5. /\ q \in Seq(CSessions) /\ Once(q) /\ Len(q) = Len(clru) - 1 /\ clru' = q
        /\ Elems(clru) = Elems(q) \cup {cEvicting'}
    BY <2>1, <2>2, <2>4
  <2>6. FileTypes'
    BY <1>1, <2>1, <2>5 DEF FileInv, FileTypes, TurnPlaces
  <2>7. EvictsAlone'
    <3>1. Len(q) < CMaxSessions /\ s \notin Elems(q)
      BY <1>0, <2>3, <2>5
    <3>2. \A d \in CTurns : cpc'[d] = "evict" <=> d = c
      BY <1>2, <2>1 DEF FileInv, FileTypes
    <3> QED BY <1>1, <2>1, <2>5, <3>1, <3>2, Zenon DEF EvictsAlone
  <2>8. FilesCovered'
    BY <1>1, <1>2, <2>1, <2>5 DEF FileInv, FileTypes, FilesCovered, AtWork
  <2>9. NotWatched'
    BY <2>1 DEF FileInv, FileTypes, NotWatched, Over
  <2> QED BY <1>0, <2>5, <2>6, <2>7, <2>8, <2>9 DEF FileInv
<1>4. CASE ~(~C!Contains(clru, s) /\ Len(clru) >= CMaxSessions)
  <2>1. PICK q : q = C!RemoveFirst(clru, s)
    OBVIOUS
  <2>2. /\ q \in Seq(CSessions) /\ Once(q) /\ Elems(q) = Elems(clru) \ {s}
        /\ Len(q) = IF s \in Elems(clru) THEN Len(clru) - 1 ELSE Len(clru)
    BY <1>0, <2>1, TakenOut
  <2>3. /\ clru' = Append(q, s) /\ cpc' = [cpc EXCEPT ![c] = "done"]
        /\ slowWatch' = slowWatch \ {c} /\ UNCHANGED <<cLock, cEvicting>>
    BY <1>4, <2>1 DEF C!Track, C!Goto, C!Drop
  <2>4. PICK p : p = Append(q, s)
    OBVIOUS
  <2>5. p \in Seq(CSessions) /\ Once(p) /\ Len(p) = Len(q) + 1 /\ Elems(p) = Elems(q) \cup {s}
    BY <1>0, <2>2, <2>4, PutLast
  <2>6. Elems(p) = Elems(clru) \cup {s} /\ clru' = p
    BY <2>2, <2>3, <2>4, <2>5
  <2>7. Len(p) <= CMaxSessions
    <3>1. C!Contains(clru, s) <=> s \in Elems(clru)
      BY <1>0, InElems
    <3> QED BY <1>0, <1>4, <2>2, <2>5, <3>1
  <2>8. FileTypes'
    BY <1>1, <2>3, <2>5, <2>6 DEF FileInv, FileTypes, TurnPlaces
  <2>9. EvictsAlone'
    BY <1>1, <1>2, <2>3 DEF FileInv, FileTypes, EvictsAlone
  <2>10. FilesCovered'
    BY <1>1, <1>2, <2>3, <2>6 DEF FileInv, FileTypes, FilesCovered, AtWork
  <2>11. NotWatched'
    BY <2>3 DEF FileInv, FileTypes, NotWatched, Over
  <2> QED BY <2>6, <2>7, <2>8, <2>9, <2>10, <2>11 DEF FileInv
<1> QED BY <1>3, <1>4

LEMMA FilesEvicted ==
    ASSUME FileInv, NEW c \in CTurns, C!Evicted(c) PROVE FileInv'
<1> DEFINE s == csession[c]
<1>1. /\ cpc[c] = "evict" /\ clru' = Append(clru, s) /\ cLock' = "free"
      /\ cpc' = [cpc EXCEPT ![c] = "done"]
      /\ slowWatch' = slowWatch \ {c} /\ UNCHANGED csession
  BY DEF C!Evicted, C!Drop, C!Goto, C!attempt
<1>2. /\ onDisk' \subseteq onDisk /\ leftOver \subseteq leftOver'
      /\ cEvicting \in onDisk' => cEvicting \in leftOver'
  BY DEF C!Evicted, C!Removed
<1>3. /\ Len(clru) \in Nat /\ CMaxSessions \in Nat /\ Len(clru) < CMaxSessions
      /\ clru \in Seq(CSessions) /\ Once(clru) /\ s \in CSessions /\ s \notin Elems(clru)
  BY <1>1, LenProperties, BackendsAssumption DEF FileInv, FileTypes, EvictsAlone, C!ClaudeAssumption
<1>4. PICK p : p = Append(clru, s)
  OBVIOUS
<1>5. p \in Seq(CSessions) /\ Once(p) /\ Len(p) = Len(clru) + 1 /\ Elems(p) = Elems(clru) \cup {s} /\ clru' = p
  BY <1>1, <1>3, <1>4, PutLast
<1>6. \A d \in CTurns : d # c => cpc[d] # "evict"
  BY <1>1 DEF FileInv, EvictsAlone
<1>7. FileTypes'
  BY <1>1, <1>2, <1>5 DEF FileInv, FileTypes, TurnPlaces
<1>8. EvictsAlone'
  BY <1>1, <1>6, BackendsAssumption DEF FileInv, FileTypes, EvictsAlone, C!ClaudeAssumption
<1>9. FilesCovered'
  <2> SUFFICES ASSUME NEW x \in onDisk' PROVE FilesCovered!(x)'
    BY DEF FilesCovered
  <2>1. CASE x = cEvicting
    BY <1>2, <2>1
  <2>2. CASE x # cEvicting /\ x # s
    BY <1>1, <1>2, <1>5, <2>2 DEF FileInv, FileTypes, FilesCovered, AtWork
  <2>3. CASE x = s
    BY <1>5, <2>3
  <2> QED BY <2>1, <2>2, <2>3
<1>10. NotWatched'
  BY <1>1 DEF FileInv, FileTypes, NotWatched, Over
<1> QED BY <1>3, <1>5, <1>7, <1>8, <1>9, <1>10 DEF FileInv

LEMMA FileInvStep == FileInv /\ [C!ClaudeNext]_claudevars => FileInv'
<1> SUFFICES ASSUME FileInv, [C!ClaudeNext]_claudevars PROVE FileInv'
  OBVIOUS
<1>1. CASE UNCHANGED <<csession, cpc, clru, cLock, cEvicting, onDisk, leftOver, slowWatch>>
  BY <1>1 DEF FileInv, FileTypes, EvictsAlone, FilesCovered, NotWatched
<1>2. CASE C!ClaudeNext
  <2> PICK c \in CTurns :
        \/ C!Probe(c) \/ C!Start(c) \/ C!SdkSaves(c)
        \/ C!TextBlock(c) \/ C!ToolUseBlock(c) \/ C!EndMessage(c) \/ C!BudgetExceeded(c) \/ C!Completes(c)
        \/ C!Retry(c) \/ C!Fails(c) \/ C!Cancelled(c)
        \/ C!TimesOut(c) \/ C!Forget(c) \/ C!Unlink(c)
        \/ C!Track(c) \/ C!Evicted(c)
    BY <1>2, Zenon DEF C!ClaudeNext
  <2>1. CASE C!Probe(c)
    BY <2>1, FilesMove DEF C!Probe, C!Goto, C!store
  <2>2. CASE C!Start(c)
    BY <2>2, FilesMove DEF C!Start, C!Goto, C!store
  <2>3. CASE C!BudgetExceeded(c) \/ C!Completes(c) \/ C!TimesOut(c)
    BY <2>3, FilesMove DEF C!BudgetExceeded, C!Completes, C!TimesOut, C!Goto, C!store, C!attempt
  <2>4. CASE C!SdkSaves(c)
    <3>1. /\ cpc[c] = "query" /\ onDisk' = onDisk \cup {csession[c]}
          /\ UNCHANGED <<csession, cpc, clru, cLock, cEvicting, leftOver, slowWatch>>
      BY <2>4 DEF C!SdkSaves, C!attempt
    <3>2. FileTypes' /\ EvictsAlone' /\ NotWatched'
      BY <3>1 DEF FileInv, FileTypes, EvictsAlone, NotWatched
    <3>3. FilesCovered'
      BY <3>1 DEF FileInv, FilesCovered, AtWork
    <3> QED BY <3>1, <3>2, <3>3 DEF FileInv
  <2>5. CASE C!TextBlock(c) \/ C!ToolUseBlock(c) \/ C!EndMessage(c) \/ C!Retry(c)
    BY <1>1, <2>5 DEF C!TextBlock, C!ToolUseBlock, C!EndMessage, C!Retry, C!store
  <2>6. CASE C!Fails(c) \/ C!Cancelled(c)
    <3>1. PICK w \in Over : cpc' = [cpc EXCEPT ![c] = w]
      BY <2>6 DEF C!Fails, C!Cancelled, C!Goto, Over
    <3> QED BY <2>6, <3>1, FilesEnd DEF C!Fails, C!Cancelled, C!Drop, C!attempt
  <2>7. CASE C!Unlink(c)
    <3>1. cpc' = [cpc EXCEPT ![c] = "failed"] /\ "failed" \in Over /\ cpc[c] = "unlink"
      BY <2>7 DEF C!Unlink, C!Goto, Over
    <3>2. /\ onDisk' \subseteq onDisk /\ leftOver \subseteq leftOver'
          /\ csession[c] \in onDisk' => csession[c] \in leftOver'
      BY <2>7 DEF C!Unlink, C!Removed
    <3> QED BY <2>7, <3>1, <3>2, FilesEnd DEF C!Unlink, C!Drop, C!attempt
  <2> QED BY FilesForget, FilesTrack, FilesEvicted, <2>1, <2>2, <2>3, <2>4, <2>5, <2>6, <2>7
<1> QED BY <1>1, <1>2 DEF claudevars

-----------------------------------------------------------------------------
LEMMA OpenAIConstants ==
    /\ IsFiniteSet(OReqs) /\ "free" \notin OReqs
    /\ OMaxSessions \in Nat \ {0} /\ MaxContexts \in Nat \ {0}
    /\ \A r \in OReqs : OSessionOf[r] \in O!OSessions
<1>1. O!IsFiniteSet(OReqs) => IsFiniteSet(OReqs)
  BY Zenon DEF O!IsFiniteSet, IsFiniteSet
<1> QED BY <1>1, BackendsAssumption DEF O!OAAssumption, O!OSessions

LEMMA RowInvInit == O!OAInit => RowInv
<1> SUFFICES ASSUME O!OAInit PROVE RowInv
  OBVIOUS
<1>1. <<>> \in Seq(O!OSessions) /\ Len(<<>>) = 0
  BY EmptySeq
<1>2. opc = [r \in OReqs |-> "idle"] /\ olru = <<>> /\ rows = {} /\ sessionsLock = "free"
  BY DEF O!OAInit
<1>3. RowTypes
  BY <1>1, <1>2, OpenAIConstants DEF RowTypes, OPlaces, Once
<1>4. LocksAlone
  BY <1>2, OpenAIConstants DEF LocksAlone, Locking
<1> QED BY <1>2, <1>3, <1>4 DEF RowInv, RowsCovered

(* A request that begins or moves on without the lock.                     *)
LEMMA RowsMove ==
    ASSUME RowInv, NEW r \in OReqs, NEW w \in {"running", "track", "lapse"},
           opc[r] \in {"idle", "running"},
           opc' = [opc EXCEPT ![r] = w],
           UNCHANGED <<olru, sessionsLock, evicting, rows, failedOnce>>
    PROVE  RowInv'
<1>1. RowTypes'
  BY DEF RowInv, RowTypes, OPlaces
<1>2. LocksAlone'
  BY DEF RowInv, RowTypes, LocksAlone, Locking
<1>3. RowsCovered'
  BY DEF RowInv, RowTypes, RowsCovered, OAtWork
<1> QED BY <1>1, <1>2, <1>3 DEF RowInv

LEMMA RowsFail ==
    ASSUME RowInv, NEW r \in OReqs, O!Fails(r) PROVE RowInv'
<1>1. /\ opc[r] = "running" /\ opc' = [opc EXCEPT ![r] = "done"]
      /\ failedOnce' = failedOnce \cup {OSessionOf[r]}
      /\ UNCHANGED <<olru, sessionsLock, evicting, rows>>
  BY DEF O!Fails
<1>2. RowTypes'
  BY <1>1 DEF RowInv, RowTypes, OPlaces
<1>3. LocksAlone'
  BY <1>1 DEF RowInv, RowTypes, LocksAlone, Locking
<1>4. RowsCovered'
  BY <1>1 DEF RowInv, RowTypes, RowsCovered, OAtWork
<1> QED BY <1>2, <1>3, <1>4 DEF RowInv

LEMMA RowsForget ==
    ASSUME RowInv, NEW r \in OReqs, O!Forget(r) PROVE RowInv'
<1> DEFINE s == OSessionOf[r]
<1>1. PICK q : q = O!RemoveFirst(olru, s)
  OBVIOUS
<1>2. /\ q \in Seq(O!OSessions) /\ Once(q) /\ Elems(q) = Elems(olru) \ {s}
      /\ Len(q) = IF s \in Elems(olru) THEN Len(olru) - 1 ELSE Len(olru)
  BY <1>1, TakenOut DEF RowInv, RowTypes
<1>3. /\ opc[r] = "lapse" /\ sessionsLock = "free" /\ olru' = q
      /\ opc' = [opc EXCEPT ![r] = "drop"] /\ sessionsLock' = r /\ evicting' = s
      /\ UNCHANGED <<rows, failedOnce>>
  BY <1>1 DEF O!Forget
<1>4. Len(olru) \in Nat /\ Len(q) <= Len(olru) /\ Len(olru) <= OMaxSessions /\ OMaxSessions \in Nat
  BY <1>2, LenProperties, OpenAIConstants DEF RowInv, RowTypes
<1>5. RowTypes'
  <2>1. Len(q) \in Nat /\ Len(q) <= OMaxSessions
    BY <1>2, <1>4, LenProperties
  <2> QED BY <1>2, <1>3, <2>1 DEF RowInv, RowTypes, OPlaces
<1>6. \A d \in OReqs : opc[d] \notin Locking /\ (opc'[d] \in Locking <=> d = r)
  BY <1>3, OpenAIConstants DEF RowInv, RowTypes, LocksAlone, Locking
<1>7. LocksAlone'
  BY <1>3, <1>6 DEF LocksAlone, Locking, RowInv, RowTypes
<1>8. RowsCovered'
  <2> SUFFICES ASSUME NEW x \in rows PROVE RowsCovered!(x)'
    BY <1>3 DEF RowsCovered
  <2>1. CASE x = s
    BY <1>3, <2>1 DEF RowInv, RowTypes
  <2>2. CASE x # s
    <3>1. \A d \in OReqs : opc[d] \in OAtWork /\ OSessionOf[d] = x => opc'[d] \in OAtWork
      BY <1>3, <2>2 DEF RowInv, RowTypes
    <3>2. ~\E d \in OReqs : opc[d] \in {"drop", "evict"}
      BY <1>6 DEF Locking
    <3> QED BY <1>2, <1>3, <2>2, <3>1, <3>2 DEF RowInv, RowsCovered
  <2> QED BY <2>1, <2>2
<1> QED BY <1>5, <1>7, <1>8 DEF RowInv

LEMMA RowsDelete ==
    ASSUME RowInv, NEW r \in OReqs, O!DeleteRow(r) PROVE RowInv'
<1>1. PICK w \in {"dropped", "evicted"} :
        /\ opc' = [opc EXCEPT ![r] = w]
        /\ (w = "dropped") <=> (opc[r] = "drop")
  BY DEF O!DeleteRow, RowInv, RowTypes
<1>2. /\ opc[r] \in {"drop", "evict"}
      /\ rows' \subseteq rows /\ failedOnce \subseteq failedOnce'
      /\ evicting \in rows' => evicting \in failedOnce'
      /\ UNCHANGED <<olru, sessionsLock, evicting>>
  BY DEF O!DeleteRow
<1>3. \A d \in OReqs : d # r => opc[d] \notin Locking
  BY <1>2 DEF RowInv, LocksAlone, Locking
<1>4. RowTypes'
  BY <1>1, <1>2 DEF RowInv, RowTypes, OPlaces
<1>5. LocksAlone'
  BY <1>1, <1>2, <1>3 DEF RowInv, RowTypes, LocksAlone, Locking
<1>6. RowsCovered'
  <2> SUFFICES ASSUME NEW x \in rows' PROVE RowsCovered!(x)'
    BY DEF RowsCovered
  <2>1. CASE x = evicting
    BY <1>2, <2>1
  <2>2. CASE x # evicting
    <3>1. \A d \in OReqs : opc[d] \in OAtWork /\ OSessionOf[d] = x => opc'[d] \in OAtWork
      BY <1>1, <1>2 DEF RowInv, RowTypes, OAtWork
    <3> QED BY <1>2, <2>2, <3>1 DEF RowInv, RowsCovered
  <2> QED BY <2>1, <2>2
<1> QED BY <1>4, <1>5, <1>6 DEF RowInv

LEMMA RowsForgotten ==
    ASSUME RowInv, NEW r \in OReqs, O!Forgotten(r) PROVE RowInv'
<1>1. /\ opc[r] = "dropped" /\ sessionsLock' = "free" /\ opc' = [opc EXCEPT ![r] = "done"]
      /\ UNCHANGED <<olru, rows, failedOnce>>
  BY DEF O!Forgotten, O!Unlock
<1>2. \A d \in OReqs : (d # r => opc[d] \notin Locking) /\ opc'[d] \notin Locking /\ d # "free"
  BY <1>1, OpenAIConstants DEF RowInv, RowTypes, LocksAlone, Locking
<1>3. RowTypes'
  BY <1>1 DEF RowInv, RowTypes, OPlaces
<1>4. LocksAlone'
  BY <1>1, <1>2 DEF LocksAlone, Locking
<1>5. RowsCovered'
  <2>1. ~\E d \in OReqs : opc[d] \in {"drop", "evict"}
    BY <1>1, <1>2 DEF Locking
  <2>2. \A d \in OReqs : opc[d] \in OAtWork => opc'[d] \in OAtWork
    BY <1>1 DEF RowInv, RowTypes, OAtWork
  <2> QED BY <1>1, <2>1, <2>2 DEF RowInv, RowsCovered
<1> QED BY <1>3, <1>4, <1>5 DEF RowInv

LEMMA RowsTrack ==
    ASSUME RowInv, NEW r \in OReqs, O!Track(r) PROVE RowInv'
<1> DEFINE s == OSessionOf[r]
<1>0. /\ Len(olru) \in Nat /\ OMaxSessions \in Nat \ {0} /\ Len(olru) <= OMaxSessions
      /\ olru \in Seq(O!OSessions) /\ Once(olru) /\ s \in O!OSessions
  BY LenProperties, OpenAIConstants DEF RowInv, RowTypes
<1>1. opc[r] = "track" /\ sessionsLock = "free" /\ UNCHANGED <<rows, failedOnce>>
  BY DEF O!Track
<1>2. \A d \in OReqs : opc[d] \notin Locking /\ d # "free"
  BY <1>1, OpenAIConstants DEF RowInv, RowTypes, LocksAlone
<1>5. O!Contains(olru, s) <=> s \in Elems(olru)
  BY <1>0, InElems
<1>3. CASE O!Evicts(s)
  <2>1. /\ sessionsLock' = r /\ evicting' = Head(olru) /\ olru' = Tail(olru)
        /\ opc' = [opc EXCEPT ![r] = "evict"]
    BY <1>3 DEF O!Track
  <2>2. s \notin Elems(olru) /\ Len(olru) >= OMaxSessions
    BY <1>3, <1>5 DEF O!Evicts
  <2>3. PICK q : q = Tail(olru)
    OBVIOUS
  <2>4. /\ q \in Seq(O!OSessions) /\ Once(q) /\ Len(q) = Len(olru) - 1 /\ olru' = q
        /\ Elems(olru) = Elems(q) \cup {evicting'}
    BY <1>0, <2>1, <2>2, <2>3, DropFirst
  <2>5. RowTypes'
    <3>1. Len(q) <= OMaxSessions
      BY <1>0, <2>4
    <3>2. opc' \in [OReqs -> OPlaces]
      BY <2>1 DEF RowInv, RowTypes, OPlaces
    <3> QED BY <1>1, <2>4, <3>1, <3>2 DEF RowInv, RowTypes
  <2>6. LocksAlone'
    <3>1. Len(q) < OMaxSessions /\ s \notin Elems(q)
      BY <1>0, <2>2, <2>4
    <3>2. \A d \in OReqs : (opc'[d] \in Locking <=> d = r) /\ (d = r => opc'[d] = "evict")
      BY <1>2, <2>1 DEF RowInv, RowTypes, Locking
    <3>3. \A d \in OReqs : opc'[d] \in {"drop", "dropped", "evict", "evicted"} => d = r /\ opc'[d] = "evict"
      BY <3>2 DEF Locking
    <3> QED BY <2>1, <2>4, <3>1, <3>2, <3>3 DEF LocksAlone
  <2>7. RowsCovered'
    <3>1. \A d \in OReqs : opc[d] \in OAtWork => opc'[d] \in OAtWork
      BY <2>1 DEF RowInv, RowTypes, OAtWork
    <3>2. ~\E d \in OReqs : opc[d] \in {"drop", "evict"}
      BY <1>2 DEF Locking
    <3>3. \E d \in OReqs : opc'[d] \in {"drop", "evict"}
      BY <2>1 DEF RowInv, RowTypes
    <3> QED BY <1>1, <2>4, <3>1, <3>2, <3>3 DEF RowInv, RowsCovered
  <2> QED BY <2>5, <2>6, <2>7 DEF RowInv
<1>4. CASE ~O!Evicts(s)
  <2>1. PICK q : q = O!RemoveFirst(olru, s)
    OBVIOUS
  <2>2. /\ q \in Seq(O!OSessions) /\ Once(q) /\ Elems(q) = Elems(olru) \ {s}
        /\ Len(q) = IF s \in Elems(olru) THEN Len(olru) - 1 ELSE Len(olru)
    BY <1>0, <2>1, TakenOut
  <2>3. olru' = Append(q, s) /\ opc' = [opc EXCEPT ![r] = "done"] /\ UNCHANGED <<sessionsLock, evicting>>
    BY <1>4, <2>1 DEF O!Track
  <2>4. PICK p : p = Append(q, s)
    OBVIOUS
  <2>5. p \in Seq(O!OSessions) /\ Once(p) /\ Len(p) = Len(q) + 1 /\ Elems(p) = Elems(q) \cup {s}
    BY <1>0, <2>2, <2>4, PutLast
  <2>6. Elems(p) = Elems(olru) \cup {s} /\ olru' = p
    BY <2>2, <2>3, <2>4, <2>5
  <2>7. Len(p) <= OMaxSessions
    BY <1>0, <1>4, <1>5, <2>2, <2>5 DEF O!Evicts
  <2>8. RowTypes'
    BY <1>1, <2>3, <2>5, <2>6, <2>7 DEF RowInv, RowTypes, OPlaces
  <2>9. LocksAlone'
    <3>1. \A d \in OReqs : opc'[d] \notin Locking
      BY <1>2, <2>3 DEF RowInv, RowTypes, Locking
    <3> QED BY <1>1, <1>2, <2>3, <3>1 DEF LocksAlone, Locking
  <2>10. RowsCovered'
    <3>1. \A d \in OReqs : opc[d] \in OAtWork /\ d # r => opc'[d] \in OAtWork
      BY <2>3 DEF RowInv, RowTypes
    <3>2. ~\E d \in OReqs : opc[d] \in {"drop", "evict"}
      BY <1>2 DEF Locking
    <3> QED BY <1>1, <2>6, <3>1, <3>2 DEF RowInv, RowsCovered
  <2> QED BY <2>8, <2>9, <2>10 DEF RowInv
<1> QED BY <1>3, <1>4

LEMMA RowsEvicted ==
    ASSUME RowInv, NEW r \in OReqs, O!Evicted(r) PROVE RowInv'
<1> DEFINE s == OSessionOf[r]
<1>1. /\ opc[r] = "evicted" /\ sessionsLock' = "free" /\ opc' = [opc EXCEPT ![r] = "done"]
      /\ olru' = Append(olru, s) /\ UNCHANGED <<rows, failedOnce>>
  BY DEF O!Evicted, O!Unlock
<1>2. /\ Len(olru) \in Nat /\ OMaxSessions \in Nat /\ Len(olru) < OMaxSessions
      /\ olru \in Seq(O!OSessions) /\ Once(olru) /\ s \in O!OSessions /\ s \notin Elems(olru)
  BY <1>1, LenProperties, OpenAIConstants DEF RowInv, RowTypes, LocksAlone
<1>3. PICK p : p = Append(olru, s)
  OBVIOUS
<1>4. /\ p \in Seq(O!OSessions) /\ Once(p) /\ Len(p) = Len(olru) + 1
      /\ Elems(p) = Elems(olru) \cup {s} /\ olru' = p
  BY <1>1, <1>2, <1>3, PutLast
<1>5. \A d \in OReqs : (d # r => opc[d] \notin Locking) /\ opc'[d] \notin Locking /\ d # "free"
  BY <1>1, OpenAIConstants DEF RowInv, RowTypes, LocksAlone, Locking
<1>6. RowTypes'
  BY <1>1, <1>2, <1>4 DEF RowInv, RowTypes, OPlaces
<1>7. LocksAlone'
  BY <1>1, <1>5 DEF LocksAlone, Locking
<1>8. RowsCovered'
  <2>1. ~\E d \in OReqs : opc[d] \in {"drop", "evict"}
    BY <1>1, <1>5 DEF Locking
  <2>2. \A d \in OReqs : opc[d] \in OAtWork /\ d # r => opc'[d] \in OAtWork
    BY <1>1 DEF RowInv, RowTypes
  <2> QED BY <1>1, <1>4, <2>1, <2>2 DEF RowInv, RowsCovered
<1> QED BY <1>6, <1>7, <1>8 DEF RowInv

LEMMA RowInvStep == RowInv /\ [O!OANext]_oavars => RowInv'
<1> SUFFICES ASSUME RowInv, [O!OANext]_oavars PROVE RowInv'
  OBVIOUS
<1>1. CASE UNCHANGED <<opc, olru, sessionsLock, evicting, rows, failedOnce>>
  BY <1>1 DEF RowInv, RowTypes, LocksAlone, RowsCovered
<1>2. ASSUME NEW r \in OReqs,
             \/ O!Begin(r) \/ O!SaveItems(r) \/ O!UsePage(r) \/ O!Answered(r) \/ O!Fails(r)
             \/ O!TimesOut(r) \/ O!Forget(r) \/ O!DeleteRow(r) \/ O!Forgotten(r)
             \/ O!Track(r) \/ O!Evicted(r)
      PROVE  RowInv'
  <2>1. CASE O!Begin(r)
    BY <2>1, RowsMove DEF O!Begin
  <2>2. CASE O!Answered(r) \/ O!TimesOut(r)
    BY <2>2, RowsMove DEF O!Answered, O!TimesOut
  <2>3. CASE O!SaveItems(r)
    <3>1. /\ opc[r] = "running" /\ rows' = rows \cup {OSessionOf[r]}
          /\ UNCHANGED <<opc, olru, sessionsLock, evicting, failedOnce>>
      BY <2>3 DEF O!SaveItems
    <3>2. RowTypes' /\ LocksAlone'
      BY <3>1, OpenAIConstants DEF RowInv, RowTypes, LocksAlone
    <3>3. RowsCovered'
      BY <3>1 DEF RowInv, RowsCovered, OAtWork
    <3> QED BY <3>2, <3>3 DEF RowInv
  <2>4. CASE O!UsePage(r)
    BY <1>1, <2>4 DEF O!UsePage
  <2> QED BY <1>2, <2>1, <2>2, <2>3, <2>4, RowsFail, RowsForget, RowsDelete, RowsForgotten, RowsTrack, RowsEvicted
<1>3. ASSUME NEW s \in O!OSessions, O!Sweep(s) PROVE RowInv'
  BY <1>1, <1>3 DEF O!Sweep
<1>4. ASSUME NEW c \in O!Computers, O!CloseContext(c) PROVE RowInv'
  BY <1>1, <1>4 DEF O!CloseContext
<1> QED BY <1>1, <1>2, <1>3, <1>4 DEF O!OANext, oavars

-----------------------------------------------------------------------------
LEMMA BegunCounted ==
    /\ IsFiniteSet(Begun) /\ Cardinality(Begun) \in Nat
    /\ Cardinality(Begun) <= Cardinality(OReqs)
    /\ Cardinality(OReqs) \in Nat
<1>1. Begun \subseteq OReqs
  BY DEF Begun
<1> QED BY <1>1, OpenAIConstants, FS_Subset, FS_CardinalityType

(* The computer the pool has for a session.                                *)
LEMMA CurrentIsComputer ==
    ASSUME made \in [O!OSessions -> Nat],
           \A s \in O!OSessions : made[s] <= Cardinality(Begun),
           NEW s \in O!OSessions
    PROVE  <<s, made[s]>> \in O!Computers
<1>1. made[s] \in 0..Cardinality(OReqs)
  BY BegunCounted
<1>2. O!Cardinality(OReqs) = Cardinality(OReqs)
  BY Zenon DEF O!Cardinality, Cardinality
<1> QED BY <1>1, <1>2 DEF O!Computers

LEMMA PoolInvInit == O!OAInit => PoolInv
<1> SUFFICES ASSUME O!OAInit PROVE PoolInv
  OBVIOUS
<1>1. <<>> \in Seq(O!OSessions) /\ Len(<<>>) = 0
  BY EmptySeq
<1>2. /\ opc = [r \in OReqs |-> "idle"] /\ pool = <<>> /\ made = [s \in O!OSessions |-> 0]
      /\ held = [r \in OReqs |-> <<>>] /\ contexts = {} /\ closing = {}
  BY DEF O!OAInit, O!NoComputer
<1>3. PoolTypes
  BY <1>1, <1>2, OpenAIConstants, BegunCounted DEF PoolTypes, OPlaces, Once
<1> QED BY <1>2, <1>3 DEF PoolInv, ContextsKept

(* Steps that leave the pool, its numbers and its contexts alone.          *)
LEMMA PoolAlone ==
    ASSUME PoolInv, NEW r \in OReqs, NEW w \in OPlaces \ {"idle"}, opc[r] # "idle",
           opc' = [opc EXCEPT ![r] = w],
           held' = held \/ held' = [held EXCEPT ![r] = <<>>],
           UNCHANGED <<pool, made, contexts, closing, reused>>
    PROVE  PoolInv'
<1>1. Begun' = Begun
  BY DEF Begun, PoolInv, PoolTypes
<1>2. PoolTypes'
  BY <1>1 DEF PoolInv, PoolTypes
<1> QED BY <1>2 DEF PoolInv, ContextsKept

(* release: the session's computer leaves the pool and is being closed.    *)
LEMMA PoolRelease ==
    ASSUME PoolInv, NEW s, O!Release(s),
           opc' \in [OReqs -> OPlaces], Begun' = Begun,
           UNCHANGED <<made, held, contexts, reused>>
    PROVE  PoolInv'
<1>1. PICK q : q = O!RemoveFirst(pool, s)
  OBVIOUS
<1>2. pool \in Seq(O!OSessions) /\ Once(pool) /\ Len(pool) \in Nat /\ Len(pool) <= MaxContexts /\ MaxContexts \in Nat
  BY LenProperties, OpenAIConstants DEF PoolInv, PoolTypes
<1>3. /\ q \in Seq(O!OSessions) /\ Once(q) /\ Elems(q) = Elems(pool) \ {s}
      /\ Len(q) = IF s \in Elems(pool) THEN Len(pool) - 1 ELSE Len(pool)
  BY <1>1, <1>2, TakenOut
<1>4. (O!Contains(pool, s) <=> s \in Elems(pool)) /\ Elems(pool) \subseteq O!OSessions
  BY <1>2, InElems
<1>5. /\ pool' = q
      /\ closing' = IF s \in Elems(pool) THEN closing \cup {<<s, made[s]>>} ELSE closing
  BY <1>1, <1>4 DEF O!Release, O!Current
<1>6. closing' \subseteq O!Computers
  BY <1>4, <1>5, CurrentIsComputer DEF PoolInv, PoolTypes
<1>7. Len(q) <= MaxContexts
  BY <1>2, <1>3
<1>8. PoolTypes'
  BY <1>3, <1>5, <1>6, <1>7 DEF PoolInv, PoolTypes
<1>9. ContextsKept'
  BY <1>3, <1>5 DEF PoolInv, ContextsKept
<1> QED BY <1>8, <1>9 DEF PoolInv

(* acquire: at the limit the computer touched first makes room.            *)
LEMMA PoolBegin ==
    ASSUME PoolInv, NEW r \in OReqs, O!Begin(r), r \in Browsing PROVE PoolInv'
<1> DEFINE s == OSessionOf[r]
<1>0. /\ pool \in Seq(O!OSessions) /\ Once(pool) /\ Len(pool) \in Nat /\ Len(pool) <= MaxContexts
      /\ MaxContexts \in Nat \ {0} /\ s \in O!OSessions
  BY LenProperties, OpenAIConstants DEF PoolInv, PoolTypes
<1>1. /\ opc[r] = "idle" /\ opc' = [opc EXCEPT ![r] = "running"]
      /\ O!Acquire(s) /\ held' = [held EXCEPT ![r] = <<s, made'[s]>>]
      /\ UNCHANGED <<contexts, reused>>
  BY DEF O!Begin
<1>2. (O!Contains(pool, s) <=> s \in Elems(pool)) /\ Elems(pool) \subseteq O!OSessions
  BY <1>0, InElems
<1>3. Begun' = Begun \cup {r} /\ r \notin Begun
  BY <1>1 DEF Begun, PoolInv, PoolTypes
<1>4. Cardinality(Begun') = Cardinality(Begun) + 1
  BY <1>3, BegunCounted, FS_AddElement
<1>5. Cardinality(Begun)' \in Nat /\ Cardinality(Begun)' <= Cardinality(OReqs)
  <2>1. Begun' \subseteq OReqs
    BY <1>3 DEF Begun
  <2> QED BY <2>1, OpenAIConstants, FS_Subset, FS_CardinalityType
<1> DEFINE Known == /\ pool' \in Seq(O!OSessions) /\ Once(pool') /\ Len(pool') <= MaxContexts
                    /\ made' \in [O!OSessions -> Nat]
                    /\ \A x \in O!OSessions : made'[x] <= Cardinality(Begun) + 1
                    /\ closing' \subseteq O!Computers
<1>6. ASSUME Known PROVE PoolTypes'
  <2>1. <<s, made'[s]>> \in O!Computers
    <3>1. made'[s] \in 0..Cardinality(OReqs)
      <4>1. made'[s] \in Nat /\ made'[s] <= Cardinality(Begun) + 1
        BY <1>0, <1>6
      <4>2. Cardinality(Begun) + 1 <= Cardinality(OReqs)
        BY <1>4, <1>5
      <4> QED BY <4>1, <4>2, BegunCounted
    <3>2. O!Cardinality(OReqs) = Cardinality(OReqs)
      BY Zenon DEF O!Cardinality, Cardinality
    <3> QED BY <1>0, <3>1, <3>2 DEF O!Computers
  <2>2. DOMAIN held' = OReqs /\ \A d \in OReqs : held'[d] # <<>> => held'[d] \in O!Computers
    BY <1>1, <2>1 DEF PoolInv, PoolTypes
  <2>3. opc' \in [OReqs -> OPlaces] /\ contexts' \subseteq O!Computers
    BY <1>1 DEF PoolInv, PoolTypes, OPlaces
  <2> QED BY <1>4, <1>6, <2>2, <2>3 DEF PoolTypes
<1>7. CASE s \in Elems(pool)
  <2>1. PICK q : q = O!RemoveFirst(pool, s)
    OBVIOUS
  <2>2. q \in Seq(O!OSessions) /\ Once(q) /\ Elems(q) = Elems(pool) \ {s} /\ Len(q) = Len(pool) - 1
    BY <1>0, <1>7, <2>1, TakenOut
  <2>3. PICK p : p = Append(q, s)
    OBVIOUS
  <2>4. p \in Seq(O!OSessions) /\ Once(p) /\ Len(p) = Len(q) + 1 /\ Elems(p) = Elems(q) \cup {s}
    BY <1>0, <2>2, <2>3, PutLast
  <2>5. pool' = p /\ UNCHANGED <<made, closing>>
    BY <1>1, <1>2, <1>7, <2>1, <2>3 DEF O!Acquire
  <2>6. Elems(p) = Elems(pool) /\ Len(p) = Len(pool)
    BY <1>0, <1>7, <2>2, <2>4
  <2>7. Known
    BY <1>0, <2>4, <2>5, <2>6, BegunCounted DEF PoolInv, PoolTypes
  <2>8. ContextsKept'
    BY <1>1, <2>5, <2>6 DEF PoolInv, ContextsKept
  <2> QED BY <1>6, <2>7, <2>8 DEF PoolInv
<1>8. CASE s \notin Elems(pool)
  <2> DEFINE over == IF Len(pool) >= MaxContexts THEN Len(pool) - MaxContexts + 1 ELSE 0
  <2>1. /\ pool' = Append(SubSeq(pool, over + 1, Len(pool)), s)
        /\ made' = [made EXCEPT ![s] = @ + 1]
        /\ closing' = closing \cup {O!Current(pool[k]) : k \in 1..over}
    BY <1>1, <1>2, <1>8 DEF O!Acquire
  <2>2. made' \in [O!OSessions -> Nat] /\ \A x \in O!OSessions : made'[x] <= Cardinality(Begun) + 1
    <3>1. PICK n \in Nat : n = Cardinality(Begun)
      BY BegunCounted
    <3>2. made \in [O!OSessions -> Nat] /\ \A x \in O!OSessions : made[x] <= n
      BY <3>1 DEF PoolInv, PoolTypes
    <3>3. made' \in [O!OSessions -> Nat] /\ \A x \in O!OSessions : made'[x] <= n + 1
      BY <1>0, <2>1, <3>2
    <3> QED BY <3>1, <3>3
  <2>3. \E q \in Seq(O!OSessions) :
          /\ q = SubSeq(pool, over + 1, Len(pool)) /\ Once(q) /\ Len(q) < MaxContexts
          /\ Elems(q) \subseteq Elems(pool)
          /\ \A x \in Elems(pool) : x \in Elems(q) \/ <<x, made[x]>> \in closing'
          /\ closing \subseteq closing' /\ closing' \subseteq O!Computers
    <3>1. CASE Len(pool) < MaxContexts
      <4>1. over = 0
        BY <1>0, <3>1
      <4>2. SubSeq(pool, 1, Len(pool)) = pool
        BY <1>0, SubSeqFull
      <4>3. closing' = closing
        BY <2>1, <4>1
      <4>4. SubSeq(pool, over + 1, Len(pool)) = pool
        BY <4>1, <4>2
      <4> HIDE DEF over
      <4> QED BY <1>0, <3>1, <4>3, <4>4 DEF PoolInv, PoolTypes
    <3>2. CASE Len(pool) = MaxContexts
      <4>1. over = 1
        BY <1>0, <3>2
      <4>2. pool # <<>> /\ SubSeq(pool, 2, Len(pool)) = Tail(pool) /\ Head(pool) = pool[1]
        BY <1>0, <3>2, EmptySeq, TailIsSubSeq, HeadTailProperties
      <4>3. /\ Tail(pool) \in Seq(O!OSessions) /\ Once(Tail(pool)) /\ Len(Tail(pool)) = Len(pool) - 1
            /\ Head(pool) \in O!OSessions /\ Elems(pool) = Elems(Tail(pool)) \cup {Head(pool)}
        BY <1>0, <3>2, DropFirst
      <4>4. closing' = closing \cup {<<pool[1], made[pool[1]]>>}
        BY <2>1, <4>1 DEF O!Current
      <4>5. <<pool[1], made[pool[1]]>> \in O!Computers
        BY <4>2, <4>3, CurrentIsComputer DEF PoolInv, PoolTypes
      <4>6. SubSeq(pool, over + 1, Len(pool)) = Tail(pool)
        BY <4>1, <4>2
      <4>7. PICK q : q = Tail(pool)
        OBVIOUS
      <4>8. /\ q \in Seq(O!OSessions) /\ Once(q) /\ Len(q) = Len(pool) - 1
            /\ Elems(pool) = Elems(q) \cup {pool[1]} /\ q = SubSeq(pool, over + 1, Len(pool))
        BY <4>2, <4>3, <4>6, <4>7
      <4> HIDE DEF over
      <4>9. Len(q) < MaxContexts
        BY <1>0, <3>2, <4>8
      <4>10. closing' \subseteq O!Computers /\ closing \subseteq closing'
        BY <4>4, <4>5 DEF PoolInv, PoolTypes
      <4>11. \A x \in Elems(pool) : x \in Elems(q) \/ <<x, made[x]>> \in closing'
        BY <4>4, <4>8
      <4> QED BY <4>8, <4>9, <4>10, <4>11
    <3>3. Len(pool) < MaxContexts \/ Len(pool) = MaxContexts
      BY <1>0
    <3> HIDE DEF over
    <3> QED BY <3>1, <3>2, <3>3
  <2> HIDE DEF over
  <2>4. PICK q \in Seq(O!OSessions) :
          /\ q = SubSeq(pool, over + 1, Len(pool)) /\ Once(q) /\ Len(q) < MaxContexts
          /\ Elems(q) \subseteq Elems(pool)
          /\ \A x \in Elems(pool) : x \in Elems(q) \/ <<x, made[x]>> \in closing'
          /\ closing \subseteq closing' /\ closing' \subseteq O!Computers
    BY <2>3
  <2>5. PICK p : p = Append(q, s)
    OBVIOUS
  <2>6. /\ p \in Seq(O!OSessions) /\ Once(p) /\ Len(p) = Len(q) + 1
        /\ Elems(p) = Elems(q) \cup {s}
    <3>1. Once(q) /\ s \notin Elems(q)
      BY <1>8, <2>4
    <3> QED BY <1>0, <2>5, <3>1, PutLast
  <2>7. pool' = p
    BY <2>1, <2>4, <2>5
  <2>8. Len(p) <= MaxContexts
    BY <1>0, <2>4, <2>6, LenProperties
  <2>9. Known
    BY <2>2, <2>4, <2>6, <2>7, <2>8
  <2>10. ContextsKept'
    <3>1. \A x \in Elems(pool) : made'[x] = made[x]
      BY <1>2, <1>8, <2>1 DEF PoolInv, PoolTypes
    <3> QED BY <1>1, <2>4, <2>6, <2>7, <3>1 DEF PoolInv, ContextsKept
  <2> QED BY <1>6, <2>9, <2>10 DEF PoolInv
<1> QED BY <1>7, <1>8

LEMMA PoolInvStep == PoolInv /\ [O!OANext]_oavars => PoolInv'
<1> SUFFICES ASSUME PoolInv, [O!OANext]_oavars PROVE PoolInv'
  OBVIOUS
<1>1. CASE UNCHANGED <<opc, pool, made, held, contexts, closing, reused>>
  <2>1. Begun' = Begun
    BY <1>1 DEF Begun
  <2> QED BY <1>1, <2>1 DEF PoolInv, PoolTypes, ContextsKept
<1>2. ASSUME NEW r \in OReqs,
             \/ O!Begin(r) \/ O!SaveItems(r) \/ O!UsePage(r) \/ O!Answered(r) \/ O!Fails(r)
             \/ O!TimesOut(r) \/ O!Forget(r) \/ O!DeleteRow(r) \/ O!Forgotten(r)
             \/ O!Track(r) \/ O!Evicted(r)
      PROVE  PoolInv'
  <2>1. CASE O!Begin(r) /\ r \in Browsing
    BY <2>1, PoolBegin
  <2>2. CASE O!Begin(r) /\ r \notin Browsing
    <3>1. /\ opc[r] = "idle" /\ opc' = [opc EXCEPT ![r] = "running"]
          /\ UNCHANGED <<pool, made, held, contexts, closing, reused>>
      BY <2>2 DEF O!Begin
    <3>2. Begun' = Begun \cup {r} /\ r \notin Begun
      BY <3>1 DEF Begun, PoolInv, PoolTypes
    <3>3. Cardinality(Begun') = Cardinality(Begun) + 1
      BY <3>2, BegunCounted, FS_AddElement
    <3>4. \A s \in O!OSessions : made'[s] <= Cardinality(Begun')
      <4>1. \A s \in O!OSessions : made[s] \in Nat /\ made[s] <= Cardinality(Begun)
        BY DEF PoolInv, PoolTypes
      <4> QED BY <3>1, <3>3, <4>1, BegunCounted
    <3>5. PoolTypes'
      BY <3>1, <3>4 DEF PoolInv, PoolTypes, OPlaces
    <3> QED BY <3>1, <3>5 DEF PoolInv, ContextsKept
  <2>3. CASE O!SaveItems(r)
    BY <1>1, <2>3 DEF O!SaveItems
  <2>4. CASE O!UsePage(r)
    <3>1. /\ held[r] \in O!Computers /\ contexts' = contexts \cup {held[r]}
          /\ UNCHANGED <<opc, pool, made, held, closing>>
      BY <2>4 DEF O!UsePage, O!NoComputer, PoolInv, PoolTypes
    <3>2. ~reused' => ~reused /\ O!Contains(pool, held[r][1]) /\ <<held[r][1], made[held[r][1]]>> = held[r]
      BY <2>4 DEF O!UsePage, O!Current
    <3>3. O!Contains(pool, held[r][1]) => held[r][1] \in Elems(pool)
      BY InElems DEF PoolInv, PoolTypes
    <3>4. Begun' = Begun
      BY <3>1 DEF Begun
    <3>5. PoolTypes'
      BY <3>1, <3>4 DEF PoolInv, PoolTypes
    <3>6. ContextsKept'
      BY <3>1, <3>2, <3>3 DEF PoolInv, ContextsKept
    <3> QED BY <3>5, <3>6 DEF PoolInv
  <2>5. CASE O!Answered(r) \/ O!Fails(r) \/ O!TimesOut(r)
    <3>1. PICK w \in OPlaces \ {"idle"} : opc' = [opc EXCEPT ![r] = w]
      BY <2>5 DEF O!Answered, O!Fails, O!TimesOut, OPlaces
    <3> QED BY <2>5, <3>1, PoolAlone DEF O!Answered, O!Fails, O!TimesOut, O!NoComputer
  <2>6. CASE O!Forget(r) \/ O!Forgotten(r) \/ O!Track(r) \/ O!Evicted(r)
    <3>1. PICK w \in OPlaces \ {"idle"} : opc' = [opc EXCEPT ![r] = w]
      BY <2>6 DEF O!Forget, O!Forgotten, O!Track, O!Evicted, OPlaces
    <3> QED BY <2>6, <3>1, PoolAlone DEF O!Forget, O!Forgotten, O!Track, O!Evicted
  <2>7. CASE O!DeleteRow(r)
    <3>1. PICK w \in {"dropped", "evicted"} : opc' = [opc EXCEPT ![r] = w]
      BY <2>7 DEF O!DeleteRow, PoolInv, PoolTypes
    <3>2. opc' \in [OReqs -> OPlaces] /\ Begun' = Begun
      BY <2>7, <3>1 DEF O!DeleteRow, PoolInv, PoolTypes, Begun, OPlaces
    <3>3. O!Release(evicting) /\ UNCHANGED <<made, held, contexts, reused>>
      BY <2>7 DEF O!DeleteRow
    <3> QED BY <3>2, <3>3, PoolRelease
  <2> QED BY <1>2, <2>1, <2>2, <2>3, <2>4, <2>5, <2>6, <2>7
<1>3. ASSUME NEW s \in O!OSessions, O!Sweep(s) PROVE PoolInv'
  <2>1. O!Release(s) /\ UNCHANGED <<opc, made, held, contexts, reused>>
    BY <1>3 DEF O!Sweep
  <2>2. opc' \in [OReqs -> OPlaces] /\ Begun' = Begun
    BY <2>1 DEF PoolInv, PoolTypes, Begun
  <2> QED BY <2>1, <2>2, PoolRelease
<1>4. ASSUME NEW c \in O!Computers, O!CloseContext(c) PROVE PoolInv'
  <2>1. /\ closing' = closing \ {c} /\ contexts' = contexts \ {c}
        /\ UNCHANGED <<opc, pool, made, held, reused>>
    BY <1>4 DEF O!CloseContext
  <2>2. Begun' = Begun
    BY <2>1 DEF Begun
  <2>3. PoolTypes'
    BY <2>1, <2>2 DEF PoolInv, PoolTypes
  <2> QED BY <2>1, <2>3 DEF PoolInv, ContextsKept
<1> QED BY <1>1, <1>2, <1>3, <1>4 DEF O!OANext, oavars

-----------------------------------------------------------------------------
(* The key of gemini's client: a client that has served is replaced only   *)
(* by one that could be built, until the shutdown closes it.               *)
KeyInv == R!RotTypeOK /\ (~shut /\ served # 0 => client # 0)

LEMMA KeyInvInit == R!RotInit => KeyInv
BY BackendsAssumption DEF R!RotInit, KeyInv, R!RotTypeOK, R!RotAssumption

LEMMA KeyInvStep == KeyInv /\ [R!RotNext]_rotvars => KeyInv'
<1> SUFFICES ASSUME KeyInv, [R!RotNext]_rotvars PROVE KeyInv'
  OBVIOUS
<1>0. MaxKey \in Nat \ {0}
  BY BackendsAssumption DEF R!RotAssumption
<1>1. CASE R!WriteKey
  BY <1>0, <1>1 DEF R!WriteKey, KeyInv, R!RotTypeOK
<1>2. ASSUME NEW b \in BOOLEAN, R!Watch(b) PROVE KeyInv'
  <2>1. envKey' = keyFile \/ envKey' = envKey
    BY <1>2 DEF R!Watch
  <2>2. UNCHANGED <<keyFile, client, stale, served, shut>>
    BY <1>2 DEF R!Watch
  <2> QED BY <2>1, <2>2 DEF KeyInv, R!RotTypeOK
<1>3. CASE R!Request
  <2>1. UNCHANGED <<keyFile, envKey, shut>>
    BY <1>3 DEF R!Request, R!GetClient
  <2>2. \/ served' = client /\ client # 0 /\ client' = client /\ stale' = stale
        \/ served' = envKey /\ client' = envKey /\ envKey # 0 /\ stale' = stale \cup (IF client = 0 THEN {} ELSE {client})
        \/ client' = 0 /\ served' = 0 /\ stale' = stale
    <3>1. CASE client # 0 /\ ~rotation
      BY <1>3, <3>1 DEF R!Request, R!GetClient
    <3>2. CASE ~(client # 0 /\ ~rotation) /\ R!Buildable
      <4>1. /\ stale' = IF client = 0 THEN stale ELSE stale \cup {client}
            /\ client' = envKey /\ served' = envKey
        BY <1>3, <3>2, Zenon DEF R!Request, R!GetClient
      <4> QED BY <3>2, <4>1 DEF R!Buildable
    <3>3. CASE ~(client # 0 /\ ~rotation) /\ ~R!Buildable
      <4>1. R!FallBack /\ UNCHANGED stale
        BY <1>3, <3>3, Zenon DEF R!Request, R!GetClient
      <4> QED BY <4>1 DEF R!FallBack
    <3> QED BY <3>1, <3>2, <3>3
  <2>3. R!RotTypeOK'
    <3>0. /\ keyFile \in 0..MaxKey /\ envKey \in 0..MaxKey /\ client \in 0..MaxKey
          /\ stale \subseteq 1..MaxKey /\ 0 \in 0..MaxKey
      BY <1>0 DEF KeyInv, R!RotTypeOK
    <3>1. stale' \subseteq stale \cup {client} /\ (client = 0 => stale' \subseteq stale)
      BY <2>2
    <3>2. stale' \subseteq 1..MaxKey
      BY <1>0, <3>0, <3>1
    <3>3. client' \in {client, envKey, 0} /\ served' \in {client, envKey, 0}
      BY <2>2
    <3> QED BY <2>1, <3>0, <3>2, <3>3 DEF R!RotTypeOK
  <2>4. served' # 0 => client' # 0
    BY <2>2
  <2> QED BY <2>3, <2>4, Zenon DEF KeyInv
<1>4. CASE R!CloseClient
  BY <1>0, <1>4 DEF R!CloseClient, KeyInv, R!RotTypeOK
<1>5. CASE UNCHANGED rotvars
  BY <1>5 DEF rotvars, KeyInv, R!RotTypeOK
<1> QED BY <1>1, <1>2, <1>3, <1>4, <1>5 DEF R!RotNext

(* A rotation that fails, to a key no client can be built with or to an    *)
(* unreadable file, never leaves the backend without a client: requests go *)
(* on under the previous key (_get_client), for any keys and any number of *)
(* rotations.                                                              *)
THEOREM KeepsServingHolds == R!RotInit /\ [][R!RotNext]_rotvars => R!KeepsServing
<1>1. KeyInv /\ [R!RotNext]_rotvars => [~shut /\ served # 0 => served' # 0]_rotvars
  <2> SUFFICES ASSUME KeyInv, R!RotNext, ~shut, served # 0 PROVE served' # 0
    OBVIOUS
  <2>1. CASE R!Request
    BY <2>1 DEF R!Request, R!GetClient, R!Buildable, R!FallBack, KeyInv
  <2> QED BY <2>1 DEF R!RotNext, R!WriteKey, R!Watch, R!CloseClient
<1> QED BY <1>1, KeyInvInit, KeyInvStep, PTL DEF R!KeepsServing, R!rotvars, rotvars

-----------------------------------------------------------------------------
(* The backends together.                                                  *)
BackendsInv == BreakerInv /\ KeyInv /\ TurnInv /\ FileInv /\ RowInv /\ PoolInv

LEMMA BackendsInvHolds == BackendsSpec => []BackendsInv
<1>1. BackendsInit => BackendsInv
  BY BreakerInvInit, KeyInvInit, TurnInvInit, FileInvInit, RowInvInit, PoolInvInit
  DEF BackendsInit, BackendsInv
<1>2. BackendsInv /\ [BackendsNext]_<<focus, vars, rotvars, oavars, claudevars>> => BackendsInv'
  <2>1. [BackendsNext]_<<focus, vars, rotvars, oavars, claudevars>> =>
          /\ [Next]_vars /\ [R!RotNext]_rotvars /\ [O!OANext]_oavars /\ [C!ClaudeNext]_claudevars
    BY Zenon DEF BackendsNext
  <2> QED BY <2>1, BreakerInvStep, KeyInvStep, TurnInvStep, FileInvStep, RowInvStep, PoolInvStep
          DEF BackendsInv
<1> QED BY <1>1, <1>2, PTL DEF BackendsSpec

(* Every component of the backends stays well typed: the breaker, the API  *)
(* key, the LRUs and pools without a session twice, for any callers, keys, *)
(* requests, turns and limits.                                             *)
THEOREM BackendTypesHold == BackendsSpec => []BackendTypes
<1>1. BackendsInv => BackendTypes
  <2> SUFFICES ASSUME BackendsInv PROVE BackendTypes
    OBVIOUS
  <2>1. TypeOK /\ R!RotTypeOK
    BY DEF BackendsInv, BreakerInv, KeyInv
  <2>2. O!OATypeOK
    <3>1. O!IsInjective(olru) /\ O!IsInjective(pool)
      BY InElems DEF BackendsInv, RowInv, RowTypes, PoolInv, PoolTypes
    <3> QED BY <3>1 DEF BackendsInv, RowInv, RowTypes, PoolInv, PoolTypes, OPlaces, O!OATypeOK
  <2>3. C!ClaudeTypeOK
    <3>1. C!IsInjective(clru)
      BY InElems DEF BackendsInv, FileInv, FileTypes
    <3>2. cpc \in [CTurns -> {"idle", "probed", "query", "track", "evict", "lapse", "unlink"} \cup C!Ended]
      BY DEF BackendsInv, FileInv, FileTypes, TurnPlaces, C!Ended
    <3> QED BY <3>1, <3>2 DEF BackendsInv, FileInv, FileTypes, TurnInv, TurnTypes, C!ClaudeTypeOK
  <2> QED BY <2>1, <2>2, <2>3 DEF BackendTypes
<1> QED BY <1>1, BackendsInvHolds, PTL

(* Nothing that is held for a session leaks: the LRUs of openai and claude *)
(* and the browser pool keep to their caps although an eviction awaits its *)
(* clean-up in the middle, and every row, context and session file belongs *)
(* to a session that is known, at work or recorded as failed (#368, #415), *)
(* for any number of requests, turns and sessions and every limit.         *)
THEOREM ResourcesTrackedHolds == BackendsSpec => []ResourcesTracked
<1>1. BackendsInv => ResourcesTracked
  <2> SUFFICES ASSUME BackendsInv PROVE ResourcesTracked
    OBVIOUS
  <2>1. O!LimitsHold
    BY DEF BackendsInv, RowInv, RowTypes, PoolInv, PoolTypes, O!LimitsHold
  <2>2. O!RowsReclaimed
    <3>1. O!ToSet(olru) = Elems(olru)
      BY InElems DEF BackendsInv, RowInv, RowTypes
    <3> SUFFICES ASSUME NEW s \in rows
                 PROVE  s \in Elems(olru) \cup {evicting} \cup failedOnce
                                \cup {OSessionOf[r] : r \in {q \in OReqs : opc[q] \notin {"idle", "done"}}}
      BY <3>1 DEF O!RowsReclaimed
    <3> QED BY DEF BackendsInv, RowInv, RowsCovered, OAtWork
  <2>3. O!ContextsReclaimed
    <3>1. \A x : O!Contains(pool, x) <=> x \in Elems(pool)
      BY InElems DEF BackendsInv, PoolInv, PoolTypes
    <3> QED BY <3>1 DEF BackendsInv, PoolInv, ContextsKept, O!ContextsReclaimed, O!Current
  <2>4. C!FilesReclaimed
    <3>1. C!ToSet(clru) = Elems(clru)
      BY InElems DEF BackendsInv, FileInv, FileTypes
    <3>2. ASSUME NEW s \in onDisk
          PROVE  s \in Elems(clru) \cup {cEvicting} \cup leftOver
                         \cup {csession[c] : c \in {d \in CTurns : cpc[d] \notin {"idle"} \cup C!Ended}}
      BY <3>2 DEF BackendsInv, FileInv, FilesCovered, AtWork, C!Ended
    <3>3. \A c \in CTurns : cpc[c] \in C!Ended => c \notin slowWatch
      BY DEF BackendsInv, FileInv, NotWatched, Over, C!Ended
    <3>4. Len(clru) <= CMaxSessions
      BY DEF BackendsInv, FileInv
    <3> QED BY <3>1, <3>2, <3>3, <3>4 DEF C!FilesReclaimed
  <2> QED BY <2>1, <2>2, <2>3, <2>4 DEF ResourcesTracked
<1> QED BY <1>1, BackendsInvHolds, PTL
=============================================================================
