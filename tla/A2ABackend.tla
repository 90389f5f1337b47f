----------------------------- MODULE A2ABackend -----------------------------
(***************************************************************************)
(* harness/backends/a2a.py, class A2ABackend: run_query with its circuit   *)
(* breaker (#609) and the retry loop of _post_with_retry (#1457), for      *)
(* concurrent callers of one backend.                                      *)
(*                                                                         *)
(* The circuit lock is held for stretches without an await, so acquire and *)
(* record are atomic.  An attempt is one HTTP exchange; the model keeps    *)
(* what the code can tell of it (outcome, and whether it was slower than   *)
(* A2A_RETRY_FAST_ONLY_MS) and, in ran, what it cannot see: how often the  *)
(* backend executed the turn.  The code's working assumption is kept: a    *)
(* fast retryable failure, and any failure before the request was sent,    *)
(* happened before the turn ran.                                           *)
(***************************************************************************)
EXTENDS Naturals

CONSTANTS
    Callers,      \* concurrent run_query calls
    Threshold,    \* A2A_BACKEND_CIRCUIT_THRESHOLD
    MaxRetries,   \* _MAX_RETRIES
    Policy        \* A2A_RETRY_POLICY

ASSUME A2AAssumption ==
    /\ Threshold \in Nat \ {0}
    /\ MaxRetries \in Nat \ {0}
    /\ Policy \in {"fast-only", "always", "never"}

VARIABLES
    circuit,    \* _circuit_state
    failures,   \* _circuit_consecutive_failures
    cooled,     \* the cool-off since _circuit_opened_at has elapsed
    pc,         \* "idle", in an HTTP "attempt", or in "backoff"
    attempt,    \* attempts begun by the current call
    ran,        \* how often the backend executed the current call's turn
    up          \* external: whether the backend answers properly

vars == <<circuit, failures, cooled, pc, attempt, ran, up>>
breaker == <<circuit, failures, cooled>>

TypeOK ==
    /\ circuit \in {"closed", "open", "half_open"}
    /\ failures \in 0..Threshold
    /\ cooled \in BOOLEAN
    /\ pc \in [Callers -> {"idle", "attempt", "backoff"}]
    /\ attempt \in [Callers -> 0..MaxRetries]
    /\ ran \in [Callers -> Nat]
    /\ up \in BOOLEAN

Init ==
    /\ circuit = "closed"
    /\ failures = 0
    /\ cooled = FALSE
    /\ pc = [c \in Callers |-> "idle"]
    /\ attempt = [c \in Callers |-> 0]
    /\ ran = [c \in Callers |-> 0]
    /\ up = TRUE

-----------------------------------------------------------------------------
(* The circuit breaker *)

\* Mutant of Acquire: half open admits nobody beside the probe.
AcquireOneProbe(c) ==
    /\ pc[c] = "idle"
    /\ circuit # "half_open"
    /\ circuit = "open" => cooled
    /\ circuit' = IF circuit = "open" THEN "half_open" ELSE circuit
    /\ pc' = [pc EXCEPT ![c] = "attempt"]
    /\ attempt' = [attempt EXCEPT ![c] = 1]
    /\ ran' = [ran EXCEPT ![c] = 0]
    /\ UNCHANGED <<failures, cooled, up>>

\* Before any HTTP: raise while open and cooling off, otherwise go on, moving
\* an open circuit to half open.
Acquire(c) ==
    /\ pc[c] = "idle"
    /\ circuit = "open" => cooled
    /\ circuit' = IF circuit = "open" THEN "half_open" ELSE circuit
    /\ pc' = [pc EXCEPT ![c] = "attempt"]
    /\ attempt' = [attempt EXCEPT ![c] = 1]
    /\ ran' = [ran EXCEPT ![c] = 0]
    /\ UNCHANGED <<failures, cooled, up>>

\* Time passes while the circuit is open.
CoolOff ==
    /\ circuit = "open"
    /\ ~cooled
    /\ cooled' = TRUE
    /\ UNCHANGED <<circuit, failures, pc, attempt, ran, up>>

\* A success: back to closed, whatever the state was.
RecordOk ==
    /\ failures' = 0
    /\ circuit' = "closed"
    /\ UNCHANGED cooled

\* The breaker compares its counter with Threshold only, so the model does
\* not count past it.
Counted == IF failures < Threshold THEN failures + 1 ELSE failures

\* Mutant of RecordFailure: > for >=.
RecordFailureLate ==
    /\ failures' = Counted
    /\ IF circuit = "half_open" \/ (circuit = "closed" /\ failures + 1 > Threshold)
         THEN circuit' = "open" /\ cooled' = FALSE
         ELSE UNCHANGED <<circuit, cooled>>

RecordFailure ==
    /\ failures' = Counted
    /\ IF circuit = "half_open" \/ (circuit = "closed" /\ failures + 1 >= Threshold)
         THEN circuit' = "open" /\ cooled' = FALSE
         ELSE UNCHANGED <<circuit, cooled>>

-----------------------------------------------------------------------------
(* The outcomes of one attempt in _post_with_retry and run_query *)

Leave(c) ==
    /\ pc' = [pc EXCEPT ![c] = "idle"]
    /\ UNCHANGED <<attempt, up>>

Ran(c, n) == ran' = [ran EXCEPT ![c] = @ + n]

\* Mutant of RetryOrGiveUp: one attempt too many.
RetryOnceMore(c) ==
    IF attempt[c] <= MaxRetries
      THEN /\ pc' = [pc EXCEPT ![c] = "backoff"]
           /\ UNCHANGED <<breaker, attempt, up>>
      ELSE Leave(c) /\ RecordFailure

\* A transient failure: back off and try again, or give up after MaxRetries
\* with a ConnectionError that run_query records.
RetryOrGiveUp(c) ==
    IF attempt[c] < MaxRetries
      THEN /\ pc' = [pc EXCEPT ![c] = "backoff"]
           /\ UNCHANGED <<breaker, attempt, up>>
      ELSE Leave(c) /\ RecordFailure

\* A JSON-RPC result.
Succeeds(c) ==
    /\ pc[c] = "attempt" /\ up
    /\ Ran(c, 1)
    /\ RecordOk
    /\ Leave(c)

\* The turn ran and its answer is unusable: non-JSON, a JSON-RPC error, a body
\* over the cap, or a status that is neither retryable nor the caller's fault.
FailsAfterRun(c) ==
    /\ pc[c] = "attempt" /\ ~up
    /\ Ran(c, 1)
    /\ RecordFailure
    /\ Leave(c)

\* 400, 401, 404 ...: surfaced at once, not counted by the breaker (#1349).
ClientError(c) ==
    /\ pc[c] = "attempt"
    /\ Leave(c)
    /\ UNCHANGED <<breaker, ran>>

\* 429, 502, 503 or 504.  A refusal to retry is not counted either (#1576).
RetryStatus(c, slow) ==
    Policy = "always" \/ (Policy = "fast-only" /\ ~slow)

RetryableStatus(c, slow) ==
    /\ pc[c] = "attempt" /\ ~up
    /\ Ran(c, IF slow THEN 1 ELSE 0)
    /\ IF RetryStatus(c, slow)
         THEN RetryOrGiveUp(c)
         ELSE Leave(c) /\ UNCHANGED breaker

\* Mutant of RetryRead: the slow-read guard is missing.
RetryReadAlways(c, slow) == TRUE

\* ReadError, ReadTimeout.
RetryRead(c, slow) == ~slow \/ Policy = "always"

ReadFails(c, slow) ==
    /\ pc[c] = "attempt" /\ ~up
    /\ Ran(c, IF slow THEN 1 ELSE 0)
    /\ IF RetryRead(c, slow)
         THEN RetryOrGiveUp(c)
         ELSE Leave(c) /\ UNCHANGED breaker

\* ConnectError, ConnectTimeout, WriteTimeout, PoolTimeout: never sent.
NotSent(c) ==
    /\ pc[c] = "attempt" /\ ~up
    /\ RetryOrGiveUp(c)
    /\ UNCHANGED ran

\* The exponential backoff ends.
TryAgain(c) ==
    /\ pc[c] = "backoff"
    /\ pc' = [pc EXCEPT ![c] = "attempt"]
    /\ attempt' = [attempt EXCEPT ![c] = @ + 1]
    /\ UNCHANGED <<breaker, ran, up>>

\* run's wait_for(TASK_TIMEOUT) expires or the caller's task is cancelled:
\* CancelledError is not an Exception, so nothing is recorded.
Abandoned(c) ==
    /\ pc[c] # "idle"
    /\ Leave(c)
    /\ UNCHANGED <<breaker, ran>>

\* The remote backend fails and recovers.
Flip ==
    /\ up' = ~up
    /\ UNCHANGED <<breaker, pc, attempt, ran>>

Attempt(c) ==
    \/ Succeeds(c)
    \/ FailsAfterRun(c)
    \/ ClientError(c)
    \/ \E slow \in BOOLEAN : RetryableStatus(c, slow) \/ ReadFails(c, slow)
    \/ NotSent(c)

Next ==
    \/ \E c \in Callers : Acquire(c) \/ Attempt(c) \/ TryAgain(c) \/ Abandoned(c)
    \/ CoolOff
    \/ Flip

Spec == Init /\ [][Next]_vars

(* HTTP timeouts bound an attempt, sleep bounds a backoff, the clock runs. *)
(* That callers keep calling, and that a healthy backend answers some call *)
(* properly, is assumed by CircuitRecovers only.                           *)
Fairness ==
    /\ WF_vars(CoolOff)
    /\ \A c \in Callers : WF_vars(Attempt(c)) /\ WF_vars(TryAgain(c))

Demand ==
    /\ \A c \in Callers : WF_vars(Acquire(c))
    /\ SF_vars(\E c \in Callers : Succeeds(c))

LiveSpec == Spec /\ Fairness /\ Demand

-----------------------------------------------------------------------------
(* The breaker is closed exactly while fewer than Threshold consecutive    *)
(* failures have been recorded, whatever late outcomes of calls admitted   *)
(* in an earlier state arrive.                                             *)
BreakerCountsFailures == (circuit = "closed") <=> (failures < Threshold)

(* Unless the operator chose "always", a turn that the backend executed is *)
(* never sent again: no double bill, no duplicated side effects (#1457).   *)
NoDoubleRun == Policy # "always" => \A c \in Callers : ran[c] <= 1

(* Once the backend stays healthy and callers keep calling, the circuit    *)
(* closes: no state of the breaker is a trap.                              *)
CircuitRecovers == <>[]up => <>[](circuit = "closed")
=============================================================================
