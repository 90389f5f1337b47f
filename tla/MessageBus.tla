----------------------------- MODULE MessageBus -----------------------------
(***************************************************************************)
(* The harness's internal message bus (harness/bus.py, class MessageBus)   *)
(* with its one consumer (harness/main.py, bus_worker) and the part of     *)
(* AgentExecutor.process_bus that resolves a message's result future.      *)
(*                                                                         *)
(* asyncio is cooperative: a coroutine runs without interruption from one  *)
(* await to the next, so an action below is one such stretch.  The awaits  *)
(* that separate them are queue.put and message.result in send, queue.get  *)
(* in receive, and the backend call inside process_bus.                    *)
(*                                                                         *)
(* An element of Msgs is a Message object together with the coroutine that *)
(* sends it.  Once the object is in neither the queue nor the worker and   *)
(* its sender has gone, the same element stands for a fresh Message.       *)
(***************************************************************************)
EXTENDS Naturals, Sequences

CONSTANTS
    SendMsgs,    \* messages handed to MessageBus.send
    TryMsgs,     \* messages handed to MessageBus.try_send
    Kinds,       \* dedup keys: "heartbeat", "job:<name>", "trigger:<endpoint>" ...
    KindOf,      \* Message.kind
    MaxDepth,    \* BUS_MAX_QUEUE_DEPTH
    NoMsg,       \* the worker is waiting in receive()
    Stopped      \* the worker task has been cancelled (shutdown, phase 2)

Msgs == SendMsgs \cup TryMsgs
TryKinds == {KindOf[m] : m \in TryMsgs}
SendKinds == {KindOf[m] : m \in SendMsgs}

(* The call sites: "heartbeat" is the only kind given to try_send and no   *)
(* caller of send uses it.                                                 *)
ASSUME BusAssumption ==
    /\ SendMsgs \cap TryMsgs = {}
    /\ KindOf \in [SendMsgs \cup TryMsgs -> Kinds]
    /\ \A s \in SendMsgs, t \in TryMsgs : KindOf[s] # KindOf[t]
    /\ MaxDepth \in Nat \ {0}
    /\ NoMsg \notin SendMsgs \cup TryMsgs
    /\ Stopped \notin SendMsgs \cup TryMsgs
    /\ NoMsg # Stopped

VARIABLES
    queue,     \* MessageBus._queue
    pending,   \* MessageBus._pending_kinds
    caller,    \* where the coroutine that sends m stands
    result,    \* Message.result
    worker     \* the message inside process_bus, or NoMsg, or Stopped

vars == <<queue, pending, caller, result, worker>>

CallerStates == {"idle", "putting", "awaiting"}
ResultStates == {"none", "pending", "ok", "error", "cancelled"}

TypeOK ==
    /\ queue \in Seq(Msgs)
    /\ Len(queue) <= MaxDepth
    /\ pending \in SUBSET Kinds
    /\ caller \in [Msgs -> CallerStates]
    /\ result \in [Msgs -> ResultStates]
    /\ worker \in Msgs \cup {NoMsg, Stopped}

Init ==
    /\ queue = <<>>
    /\ pending = {}
    /\ caller = [m \in Msgs |-> "idle"]
    /\ result = [m \in Msgs |-> "none"]
    /\ worker = NoMsg

In(q, m) == \E i \in 1..Len(q) : q[i] = m
Queued(m) == In(queue, m)
InFlight(m) == Queued(m) \/ worker = m
Done(m) == result[m] \in {"ok", "error", "cancelled"}
FullLate == Len(queue) > MaxDepth          \* mutant: off by one
Full == Len(queue) >= MaxDepth
Fresh(m) == caller[m] = "idle" /\ ~InFlight(m)

-----------------------------------------------------------------------------
(* MessageBus.send *)

\* Up to the first suspension: mint the future, claim the kind, and put the
\* message at once when the queue has room.
Send(m) ==
    /\ Fresh(m)
    /\ pending' = pending \cup {KindOf[m]}
    /\ result' = [result EXCEPT ![m] = "pending"]
    /\ IF Full
         THEN /\ caller' = [caller EXCEPT ![m] = "putting"]
              /\ UNCHANGED queue
         ELSE /\ caller' = [caller EXCEPT ![m] = "awaiting"]
              /\ queue' = Append(queue, m)
    /\ UNCHANGED worker

\* A suspended put finds room.  The wake-up order of putters is asyncio's; a
\* new put may overtake a woken one, so any suspended putter may be the next.
PutResumes(m) ==
    /\ caller[m] = "putting"
    /\ ~Full
    /\ queue' = Append(queue, m)
    /\ caller' = [caller EXCEPT ![m] = "awaiting"]
    /\ UNCHANGED <<pending, result, worker>>

\* The single except BaseException branch of send.
Discard(m) == pending' = pending \ {KindOf[m]}

\* BUS_SEND_TIMEOUT elapsed while the queue stayed full: QueueFull is raised.
SendTimesOut(m) ==
    /\ caller[m] = "putting"
    /\ Full
    /\ caller' = [caller EXCEPT ![m] = "idle"]
    /\ Discard(m)
    /\ UNCHANGED <<queue, result, worker>>

\* The sender's task is cancelled (a runner unregistered, shutdown).  While it
\* awaits message.result the cancellation reaches the future itself; the
\* message stays in the queue or in the worker.
SendCancelled(m) ==
    /\ m \in SendMsgs
    /\ caller[m] \in {"putting", "awaiting"}
    /\ caller' = [caller EXCEPT ![m] = "idle"]
    /\ result' = IF caller[m] = "awaiting" /\ ~Done(m)
                   THEN [result EXCEPT ![m] = "cancelled"]
                   ELSE result
    /\ Discard(m)
    /\ UNCHANGED <<queue, worker>>

\* await message.result ends: a value is returned, an error or a cancellation
\* is raised through the cleanup branch.
SendReturns(m) ==
    /\ m \in SendMsgs
    /\ caller[m] = "awaiting"
    /\ Done(m)
    /\ caller' = [caller EXCEPT ![m] = "idle"]
    /\ IF result[m] = "ok" THEN UNCHANGED pending ELSE Discard(m)
    /\ UNCHANGED <<queue, result, worker>>

-----------------------------------------------------------------------------
(* MessageBus.try_send and what its caller does with the future *)

\* Returns False at the dedup check, before anything is written.
TrySendDeduped(m) ==
    /\ Fresh(m)
    /\ KindOf[m] \in pending
    /\ UNCHANGED vars

\* put_nowait raises QueueFull: the kind is added and discarded again.
TrySendFull(m) ==
    /\ Fresh(m)
    /\ KindOf[m] \notin pending
    /\ Full
    /\ result' = [result EXCEPT ![m] = "pending"]
    /\ UNCHANGED <<queue, pending, caller, worker>>

\* Mutant of TrySendEnqueues: the membership test is dropped.
TrySendUnguarded(m) ==
    /\ Fresh(m)
    /\ ~Full
    /\ result' = [result EXCEPT ![m] = "pending"]
    /\ pending' = pending \cup {KindOf[m]}
    /\ queue' = Append(queue, m)
    /\ caller' = [caller EXCEPT ![m] = "awaiting"]
    /\ UNCHANGED worker

TrySendEnqueues(m) ==
    /\ Fresh(m)
    /\ KindOf[m] \notin pending
    /\ ~Full
    /\ result' = [result EXCEPT ![m] = "pending"]
    /\ pending' = pending \cup {KindOf[m]}
    /\ queue' = Append(queue, m)
    /\ caller' = [caller EXCEPT ![m] = "awaiting"]
    /\ UNCHANGED worker

TrySend(m) == TrySendDeduped(m) \/ TrySendFull(m) \/ TrySendEnqueues(m)

\* The caller stops looking at the future: heartbeat.py awaits it shielded
\* (and leaves it when the loop is stopped), the ad-hoc endpoint never looks.
\* Neither cancels the future nor touches the dedup slot.
TryCallerLeaves(m) ==
    /\ m \in TryMsgs
    /\ caller[m] = "awaiting"
    /\ caller' = [caller EXCEPT ![m] = "idle"]
    /\ UNCHANGED <<queue, pending, result, worker>>

-----------------------------------------------------------------------------
(* bus_worker *)

Receive ==
    /\ worker = NoMsg
    /\ queue # <<>>
    /\ worker' = Head(queue)
    /\ queue' = Tail(queue)
    /\ UNCHANGED <<pending, caller, result>>

\* Mutants of Settle: the slot is kept; the future is left unresolved when the
\* outcome is not a value; done() is not tested.
SettleKeepsSlot(m, outcome) ==
    /\ result' = IF Done(m) THEN result ELSE [result EXCEPT ![m] = outcome]
    /\ UNCHANGED pending

SettleOnlyOk(m, outcome) ==
    /\ result' = IF Done(m) \/ outcome # "ok"
                   THEN result
                   ELSE [result EXCEPT ![m] = outcome]
    /\ pending' = pending \ {KindOf[m]}

SettleAgain(m, outcome) ==
    /\ result' = [result EXCEPT ![m] = outcome]
    /\ pending' = pending \ {KindOf[m]}

\* From the end of the backend call to the next receive() nothing is awaited:
\* process_bus resolves the future unless it is already done, then bus_worker's
\* finally cancels an unresolved future and releases the dedup slot.
Settle(m, outcome) ==
    /\ result' = IF Done(m) THEN result ELSE [result EXCEPT ![m] = outcome]
    /\ pending' = pending \ {KindOf[m]}

ProcessEnds(m) ==
    /\ worker = m
    /\ \E outcome \in {"ok", "error"} : Settle(m, outcome)
    /\ worker' = NoMsg
    /\ UNCHANGED <<queue, caller>>

\* bus_task.cancel(): inside process_bus the CancelledError passes both except
\* clauses and runs the same finally; inside receive() nothing is held.
WorkerCancelled ==
    /\ worker # Stopped
    /\ IF worker \in Msgs
         THEN Settle(worker, "cancelled")
         ELSE UNCHANGED <<result, pending>>
    /\ worker' = Stopped
    /\ UNCHANGED <<queue, caller>>

-----------------------------------------------------------------------------
SenderStep(m) ==
    \/ Send(m)
    \/ PutResumes(m)
    \/ SendTimesOut(m)
    \/ SendCancelled(m)
    \/ SendReturns(m)

Next ==
    \/ \E m \in SendMsgs : SenderStep(m)
    \/ \E m \in TryMsgs : TrySend(m) \/ TryCallerLeaves(m)
    \/ Receive
    \/ \E m \in Msgs : ProcessEnds(m)
    \/ WorkerCancelled

Spec == Init /\ [][Next]_vars

(* The event loop runs every ready coroutine; the backend call is bounded  *)
(* by wait_for(TASK_TIMEOUT) and a blocked put by BUS_SEND_TIMEOUT.        *)
Fairness ==
    /\ WF_vars(Receive)
    /\ \A m \in Msgs : WF_vars(ProcessEnds(m))
    /\ \A m \in SendMsgs : /\ WF_vars(PutResumes(m) \/ SendTimesOut(m))
                           /\ WF_vars(SendReturns(m))

LiveSpec == Spec /\ Fairness

-----------------------------------------------------------------------------
(* At most one message of a kind given to try_send is between its enqueue  *)
(* and the end of its execution (#514): two heartbeats never stack, however *)
(* the scheduled loop, the ad-hoc endpoint and the worker interleave.      *)
SingleFlight ==
    /\ \A m, n \in TryMsgs :
          InFlight(m) /\ InFlight(n) /\ KindOf[m] = KindOf[n] => m = n
    /\ \A m \in TryMsgs : Queued(m) => worker # m
    /\ \A i, j \in 1..Len(queue) : queue[i] = queue[j] => i = j

(* The dedup slot is never leaked: a kind in _pending_kinds has a message  *)
(* that is waiting to be put, queued or executing, so try_send refuses a   *)
(* message only while an earlier one is really outstanding.                *)
NoLeakedSlot ==
    \A k \in pending :
        \E m \in Msgs : KindOf[m] = k /\ (InFlight(m) \/ caller[m] = "putting")

(* No sender waits for a future nobody will resolve: while it awaits an    *)
(* unresolved future its message is still queued or executing.             *)
AwaitedIsInFlight ==
    \A m \in SendMsgs : caller[m] = "awaiting" /\ ~Done(m) => InFlight(m)

(* The slot of a kind given to try_send is held from enqueue through the   *)
(* end of process_bus.                                                     *)
TrySlotSpansExecution ==
    \A m \in TryMsgs : InFlight(m) => KindOf[m] \in pending

(* Seen through one kind that try_send guards, the bus implements the      *)
(* claim-start-finish slot of DispatchSlot, whatever else goes through it. *)
SlotPhase ==
    [k \in TryKinds |->
        IF worker \in Msgs /\ \E m \in TryMsgs : KindOf[m] = k /\ worker = m
          THEN "running"
          ELSE IF \E m \in TryMsgs : KindOf[m] = k /\ Queued(m)
                 THEN "queued" ELSE "free"]

Slot == INSTANCE DispatchSlot WITH SlotKinds <- TryKinds, phase <- SlotPhase

ImplementsSlot == Slot!Spec

(* A future that was resolved or cancelled is never resolved again while   *)
(* its message is in flight: process_bus and bus_worker test done() before *)
(* they write (asyncio would raise InvalidStateError).                     *)
ResolvedOnce ==
    [][\A m \in Msgs : InFlight(m) /\ Done(m) => result'[m] = result[m]]_vars

(* Every call of send ends, unless the worker has been shut down.          *)
SendEnds ==
    \A m \in SendMsgs :
        []<>(caller[m] = "idle" \/ worker = Stopped)
=============================================================================
