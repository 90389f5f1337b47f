------------------------------ MODULE HookPosts ------------------------------
(***************************************************************************)
(* The backends' fire-and-forget channel to the harness                    *)
(* (shared/hook_events.py) and the harness end of it (bus.py, main.py).    *)
(* The event-loop thread schedules a post for a hook decision; an OTel     *)
(* worker thread schedules one for a span through                          *)
(* run_coroutine_threadsafe.  Both take _inflight_lock, a threading.Lock   *)
(* that is not reentrant.  A post is retried once, feeds a circuit breaker *)
(* and is accepted by the harness into a bounded queue that the dispatcher *)
(* empties into the listeners.                                             *)
(***************************************************************************)
EXTENDS Naturals, Sequences, FiniteSets

CONSTANTS
    Decisions,     \* posts of the loop thread (schedule_post)
    Spans,         \* posts of the worker thread (schedule_event_post)
    MaxInflight,   \* HOOK_POST_MAX_INFLIGHT
    CbWindow,      \* HOOK_POST_CB_WINDOW
    CbFails,       \* failures in a full window that open the breaker
    DecisionQueue, \* _HOOK_DECISION_QUEUE_MAX
    NoPost

HookPostIds == Decisions \cup Spans

(* A decision is no span, and "no post" is neither.                        *)
HookAssumption ==
    /\ Decisions \cap Spans = {} /\ NoPost \notin HookPostIds
    /\ MaxInflight \in Nat /\ DecisionQueue \in Nat

VARIABLES
    hlock,      \* who holds _inflight_lock: "free" or "worker"; the loop thread
                \*   holds it only within a step
    loop,       \* the post for which the loop thread waits for the lock, or NoPost
    worker,     \* the worker thread: "idle", "locked", "submitted", "stuck"
    span,       \* the post it is scheduling
    inflight,   \* _INFLIGHT
    inflightCf, \* _INFLIGHT_CF
    hooked,     \* futures with _done_cb registered
    post,       \* a post: "new", "shed", "ready", "sending", "pausing", "resending",
                \*   "over" (coroutine done), "done" (future set), "gone"
    recent,     \* _cb_recent
    cbOpen,     \* _cb_open_until is in the future
    hqueue,     \* _hook_decision_queue
    accepted,   \* history: how often the harness answered 202 for a decision
    dispatched, \* history: how often the listeners were given it
    lostFull    \* history: how often the full queue dropped it

hpvars == <<hlock, loop, worker, span, inflight, inflightCf, hooked, post, recent, cbOpen,
            hqueue, accepted, dispatched, lostFull>>
threads == <<hlock, loop, worker, span, inflight, inflightCf, hooked>>
harness == <<hqueue, accepted, dispatched, lostFull>>

HPTypeOK ==
    /\ hlock \in {"free", "worker"} /\ loop \in HookPostIds \cup {NoPost}
    /\ worker \in {"idle", "locked", "submitted", "stuck"}
    /\ span \in Spans \cup {NoPost}
    /\ inflight \subseteq Decisions /\ inflightCf \subseteq Spans /\ hooked \subseteq Spans
    /\ post \in [HookPostIds -> {"new", "shed", "ready", "sending", "pausing", "resending",
                                 "over", "done", "gone"}]
    /\ recent \in Seq(BOOLEAN) /\ Len(recent) <= CbWindow
    /\ cbOpen \in BOOLEAN
    /\ hqueue \in Seq(Decisions) /\ Len(hqueue) <= DecisionQueue
    /\ \A p \in Decisions : {accepted[p], dispatched[p], lostFull[p]} \subseteq 0..2

Set(p, s) == post' = [post EXCEPT ![p] = s]

\* The loop thread is not held up by the lock.
LoopRuns == loop = NoPost

------------------------------------------------------------------------------
(* Scheduling.                                                             *)

\* A tool call calls schedule_post, or a future's callback comes up: the loop
\* thread asks for the lock.
WantLock(p) ==
    /\ LoopRuns
    /\ (p \in Decisions /\ post[p] \in {"new", "over"}) \/ (p \in hooked /\ post[p] = "done")
    /\ loop' = p
    /\ UNCHANGED <<hlock, worker, span, inflight, inflightCf, hooked, post, recent, cbOpen, harness>>

\* A plausible bug: the cap is passed before it holds.
OverCapLate == Cardinality(inflight) > MaxInflight

\* The cap of schedule_post counts the tasks only.
OverCap == Cardinality(inflight) >= MaxInflight

\* schedule_post with the lock: the task is created, or the post is shed.
SchedulePost(p) ==
    /\ loop = p /\ p \in Decisions /\ post[p] = "new" /\ hlock = "free"
    /\ loop' = NoPost
    /\ \/ OverCap /\ Set(p, "shed") /\ UNCHANGED inflight
       \/ ~OverCap /\ Set(p, "ready") /\ inflight' = inflight \cup {p}
    /\ UNCHANGED <<hlock, worker, span, inflightCf, hooked, recent, cbOpen, harness>>

\* A plausible bug: a finished task stays in the set.
DoneKeeps(p) == Set(p, "gone") /\ UNCHANGED inflight

\* _done, the callback of a task.
Done(p) == Set(p, "gone") /\ inflight' = inflight \ {p}

TaskDone(p) ==
    /\ loop = p /\ p \in Decisions /\ post[p] = "over" /\ hlock = "free"
    /\ loop' = NoPost
    /\ Done(p)
    /\ UNCHANGED <<hlock, worker, span, inflightCf, hooked, recent, cbOpen, harness>>

\* _done_cb on the loop thread, when the future was not done at registration.
FutureDone(p) ==
    /\ loop = p /\ p \in hooked /\ post[p] = "done" /\ hlock = "free"
    /\ loop' = NoPost
    /\ Set(p, "gone")
    /\ inflightCf' = inflightCf \ {p}
    /\ UNCHANGED <<hlock, worker, span, inflight, hooked, recent, cbOpen, harness>>

\* on_end of a span whose name is on the list, on the worker thread.
SpanEnds(p) == p \in Spans /\ post[p] = "new"

\* schedule_event_post on the worker thread: it takes the lock and, at the cap,
\* sheds the event and lets the lock go.
WorkerLocks(p) ==
    /\ worker = "idle" /\ hlock = "free" /\ SpanEnds(p)
    /\ \/ /\ Cardinality(inflight) + Cardinality(inflightCf) >= MaxInflight
          /\ Set(p, "shed")
          /\ UNCHANGED <<hlock, worker, span>>
       \/ /\ Cardinality(inflight) + Cardinality(inflightCf) < MaxInflight
          /\ hlock' = "worker" /\ worker' = "locked" /\ span' = p
          /\ UNCHANGED post
    /\ UNCHANGED <<loop, inflight, inflightCf, hooked, recent, cbOpen, harness>>

\* run_coroutine_threadsafe: from here on the loop thread may run the post.
WorkerSubmits ==
    /\ worker = "locked"
    /\ Set(span, "ready")
    /\ inflightCf' = inflightCf \cup {span}
    /\ worker' = "submitted"
    /\ UNCHANGED <<hlock, loop, span, inflight, hooked, recent, cbOpen, harness>>

\* add_done_callback: on a future that is done it calls _done_cb at once, on this
\* thread, which holds the lock that _done_cb waits for.
WorkerRegisters ==
    /\ worker = "submitted"
    /\ \/ /\ post[span] = "done"
          /\ worker' = "stuck"
          /\ UNCHANGED <<hlock, span, hooked>>
       \/ /\ post[span] # "done"
          /\ hooked' = hooked \cup {span}
          /\ worker' = "idle" /\ hlock' = "free" /\ span' = NoPost
    /\ UNCHANGED <<loop, inflight, inflightCf, post, recent, cbOpen, harness>>

------------------------------------------------------------------------------
(* Posting, on the loop thread.                                            *)

\* _post_once_to: an open breaker, or a missing token, ends the post at once.
PostStarts(p) ==
    /\ LoopRuns /\ post[p] = "ready"
    /\ Set(p, IF cbOpen THEN "over" ELSE "sending")
    /\ UNCHANGED <<threads, recent, cbOpen, harness>>

NoToken(p) ==
    /\ LoopRuns /\ post[p] = "ready"
    /\ Set(p, "over")
    /\ UNCHANGED <<threads, recent, cbOpen, harness>>

\* _cb_record: the window slides; a full one with too many failures opens the
\* breaker and is cleared.
Record(failed) ==
    LET all == Append(recent, failed)
        window == IF Len(all) > CbWindow THEN Tail(all) ELSE all
        fails == Cardinality({n \in DOMAIN window : window[n]})
    IN  IF Len(window) >= CbWindow /\ fails >= CbFails
        THEN recent' = <<>> /\ cbOpen' = TRUE
        ELSE recent' = window /\ UNCHANGED cbOpen

\* A plausible bug: an event for which there is no room is not counted.
AcceptUncounted(p) ==
    /\ accepted' = [accepted EXCEPT ![p] = @ + 1]
    /\ hqueue' = IF Len(hqueue) < DecisionQueue THEN Append(hqueue, p) ELSE hqueue
    /\ UNCHANGED <<lostFull, dispatched>>

\* publish_hook_decision: into the queue, or dropped when it is full.
Accept(p) ==
    /\ accepted' = [accepted EXCEPT ![p] = @ + 1]
    /\ IF Len(hqueue) < DecisionQueue
       THEN hqueue' = Append(hqueue, p) /\ UNCHANGED lostFull
       ELSE lostFull' = [lostFull EXCEPT ![p] = @ + 1] /\ UNCHANGED hqueue
    /\ UNCHANGED dispatched

\* What the harness has done with a request: accepted the decision, or nothing of it
\* (a span goes to the event stream, EventStream.tla).
Served(p) == (p \in Decisions /\ Accept(p)) \/ UNCHANGED harness

Attempting(p) == LoopRuns /\ post[p] \in {"sending", "resending"}

\* An answer arrives: 202 after it was accepted, else a refusal; 5xx counts as failed.
Answered(p) ==
    /\ Attempting(p)
    /\ Set(p, "over")
    /\ \/ Served(p) /\ Record(FALSE)
       \/ UNCHANGED harness /\ \E failed \in BOOLEAN : Record(failed)
    /\ UNCHANGED threads

\* A plausible bug: every lost answer is retried.
AfterLostAlways(p) == Set(p, "pausing") /\ UNCHANGED <<recent, cbOpen>>

\* A timeout or a broken connection, before or after the harness took the request;
\* the first one is retried after a pause, the second one ends the post.
AfterLost(p) ==
    \/ post[p] = "sending" /\ Set(p, "pausing") /\ UNCHANGED <<recent, cbOpen>>
    \/ post[p] = "resending" /\ Set(p, "over") /\ Record(TRUE)

AnswerLost(p) ==
    /\ Attempting(p)
    /\ Served(p)
    /\ AfterLost(p)
    /\ UNCHANGED threads

Resend(p) ==
    /\ LoopRuns /\ post[p] = "pausing"
    /\ Set(p, "resending")
    /\ UNCHANGED <<threads, recent, cbOpen, harness>>

\* The loop copies the result of the coroutine into the worker's future.
FutureSet(p) ==
    /\ LoopRuns /\ p \in Spans /\ post[p] = "over"
    /\ Set(p, "done")
    /\ UNCHANGED <<threads, recent, cbOpen, harness>>

\* HOOK_POST_CB_COOLDOWN_SECONDS have passed.
CoolDown ==
    /\ cbOpen /\ cbOpen' = FALSE
    /\ UNCHANGED <<threads, post, recent, harness>>

\* _dispatch_loop hands an event to every listener; one that raises is logged.
Dispatch ==
    /\ hqueue # <<>>
    /\ hqueue' = Tail(hqueue)
    /\ dispatched' = [dispatched EXCEPT ![Head(hqueue)] = @ + 1]
    /\ UNCHANGED <<threads, post, recent, cbOpen, accepted, lostFull>>

HPInit ==
    /\ hlock = "free" /\ loop = NoPost /\ worker = "idle" /\ span = NoPost
    /\ inflight = {} /\ inflightCf = {} /\ hooked = {}
    /\ post = [p \in HookPostIds |-> "new"]
    /\ recent = <<>> /\ cbOpen = FALSE
    /\ hqueue = <<>>
    /\ accepted = [p \in Decisions |-> 0]
    /\ dispatched = [p \in Decisions |-> 0]
    /\ lostFull = [p \in Decisions |-> 0]

LoopStep(p) ==
    \/ SchedulePost(p) \/ TaskDone(p) \/ FutureDone(p) \/ PostStarts(p) \/ NoToken(p)
    \/ Answered(p) \/ AnswerLost(p) \/ Resend(p) \/ FutureSet(p)

HPNext ==
    \/ \E p \in HookPostIds : LoopStep(p) \/ WantLock(p) \/ WorkerLocks(p)
    \/ WorkerSubmits
    \/ WorkerRegisters
    \/ CoolDown
    \/ Dispatch

\* Both threads run; a request has a timeout, so an attempt always ends.
HPFairness ==
    /\ \A p \in HookPostIds : WF_hpvars(LoopStep(p))
    /\ WF_hpvars(\E p \in HookPostIds : WantLock(p) /\ post[p] \in {"over", "done"})
    /\ WF_hpvars(WorkerSubmits \/ WorkerRegisters)
    /\ WF_hpvars(Dispatch)
HPSpec == HPInit /\ [][HPNext]_hpvars /\ HPFairness

------------------------------------------------------------------------------
(* Properties.                                                             *)

Underway == {"ready", "sending", "pausing", "resending", "over", "done"}

\* The in-flight sets hold exactly the posts that are under way, at most
\* MaxInflight of each kind: no ending of a post keeps or frees a slot too many,
\* although the posts of the two threads end on different threads (#1037, #1233).
InflightExact ==
    /\ inflight = {p \in Decisions : post[p] \in Underway}
    /\ inflightCf = {p \in Spans : post[p] \in Underway}
    /\ Cardinality(inflight) <= MaxInflight /\ Cardinality(inflightCf) <= MaxInflight

\* A 202 is kept: every decision the harness accepted is queued, was handed to the listeners or was dropped by the full queue,
\* and one that was shed never appears; a retry may deliver it twice, no more.
AcceptedIsAccounted ==
    \A p \in Decisions :
        /\ accepted[p] = dispatched[p] + lostFull[p] + Cardinality({n \in DOMAIN hqueue : hqueue[n] = p})
        /\ post[p] \in {"new", "shed", "ready"} => accepted[p] = 0
        /\ accepted[p] <= 2

\* A post that was scheduled ends: its slot is freed after at most one retry, unless
\* the worker thread has hung with the lock.
PostEnds == \A p \in HookPostIds : []<>(post[p] \in {"new", "shed", "gone"} \/ worker = "stuck")

\* Scheduling a post never stalls the event loop, and so never a tool call.
SchedulingNeverStalls == \A p \in HookPostIds : []<>(loop # p)
=============================================================================
