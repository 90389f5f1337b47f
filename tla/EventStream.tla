----------------------------- MODULE EventStream -----------------------------
(***************************************************************************)
(* The live event feed: the broker of harness/events.py (EventStream), the *)
(* SSE handler of harness/main.py (events_stream_handler), and the         *)
(* dashboard's reconnecting reader (useEventStream.ts).                    *)
(*                                                                         *)
(* The broker runs on one event loop, so a publish is one step, and so are *)
(* subscribe and the replay snapshot the handler takes right after it.     *)
(* Frames taken from the server but not received when a connection breaks  *)
(* are gone with the frames still queued.  An event that fails validation  *)
(* gives its id back and leaves no trace.                                  *)
(***************************************************************************)
EXTENDS Naturals, SequencesExt

CONSTANTS
    Clients,       \* readers, one connection each
    RingMax,       \* EVENT_STREAM_RING_MAX
    QueueMax,      \* EVENT_STREAM_QUEUE_MAX
    MaxFailures,   \* MAX_CONSECUTIVE_FAILURES
    MaxId,         \* bound on the events of one harness process
    MaxEpoch,      \* bound on harness restarts
    Overrun,       \* the stream.overrun frame, whose id is not a number
    None

ASSUME StreamAssumption ==
    /\ RingMax \in Nat \ {0} /\ QueueMax \in Nat \ {0}
    /\ MaxFailures \in Nat /\ MaxId \in Nat /\ MaxEpoch \in Nat
    /\ Overrun \notin Nat /\ None \notin Nat /\ Overrun # None

VARIABLES
    epoch,     \* harness processes started before this one
    nextId,    \* _next_id
    ring,      \* _ring
    subs,      \* _subscribers
    queue,     \* _Subscriber.queue of the client's connection
    closed,    \* _Subscriber.closed
    replay,    \* what is left of the replay snapshot of the connection
    state,     \* the reader: "idle", "fetching", "streaming", "waiting", "failed"
    aborter,   \* whether aborter is set
    fails,     \* consecutiveFailures
    lastId,    \* lastEventId
    since,     \* history: the first id the connection owes the reader
    got        \* history: <<epoch, id>> of the events received

broker == <<epoch, nextId, ring>>
conn == <<subs, queue, closed, replay, since>>
reader == <<state, aborter, fails, lastId, got>>
vars == <<broker, conn, reader>>

Ids == 1..MaxId

TypeOK ==
    /\ epoch \in 0..MaxEpoch
    /\ nextId \in 0..MaxId
    /\ ring \in Seq(Ids) /\ Len(ring) <= RingMax
    /\ subs \in SUBSET Clients
    /\ queue \in [Clients -> Seq(Ids \cup {Overrun})]
    /\ \A c \in Clients : Len(queue[c]) <= QueueMax
    /\ closed \in [Clients -> BOOLEAN]
    /\ replay \in [Clients -> Seq(Ids)]
    /\ state \in [Clients -> {"idle", "fetching", "streaming", "waiting", "failed"}]
    /\ aborter \in [Clients -> BOOLEAN]
    /\ fails \in [Clients -> 0..MaxFailures + 1]
    /\ lastId \in [Clients -> Ids \cup {Overrun, None}]
    /\ since \in [Clients -> 1..MaxId + 1]
    /\ got \in [Clients -> SUBSET ((0..MaxEpoch) \X Ids)]

Init ==
    /\ epoch = 0
    /\ nextId = 0
    /\ ring = <<>>
    /\ subs = {}
    /\ queue = [c \in Clients |-> <<>>]
    /\ closed = [c \in Clients |-> FALSE]
    /\ replay = [c \in Clients |-> <<>>]
    /\ state = [c \in Clients |-> "idle"]
    /\ aborter = [c \in Clients |-> FALSE]
    /\ fails = [c \in Clients |-> 0]
    /\ lastId = [c \in Clients |-> None]
    /\ since = [c \in Clients |-> 1]
    /\ got = [c \in Clients |-> {}]

-----------------------------------------------------------------------------
(* EventStream *)

Full(c) == Len(queue[c]) >= QueueMax
Slow == {c \in subs : Full(c)}

\* Mutant of Evicted: no slot is freed for the overrun frame.
EvictedFull(q) == Append(q, Overrun)

\* _evict_slow: drop the oldest frame to make room for stream.overrun.  The
\* sentinel that follows never fits: the queue is full again.
Evicted(q) == Append(Tail(q), Overrun)

\* Mutant of Publish: a connection that is still replaying is not subscribed
\* yet (before #1229).
PublishSkipsReplaying ==
    /\ nextId < MaxId
    /\ nextId' = nextId + 1
    /\ ring' = IF Len(ring) = RingMax THEN Append(Tail(ring), nextId + 1)
                                      ELSE Append(ring, nextId + 1)
    /\ queue' = [c \in Clients |->
                   IF c \notin subs \/ replay[c] # <<>> THEN queue[c]
                   ELSE IF Full(c) THEN Evicted(queue[c])
                   ELSE Append(queue[c], nextId + 1)]
    /\ closed' = [c \in Clients |-> closed[c] \/ c \in Slow]
    /\ subs' = subs \ Slow
    /\ UNCHANGED <<epoch, replay, since, reader>>

\* publish: assign the id, append to the ring, fan out without blocking.
Publish ==
    /\ nextId < MaxId
    /\ nextId' = nextId + 1
    /\ ring' = IF Len(ring) = RingMax THEN Append(Tail(ring), nextId + 1)
                                      ELSE Append(ring, nextId + 1)
    /\ queue' = [c \in Clients |->
                   IF c \notin subs THEN queue[c]
                   ELSE IF Full(c) THEN Evicted(queue[c])
                   ELSE Append(queue[c], nextId + 1)]
    /\ closed' = [c \in Clients |-> closed[c] \/ c \in Slow]
    /\ subs' = subs \ Slow
    /\ UNCHANGED <<epoch, replay, since, reader>>

\* The elements of s that are in S, as the loop of replay_from copies them.
Kept(s, S) == FoldLeft(LAMBDA out, x : IF x \in S THEN Append(out, x) ELSE out, <<>>, s)

\* replay_from: an id that is missing or not a number gets the whole ring.
ReplayFrom(last) ==
    IF last \in Nat THEN Kept(ring, {i \in Nat : i > last}) ELSE ring

-----------------------------------------------------------------------------
(* events_stream_handler and the reader's runOnce *)

\* Mutant of Connect: the live subscription starts before the snapshot's last
\* event, which is then both replayed and queued.
ConnectOverlapping(c) ==
    /\ state[c] = "fetching"
    /\ replay' = [replay EXCEPT ![c] = ReplayFrom(lastId[c])]
    /\ since' = [since EXCEPT ![c] = IF replay'[c] = <<>> THEN nextId + 1 ELSE Head(replay'[c])]
    /\ subs' = subs \cup {c}
    /\ queue' = [queue EXCEPT ![c] = IF ring = <<>> THEN <<>> ELSE <<Last(ring)>>]
    /\ closed' = [closed EXCEPT ![c] = FALSE]
    /\ state' = [state EXCEPT ![c] = "streaming"]
    /\ fails' = [fails EXCEPT ![c] = 0]
    /\ UNCHANGED <<broker, aborter, lastId, got>>

\* The request is accepted: subscribe, snapshot the ring, start streaming.
Connect(c) ==
    /\ state[c] = "fetching"
    /\ replay' = [replay EXCEPT ![c] = ReplayFrom(lastId[c])]
    /\ since' = [since EXCEPT ![c] = IF replay'[c] = <<>> THEN nextId + 1 ELSE Head(replay'[c])]
    /\ subs' = subs \cup {c}
    /\ queue' = [queue EXCEPT ![c] = <<>>]
    /\ closed' = [closed EXCEPT ![c] = FALSE]
    /\ state' = [state EXCEPT ![c] = "streaming"]
    /\ fails' = [fails EXCEPT ![c] = 0]
    /\ UNCHANGED <<broker, aborter, lastId, got>>

Pending(c) == replay[c] \o queue[c]

\* The next frame reaches handleMessage.
Deliver(c) ==
    /\ state[c] = "streaming"
    /\ Pending(c) # <<>>
    /\ LET frame == Head(Pending(c))
       IN  /\ lastId' = [lastId EXCEPT ![c] = frame]
           /\ got' = IF frame = Overrun THEN got
                     ELSE [got EXCEPT ![c] = @ \cup {<<epoch, frame>>}]
    /\ IF replay[c] # <<>>
         THEN replay' = [replay EXCEPT ![c] = Tail(@)] /\ UNCHANGED queue
         ELSE queue' = [queue EXCEPT ![c] = Tail(@)] /\ UNCHANGED replay
    /\ UNCHANGED <<broker, subs, closed, since, state, aborter, fails>>

\* scheduleReconnect, for the readers in cs.
Reconnect(cs) ==
    /\ fails' = [c \in Clients |-> IF c \in cs THEN fails[c] + 1 ELSE fails[c]]
    /\ state' = [c \in Clients |->
          IF c \notin cs THEN state[c]
          ELSE IF fails'[c] > MaxFailures THEN "failed" ELSE "waiting"]
    /\ UNCHANGED <<aborter, lastId, got>>

\* The connection's server side is torn down: finally, _remove_subscriber.
Disconnect(cs) ==
    /\ subs' = subs \ cs
    /\ queue' = [c \in Clients |-> IF c \in cs THEN <<>> ELSE queue[c]]
    /\ replay' = [c \in Clients |-> IF c \in cs THEN <<>> ELSE replay[c]]
    /\ UNCHANGED <<closed, since>>

\* Mutant of StreamEnds: the iterator waits for the sentinel only.
StreamNeverEnds(c) ==
    /\ state[c] = "streaming" /\ closed[c] /\ Pending(c) = <<Overrun, None>>
    /\ Disconnect({c}) /\ Reconnect({c})
    /\ UNCHANGED broker

\* _iterate: closed and drained, so the response ends.
StreamEnds(c) ==
    /\ state[c] = "streaming" /\ closed[c] /\ Pending(c) = <<>>
    /\ Disconnect({c}) /\ Reconnect({c})
    /\ UNCHANGED broker

ConnectionLost(c) ==
    /\ state[c] = "streaming"
    /\ Disconnect({c}) /\ Reconnect({c})
    /\ UNCHANGED broker

\* No answer, or a status that is not 2xx.
FetchFails(c) ==
    /\ state[c] = "fetching"
    /\ Reconnect({c})
    /\ UNCHANGED <<broker, conn>>

\* The reconnect timer: loop, runOnce, a new AbortController.
TimerFires(c) ==
    /\ state[c] = "waiting"
    /\ state' = [state EXCEPT ![c] = "fetching"]
    /\ aborter' = [aborter EXCEPT ![c] = TRUE]
    /\ UNCHANGED <<broker, conn, fails, lastId, got>>

\* open(): the failure counter is reset before the already-running test.
Open(c) ==
    /\ fails' = [fails EXCEPT ![c] = 0]
    /\ IF aborter[c] \/ state[c] = "waiting"
         THEN UNCHANGED <<state, aborter>>
         ELSE /\ state' = [state EXCEPT ![c] = "fetching"]
              /\ aborter' = [aborter EXCEPT ![c] = TRUE]
    /\ UNCHANGED <<broker, conn, lastId, got>>

\* close(): a new generation; callbacks of the old one do nothing.
Close(c) ==
    /\ state[c] # "idle"
    /\ state' = [state EXCEPT ![c] = "idle"]
    /\ aborter' = [aborter EXCEPT ![c] = FALSE]
    /\ Disconnect({c})
    /\ UNCHANGED <<broker, fails, lastId, got>>

\* The harness process is replaced: ids start over and the ring is empty.
HarnessRestarts ==
    /\ epoch < MaxEpoch
    /\ epoch' = epoch + 1
    /\ nextId' = 0
    /\ ring' = <<>>
    /\ LET up == {c \in Clients : state[c] = "streaming"}
       IN  Disconnect(up) /\ Reconnect(up)

Next ==
    \/ Publish
    \/ HarnessRestarts
    \/ \E c \in Clients :
          Connect(c) \/ Deliver(c) \/ StreamEnds(c) \/ ConnectionLost(c)
          \/ FetchFails(c) \/ TimerFires(c) \/ Open(c) \/ Close(c)

Spec == Init /\ [][Next]_vars

(* The loop writes frames as long as the reader takes them; timers fire.   *)
(* Nothing is assumed of publishers, the network or the user.              *)
Fairness ==
    \A c \in Clients : /\ WF_vars(Deliver(c)) /\ WF_vars(StreamEnds(c))
                       /\ WF_vars(TimerFires(c))

LiveSpec == Spec /\ Fairness

-----------------------------------------------------------------------------
(* What a connection still has to send is in publish order without         *)
(* repetition, the seam between replay and live included (#1229), and ends *)
(* with the overrun frame of an evicted reader.                            *)
PendingOrdered ==
    \A c \in Clients :
        /\ \A i, j \in 1..Len(Pending(c)) :
              i < j => /\ Pending(c)[i] # Overrun
                       /\ Pending(c)[j] # Overrun => Pending(c)[i] < Pending(c)[j]
        /\ Overrun \in Range(Pending(c)) => closed[c]

(* A connection that has not been evicted loses nothing: every event since *)
(* its first one has been received or is still to be sent.                 *)
ConnectedLosesNothing ==
    \A c \in subs : \A i \in since[c]..nextId :
        <<epoch, i>> \in got[c] \/ i \in Range(Pending(c))

(* An evicted reader's stream comes to an end, so that it can reconnect.   *)
EvictedStreamEnds == \A c \in Clients :
    []<>(state[c] # "streaming" \/ ~closed[c])

(* "receives all events with id > n still present in the ring", "missed    *)
(* events from the server's in-memory ring": whatever of the ring the      *)
(* reader has not received is sent to it.  Ids start over in a new harness *)
(* process, and a reader that resumes with an id of the old one does not   *)
(* get the events up to that id.                                           *)
RingIsReplayed ==
    \A c \in Clients : state[c] = "streaming" /\ ~closed[c] =>
        \A i \in Range(ring) : <<epoch, i>> \in got[c] \/ i \in Range(Pending(c))
=============================================================================
