---------------------------- MODULE SessionStream ----------------------------
(***************************************************************************)
(* The per-session broadcaster of a backend and its SSE endpoint, GET      *)
(* /api/sessions/<id>/stream (shared/session_stream.py).  A turn of an     *)
(* executor takes the broadcaster of its session from the registry when it *)
(* starts and publishes its chunks on that object to the end.  A reader's  *)
(* request reserves one of the caller's slots, takes the broadcaster and   *)
(* the replay, and only subscribes once the replay has been written.  The  *)
(* registry drops its oldest broadcaster at the cap, and idle ones when    *)
(* the sweeper runs.                                                       *)
(*                                                                         *)
(* A broadcaster is a number: streams are created in that order and a      *)
(* dropped one lives on for those that hold it.  An envelope is its id.    *)
(***************************************************************************)
EXTENDS Naturals, SequencesExt, FiniteSetsExt

CONSTANTS
    StreamSessions,  \* session ids
    Readers,         \* connections of one caller
    ReadersOf,       \* the readers of a session
    RegistryMax,     \* CONVERSATION_STREAM_REGISTRY_MAX
    SQueueMax,       \* CONVERSATION_STREAM_QUEUE_MAX
    SRingMax,        \* CONVERSATION_STREAM_RING_MAX
    Grace,           \* CONVERSATION_STREAM_GRACE_SEC, in ticks
    PerCaller,       \* SESSION_STREAM_MAX_PER_CALLER
    MaxStreams,      \* bound: broadcasters created
    MaxEnvelopes     \* bound: ids given out, by all broadcasters together

\* The registry's cap is at least 1; a queue or a ring of size 0 is not used.
SessionAssumption ==
    /\ RegistryMax \in Nat \ {0} /\ SQueueMax \in Nat \ {0} /\ SRingMax \in Nat \ {0}
    /\ Grace \in Nat /\ PerCaller \in Nat /\ MaxStreams \in Nat /\ MaxEnvelopes \in Nat
    /\ IsFiniteSet(Readers)

Streams == 1..MaxStreams

\* What a queue holds: envelopes, the terminal stream.overrun, the sentinel.
Chunk(n) == [kind |-> "chunk", id |-> n]
OverrunAt(n) == [kind |-> "overrun", id |-> n]
Sentinel == [kind |-> "sentinel", id |-> 0]
Items == {Chunk(n) : n \in 0..(2 * MaxEnvelopes)} \cup
         {OverrunAt(n) : n \in 0..(2 * MaxEnvelopes)} \cup {Sentinel}

VARIABLES
    registry,   \* _registry: broadcasters in insertion order
    owner,      \* the session of a broadcaster, for those that exist
    sring,      \* _ring, as ids
    snext,      \* _next_id
    attached,   \* _subscribers
    idleFor,    \* ticks since _idle_since
    quietFor,   \* ticks since _last_activity
    publisher,  \* the broadcaster held by the session's turn, 0 without one
    rpc,        \* a reader: "off", "opened", "live" in queue.get(), "sending"
    on,         \* the broadcaster its request took
    box,        \* its queue
    shut,       \* _Subscriber.closed
    backlog,    \* the replay not yet written
    resumeAt,   \* the Last-Event-ID its next request carries, 0 for none
    written,    \* the item just written, or the last one
    slots       \* _per_caller_counts of the caller

ssvars == <<registry, owner, sring, snext, attached, idleFor, quietFor, publisher,
            rpc, on, box, shut, backlog, resumeAt, written, slots>>
streamState == <<registry, owner, sring, snext, attached, idleFor, quietFor>>
readerState == <<rpc, on, backlog, resumeAt, written, slots>>

Created == DOMAIN owner

SSTypeOK ==
    /\ registry \in Seq(Created) /\ IsInjective(registry)
    /\ \E n \in 0..MaxStreams : Created = 1..n
    /\ \A i \in Created : owner[i] \in StreamSessions /\ attached[i] \subseteq Readers
    /\ publisher \in [StreamSessions -> Created \cup {0}]
    /\ rpc \in [Readers -> {"off", "opened", "live", "sending", "kept"}]
    /\ \A r \in Readers : box[r] \in Seq(Items) /\ Len(box[r]) <= SQueueMax
    /\ slots \in 0..PerCaller

------------------------------------------------------------------------------
(* The registry.                                                           *)

\* put_nowait, which gives up on a full queue.
Put(q, item) == IF Len(q) < SQueueMax THEN Append(q, item) ELSE q

\* The position of r in the order in which the subscribers R are visited.
Rank(r, R) == CHOOSE n \in 1..Cardinality(R) : SetToSeq(R)[n] = r

\* A plausible bug: the terminal envelope repeats the last id.
EvictSameId(i, R) ==
    /\ shut' = [r \in Readers |-> shut[r] \/ r \in R]
    /\ box' = [r \in Readers |->
                 IF r \in R THEN Put(Put(box[r], OverrunAt(snext[i])), Sentinel) ELSE box[r]]

\* _evict_oldest_broadcaster: every subscriber is closed and sent the terminal
\* envelope and the sentinel, as far as its queue has room.
Evict(i, R) ==
    /\ shut' = [r \in Readers |-> shut[r] \/ r \in R]
    /\ box' = [r \in Readers |->
                 IF r \in R THEN Put(Put(box[r], OverrunAt(snext[i] + Rank(r, R))), Sentinel)
                            ELSE box[r]]

\* get_session_stream: the registered broadcaster of s, or a new one, i.
Get(s, i) ==
    \/ /\ \E n \in DOMAIN registry : registry[n] = i /\ owner[i] = s
       /\ UNCHANGED <<streamState, box, shut>>
    \/ /\ \A n \in DOMAIN registry : owner[registry[n]] # s
       /\ i = Cardinality(Created) + 1 /\ i <= MaxStreams
       /\ LET full == Len(registry) >= RegistryMax
              old == Head(registry)
              R == attached[old]
          IN  /\ registry' = Append(IF full THEN Tail(registry) ELSE registry, i)
              /\ IF full THEN Evict(old, R) ELSE UNCHANGED <<box, shut>>
              /\ attached' = [j \in Created \cup {i} |->
                                IF j = i \/ (full /\ j = old) THEN {} ELSE attached[j]]
              /\ snext' = [j \in Created \cup {i} |->
                             IF j = i THEN 0
                             ELSE IF full /\ j = old THEN snext[j] + Cardinality(R) ELSE snext[j]]
       /\ owner' = [j \in Created \cup {i} |-> IF j = i THEN s ELSE owner[j]]
       /\ sring' = [j \in Created \cup {i} |-> IF j = i THEN <<>> ELSE sring[j]]
       /\ idleFor' = [j \in Created \cup {i} |-> IF j = i THEN 0 ELSE idleFor[j]]
       /\ quietFor' = [j \in Created \cup {i} |-> IF j = i THEN 0 ELSE quietFor[j]]

\* is_idle_past.
IsIdle(i) == attached[i] = {} /\ idleFor[i] >= Grace /\ quietFor[i] >= Grace

\* The elements of s that are in S, as a loop over s copies them.
Kept(s, S) == FoldLeft(LAMBDA out, x : IF x \in S THEN Append(out, x) ELSE out, <<>>, s)

\* sweep_idle_streams; an idle broadcaster has nobody to tell.
Sweep ==
    /\ \E n \in DOMAIN registry : IsIdle(registry[n])
    /\ registry' = Kept(registry, {i \in Created : ~IsIdle(i)})
    /\ UNCHANGED <<owner, sring, snext, attached, idleFor, quietFor, publisher, readerState, box, shut>>

STick ==
    /\ \E i \in Created : idleFor[i] < Grace \/ quietFor[i] < Grace
    /\ idleFor' = [i \in Created |->
         IF attached[i] = {} /\ idleFor[i] < Grace THEN idleFor[i] + 1 ELSE idleFor[i]]
    /\ quietFor' = [i \in Created |-> IF quietFor[i] < Grace THEN quietFor[i] + 1 ELSE quietFor[i]]
    /\ UNCHANGED <<registry, owner, sring, snext, attached, publisher, readerState, box, shut>>

------------------------------------------------------------------------------
(* Publishing.                                                             *)

\* execute() takes the broadcaster of its session.
BeginTurn(s) ==
    /\ publisher[s] = 0
    /\ \E i \in Streams : Get(s, i) /\ publisher' = [publisher EXCEPT ![s] = i]
    /\ UNCHANGED readerState

EndTurn(s) ==
    /\ publisher[s] # 0
    /\ publisher' = [publisher EXCEPT ![s] = 0]
    /\ UNCHANGED <<streamState, readerState, box, shut>>

\* _evict_slow makes room for the terminal envelope.
PushOut(q, n) == Put(Put(Tail(q), OverrunAt(n)), Sentinel)

\* publish and _fanout.
Publish(s) ==
    LET i == publisher[s]
        n == snext[i] + 1
        slow == {r \in attached[i] : Len(box[r]) = SQueueMax}
    IN  /\ i # 0 /\ MapThenFoldSet(+, 0, LAMBDA j : snext[j], LAMBDA T : CHOOSE j \in T : TRUE, Created)
                      + 1 + Cardinality(slow) <= MaxEnvelopes
        /\ snext' = [snext EXCEPT ![i] = n + Cardinality(slow)]
        /\ sring' = [sring EXCEPT ![i] = IF Len(@) = SRingMax THEN Append(Tail(@), n) ELSE Append(@, n)]
        /\ quietFor' = [quietFor EXCEPT ![i] = 0]
        /\ box' = [r \in Readers |->
                     IF r \in slow THEN PushOut(box[r], n + Rank(r, slow))
                     ELSE IF r \in attached[i] THEN Append(box[r], Chunk(n)) ELSE box[r]]
        /\ shut' = [r \in Readers |-> shut[r] \/ r \in slow]
        /\ attached' = [attached EXCEPT ![i] = @ \ slow]
        /\ idleFor' = IF slow # {} /\ attached[i] = slow THEN [idleFor EXCEPT ![i] = 0] ELSE idleFor
        /\ UNCHANGED <<registry, owner, publisher, readerState>>

------------------------------------------------------------------------------
(* The endpoint.                                                           *)

\* replay_from; without a Last-Event-ID the handler replays nothing.
ReplayFrom(i, last) == IF last = 0 THEN <<>> ELSE Kept(sring'[i], {n \in Nat : n > last})

\* handler(), up to the response; a caller at its cap is refused.
Open(r) ==
    /\ rpc[r] = "off" /\ slots < PerCaller
    /\ slots' = slots + 1
    /\ \E s \in StreamSessions, i \in Streams :
         /\ r \in ReadersOf[s]
         /\ Get(s, i)
         /\ on' = [on EXCEPT ![r] = i]
         /\ backlog' = [backlog EXCEPT ![r] = ReplayFrom(i, resumeAt[r])]
    /\ rpc' = [rpc EXCEPT ![r] = "opened"]
    /\ UNCHANGED <<publisher, resumeAt, written>>

Write(r, item) ==
    /\ written' = [written EXCEPT ![r] = item]
    /\ resumeAt' = [resumeAt EXCEPT ![r] = item.id]

\* One replayed frame.
Replay(r) ==
    /\ rpc[r] = "opened" /\ backlog[r] # <<>>
    /\ Write(r, Chunk(Head(backlog[r])))
    /\ backlog' = [backlog EXCEPT ![r] = Tail(@)]
    /\ UNCHANGED <<streamState, publisher, rpc, on, box, shut, slots>>

\* subscribe(), after the last replayed frame.
Subscribe(r) ==
    /\ rpc[r] = "opened" /\ backlog[r] = <<>>
    /\ rpc' = [rpc EXCEPT ![r] = "live"]
    /\ attached' = [attached EXCEPT ![on[r]] = @ \cup {r}]
    /\ idleFor' = [idleFor EXCEPT ![on[r]] = 0]
    /\ UNCHANGED <<registry, owner, sring, snext, quietFor, publisher, on, box, shut, backlog,
                   resumeAt, written, slots>>

\* _remove_subscriber, through the end of the iterator.
Detach(r) ==
    LET i == on[r] IN
    /\ attached' = [attached EXCEPT ![i] = @ \ {r}]
    /\ idleFor' = IF attached[i] \ {r} = {} THEN [idleFor EXCEPT ![i] = 0] ELSE idleFor
    /\ UNCHANGED <<registry, owner, sring, snext, quietFor>>

\* A plausible bug: released by the body and again by the background task.
ReleaseTwice == slots' = IF slots > 1 THEN slots - 2 ELSE 0

\* _release_slot: once for a request, however often it is called.
ReleaseSlot == slots' = IF slots > 0 THEN slots - 1 ELSE 0

\* The body ends; what only the request referred to is gone.
Leave(r) ==
    /\ IF rpc[r] \in {"live", "sending"} THEN Detach(r) ELSE UNCHANGED streamState
    /\ ReleaseSlot
    /\ rpc' = [rpc EXCEPT ![r] = "off"]
    /\ on' = [on EXCEPT ![r] = 0]
    /\ box' = [box EXCEPT ![r] = <<>>]
    /\ shut' = [shut EXCEPT ![r] = FALSE]
    /\ backlog' = [backlog EXCEPT ![r] = <<>>]
    /\ written' = [written EXCEPT ![r] = Sentinel]
    /\ UNCHANGED <<publisher, resumeAt>>

\* queue.get() returns a frame, which is written.  The sentinel is never reached:
\* the terminal envelope is ahead of it and ends the body.
Receive(r) ==
    /\ rpc[r] = "live" /\ box[r] # <<>>
    /\ Write(r, Head(box[r]))
    /\ box' = [box EXCEPT ![r] = Tail(@)]
    /\ rpc' = [rpc EXCEPT ![r] = "sending"]
    /\ UNCHANGED <<streamState, publisher, on, shut, backlog, slots>>

\* A plausible bug: without "sub.closed and sub.queue.empty()".
OverUnlessFull(r) == written[r].kind = "overrun"

\* The last look of _iterate and of the body before they wait again.
Over(r) == written[r].kind = "overrun" \/ (shut[r] /\ box[r] = <<>>)

Sent(r) ==
    /\ rpc[r] = "sending"
    /\ \/ /\ Over(r) /\ Leave(r)
       \/ /\ ~Over(r)
          /\ rpc' = [rpc EXCEPT ![r] = "live"]
          /\ UNCHANGED <<streamState, publisher, on, box, shut, backlog, resumeAt, written, slots>>

\* wait_for() times out: it cancels __anext__, which ends the iterator; the body
\* writes the comment and will ask the iterator again.
Keepalive(r) ==
    /\ rpc[r] = "live" /\ box[r] = <<>>
    /\ Detach(r)
    /\ rpc' = [rpc EXCEPT ![r] = "kept"]
    /\ UNCHANGED <<publisher, on, box, shut, backlog, resumeAt, written, slots>>

\* An iterator that has ended raises StopAsyncIteration.
Stopped(r) ==
    /\ rpc[r] = "kept"
    /\ Leave(r)

\* The client goes; a body that was never started is left to the background task.
Disconnect(r) ==
    /\ rpc[r] # "off"
    /\ Leave(r)

SSInit ==
    /\ registry = <<>> /\ owner = <<>> /\ sring = <<>> /\ snext = <<>>
    /\ attached = <<>> /\ idleFor = <<>> /\ quietFor = <<>>
    /\ publisher = [s \in StreamSessions |-> 0]
    /\ rpc = [r \in Readers |-> "off"]
    /\ on = [r \in Readers |-> 0]
    /\ box = [r \in Readers |-> <<>>]
    /\ shut = [r \in Readers |-> FALSE]
    /\ backlog = [r \in Readers |-> <<>>]
    /\ resumeAt = [r \in Readers |-> 0]
    /\ written = [r \in Readers |-> Sentinel]
    /\ slots = 0

SSNext ==
    \/ Sweep
    \/ STick
    \/ \E s \in StreamSessions : BeginTurn(s) \/ EndTurn(s) \/ Publish(s)
    \/ \E r \in Readers : \/ Open(r) \/ Replay(r) \/ Subscribe(r) \/ Receive(r)
                          \/ Sent(r) \/ Keepalive(r) \/ Stopped(r) \/ Disconnect(r)

\* A body task runs when its queue has something and its socket takes a frame.
SSFairness == \A r \in Readers : WF_ssvars(Receive(r)) /\ WF_ssvars(Sent(r))
SSSpec == SSInit /\ [][SSNext]_ssvars /\ SSFairness

------------------------------------------------------------------------------
(* Properties.                                                             *)

\* What a connection writes ascends: everything still owed to a reader has an id
\* above the one last written, replayed frames before live ones, so that a resume
\* from any frame neither repeats nor skips one of them.
FramesAscend ==
    \A r \in Readers : rpc[r] # "off" =>
        LET frames == [n \in 1..Len(backlog[r]) |-> Chunk(backlog[r][n])] \o box[r]
        IN  \A n \in 1..Len(frames) : frames[n] # Sentinel =>
                /\ written[r].id < frames[n].id
                /\ \A m \in 1..n - 1 : frames[m] # Sentinel => frames[m].id < frames[n].id

\* The caller's count is the number of its open connections, however each of them
\* ends, so no mix of endings locks the caller out (#1403, #1415).
SlotsExact == slots = Cardinality({r \in Readers : rpc[r] # "off"})

\* A reader that is evicted, by a full queue or with its broadcaster, is told and
\* its response ends, although its queue may have room for neither of the two
\* items that say so (#1148).
EvictedIsTold ==
    \A r \in Readers : []<>~(rpc[r] \in {"live", "sending"} /\ shut[r])

\* A connection that has not been evicted stays attached to its stream until it
\* ends, the quiet spells that keepalives bridge included.
QuietStreamStays ==
    \A r \in Readers : rpc[r] \in {"live", "sending", "kept"} =>
        r \in attached[on[r]] \/ shut[r]
=============================================================================
