------------------------------ MODULE Timeline ------------------------------
(***************************************************************************)
(* The dashboard's timeline store (clients/dashboard/src/stores/           *)
(* timeline.ts): one event stream per team member, merged into one ring    *)
(* ordered by timestamp and deduplicated by envelope id.                   *)
(*                                                                         *)
(* Each member's harness numbers its events from 1 (harness/events.py).    *)
(* A stream's reader appends what it receives to its own bounded list; a   *)
(* Vue watcher hands the new part of that list to mergeBatch, several      *)
(* events at a time when they arrive between two flushes.                  *)
(***************************************************************************)
EXTENDS Naturals, SequencesExt, FiniteSetsExt

CONSTANTS
    Members,     \* team members
    RingSize,    \* ringSize, which also bounds each reader's list
    Burst,       \* MAX_EVENTS_PER_SECOND_PER_STREAM: the most events a list
                 \*   takes before its watcher runs; further ones are dropped
    MaxId,       \* bound on the events of one member
    MaxEvents,   \* bound on the events of all members
    MaxTime      \* bound on timestamps

TimelineAssumption ==
    /\ RingSize \in Nat \ {0}
    /\ Burst \in 1..RingSize - 1
    /\ MaxId \in Nat /\ MaxEvents \in Nat /\ MaxTime \in Nat

Event == [member : Members, id : 1..MaxId, ts : 1..MaxTime]

VARIABLES
    sent,      \* a member's events so far: their timestamps, indexed by id
    open,      \* members with a stream (agentStreams)
    list,      \* stream.events of a member, as ids
    cursor,    \* lastSeenEnvelopeId, 0 for ""
    behind,    \* events in the list that the watcher has not seen
    events,    \* the merged ring
    seenIds,
    merged,    \* history: the events the readers' lists held when a watcher ran
    trimmed    \* history: the events trimRing has dropped

vars == <<sent, open, list, cursor, behind, events, seenIds, merged, trimmed>>

TypeOK ==
    /\ sent \in [Members -> Seq(1..MaxTime)]
    /\ \A m \in Members : Len(sent[m]) <= MaxId
    /\ open \in SUBSET Members
    /\ list \in [Members -> Seq(1..MaxId)]
    /\ cursor \in [Members -> 0..MaxId]
    /\ behind \in [Members -> 0..Burst]
    /\ events \in Seq(Event) /\ Len(events) <= RingSize
    /\ seenIds \in SUBSET (1..MaxId)
    /\ merged \in SUBSET Event
    /\ trimmed \in SUBSET Event

Init ==
    /\ sent = [m \in Members |-> <<>>]
    /\ open = {}
    /\ list = [m \in Members |-> <<>>]
    /\ cursor = [m \in Members |-> 0]
    /\ behind = [m \in Members |-> 0]
    /\ events = <<>>
    /\ seenIds = {}
    /\ merged = {}
    /\ trimmed = {}

Ev(m, i) == [member |-> m, id |-> i, ts |-> sent[m][i]]

\* The last n elements of s.
Newest(s, n) == IF Len(s) <= n THEN s ELSE SubSeq(s, Len(s) - n + 1, Len(s))

-----------------------------------------------------------------------------
(* The member's harness and its stream *)

\* An event is published; clocks do not run backwards within a harness.
Publish(m, t) ==
    /\ Len(sent[m]) < MaxId
    /\ MapThenSumSet(LAMBDA x : Len(sent[x]), Members) < MaxEvents
    /\ sent[m] # <<>> => t >= Last(sent[m])
    /\ sent' = [sent EXCEPT ![m] = Append(@, t)]
    /\ UNCHANGED <<open, list, cursor, behind, events, seenIds, merged, trimmed>>

\* pushEvent: the next event reaches the reader's list.  A new connection
\* resumes anywhere in what the harness still has (Last-Event-ID, an overrun,
\* a lost ring); the watcher has run by then, for reconnecting takes at least
\* MIN_BACKOFF_MS.
Receive(m) ==
    /\ m \in open
    /\ behind[m] < Burst
    /\ \E i \in 1..Len(sent[m]) :
          /\ behind[m] > 0 => i = Last(list[m]) + 1
          /\ list' = [list EXCEPT ![m] = Newest(Append(@, i), RingSize)]
    /\ behind' = [behind EXCEPT ![m] = @ + 1]
    /\ UNCHANGED <<sent, open, cursor, events, seenIds, merged, trimmed>>

-----------------------------------------------------------------------------
(* mergeBatch *)

\* insertIndexByTs: the binary search for the place after the events that are
\* not newer than time t.
insertIndexByTs(evs, t) ==
    LET find[r \in (0..Len(evs)) \X (0..Len(evs))] ==
            LET lo == r[1]
                hi == r[2]
                mid == (lo + hi) \div 2
            IN  IF lo >= hi THEN lo
                ELSE IF evs[mid + 1].ts <= t THEN find[<<mid + 1, hi>>]
                ELSE find[<<lo, mid>>]
    IN  find[<<0, Len(evs)>>]

\* Mutant of Place: the event is always appended.
PlaceLast(evs, e, append) == Append(evs, e)

\* At the end when the whole batch is at least as new as the ring, otherwise
\* where the search ends.
Place(evs, e, append) ==
    IF append THEN Append(evs, e) ELSE InsertAt(evs, insertIndexByTs(evs, e.ts) + 1, e)

\* Mutant of Merge: no test of seenIds.
MergeAll(st, e, append) ==
    [evs |-> Place(st.evs, e, append), ids |-> st.ids \cup {e.id}]

\* One event of the batch.
Merge(st, e, append) ==
    IF e.id \in st.ids THEN st
    ELSE [evs |-> Place(st.evs, e, append), ids |-> st.ids \cup {e.id}]

AllAppend(batch) ==
    events # <<>> => \A i \in 1..Len(batch) : batch[i].ts >= Last(events).ts

\* Mutants of Trim: one event too many is kept; the ids of dropped
\* events stay in seenIds.
TrimLate(st) == [evs |-> Newest(st.evs, RingSize + 1), ids |-> st.ids]

TrimKeepsIds(st) == [evs |-> Newest(st.evs, RingSize), ids |-> st.ids]

\* trimRing: drop the oldest events and forget their ids.
Trim(st) ==
    LET kept == Newest(st.evs, RingSize)
    IN  [evs |-> kept,
         ids |-> st.ids \ {st.evs[i].id : i \in 1..Len(st.evs) - Len(kept)}]

\* Mutant of Fresh: the slice starts one event too far.
FreshShifted(m) ==
    LET at == {i \in 1..Len(list[m]) : list[m][i] = cursor[m]}
    IN  IF at = {} THEN list[m] ELSE SubSeq(list[m], Min(at) + 2, Len(list[m]))

\* The part of the list after the cursor, or all of it when the cursor's event
\* has left the list (#1242).
Fresh(m) ==
    LET at == {i \in 1..Len(list[m]) : list[m][i] = cursor[m]}
    IN  IF at = {} THEN list[m] ELSE SubSeq(list[m], Min(at) + 1, Len(list[m]))

\* The watcher of a member's stream runs.
Flush(m) ==
    /\ m \in open
    /\ list[m] # <<>>
    /\ LET batch == [i \in 1..Len(Fresh(m)) |-> Ev(m, Fresh(m)[i])]
           full == FoldLeft(LAMBDA acc, e : Merge(acc, e, AllAppend(batch)),
                            [evs |-> events, ids |-> seenIds], batch)
           st == Trim(full)
       IN  /\ events' = st.evs
           /\ seenIds' = st.ids
           /\ merged' = merged \cup {Ev(m, i) : i \in Range(list[m])}
           /\ trimmed' = trimmed \cup (Range(full.evs) \ Range(st.evs))
    /\ cursor' = [cursor EXCEPT ![m] = Last(list[m])]
    /\ behind' = [behind EXCEPT ![m] = 0]
    /\ UNCHANGED <<sent, open, list>>

-----------------------------------------------------------------------------
\* openStreamFor and closeStreamFor, as the team directory changes.
Join(m) ==
    /\ m \notin open
    /\ open' = open \cup {m}
    /\ list' = [list EXCEPT ![m] = <<>>]
    /\ cursor' = [cursor EXCEPT ![m] = 0]
    /\ behind' = [behind EXCEPT ![m] = 0]
    /\ UNCHANGED <<sent, events, seenIds, merged, trimmed>>

\* What was merged stays in the ring.
Leave(m) ==
    /\ m \in open
    /\ open' = open \ {m}
    /\ UNCHANGED <<sent, list, cursor, behind, events, seenIds, merged, trimmed>>

Next ==
    \E m \in Members :
        \/ \E t \in 1..MaxTime : Publish(m, t)
        \/ Receive(m) \/ Flush(m) \/ Join(m) \/ Leave(m)

Spec == Init /\ [][Next]_vars

-----------------------------------------------------------------------------
(* The members' envelopes are merged "into a single authoritative ring     *)
(* ordered by `ts`".                                                       *)
OrderedByTime ==
    \A i, j \in 1..Len(events) : i < j => events[i].ts <= events[j].ts

(* No event that was trimmed shares its number with one another member's   *)
(* watcher has found.                                                      *)
NoTwinTrimmed == \A x \in trimmed, e \in merged : x.id = e.id => x.member = e.member

(* The merged ring is ordered by timestamp, however late a member's events *)
(* arrive and however often they are replayed, until a number that two     *)
(* members have used leaves it.  Then an event that number kept out can    *)
(* enter in a batch that is not ordered, and the test for appending the    *)
(* batch looks at the end of the ring only.                                *)
OrderedUnlessTwin == NoTwinTrimmed => OrderedByTime

(* No event is shown twice, also when a member leaves and comes back and   *)
(* its stream is replayed.                                                 *)
ShownOnce ==
    \A i, j \in 1..Len(events) :
        events[i].member = events[j].member /\ events[i].id = events[j].id => i = j

(* The dedup set holds exactly the ids in the ring: it stays as small as   *)
(* the ring (#1605) and never forgets an event that is still shown.        *)
SeenIsTheRing == seenIds = {events[i].id : i \in 1..Len(events)}

(* An event its watcher has found is in the ring until it is trimmed, or   *)
(* else another member's event of the same number was there before it.     *)
LostOnlyToTwin ==
    LET shown == Range(events) \cup trimmed
    IN  \A e \in merged \ shown : \E x \in shown : x.id = e.id /\ x.member # e.member

(* The members' envelopes are merged "into a single authoritative ring":   *)
(* an event its watcher has found is in the ring until it is trimmed.      *)
NothingDropped == merged \subseteq Range(events) \cup trimmed
=============================================================================
