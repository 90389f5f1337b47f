---------------------------- MODULE OpenAISessions ----------------------------
(***************************************************************************)
(* backends/openai: the LRU of sessions (executor._track_session), their   *)
(* rows in the session database, and the browser contexts of the computer  *)
(* tool (computer.BrowserPool), through the life of a request (run,        *)
(* _run_inner, _build_tools).                                              *)
(*                                                                         *)
(* Requests of one session may overlap.  A computer is a session and a     *)
(* number: the pool makes a new one when it has none for the session.  A   *)
(* computer that was closed opens a new context on its next operation.     *)
(***************************************************************************)
EXTENDS Naturals, Sequences, SequencesExt, FiniteSetsExt

CONSTANTS
    OReqs,
    OSessionOf,        \* the session of a request
    OMaxSessions,      \* MAX_SESSIONS
    MaxContexts,       \* COMPUTER_MAX_CONTEXTS
    Browsing           \* the requests whose model has the computer tool

(* Both limits hold at least one (MAX_SESSIONS is clamped; a limit of 0    *)
(* contexts stands for none and is not modelled).  "free" is no request.   *)
OAAssumption ==
    /\ IsFiniteSet(OReqs) /\ "free" \notin OReqs
    /\ OMaxSessions \in Nat \ {0} /\ MaxContexts \in Nat \ {0}

VARIABLES
    opc,               \* where a request is
    olru,              \* sessions, least recently used first
    sessionsLock,      \* the request that holds _sessions_lock, or "free"
    evicting,          \* the session _track_session is evicting
    rows,              \* sessions with a row in the database
    pool,              \* BrowserPool._computers: sessions, longest untouched first
    made,              \* computers made for a session so far
    held,              \* the computer of a request's ComputerTool
    contexts,          \* computers with an open context
    closing,           \* computers being closed
    failedOnce,        \* history: sessions with a failed request
    reused             \* history: a closed computer was used again

oavars == <<opc, olru, sessionsLock, evicting, rows, pool, made, held, contexts, closing,
            failedOnce, reused>>

OSessions == {OSessionOf[r] : r \in OReqs}
Computers == OSessions \X (0..Cardinality(OReqs))
Current(s) == <<s, made[s]>>
NoComputer == <<>>

OAInit ==
    /\ opc = [r \in OReqs |-> "idle"]
    /\ olru = <<>>
    /\ sessionsLock = "free"
    /\ evicting = "none"
    /\ rows = {}
    /\ pool = <<>>
    /\ made = [s \in OSessions |-> 0]
    /\ held = [r \in OReqs |-> NoComputer]
    /\ contexts = {}
    /\ closing = {}
    /\ failedOnce = {}
    /\ reused = FALSE

-----------------------------------------------------------------------------
(* BrowserPool *)

\* acquire: the session's computer, or a new one after evicting the computers
\* that were not touched for longest.
Acquire(s) ==
    IF Contains(pool, s)
      THEN /\ pool' = Append(RemoveFirst(pool, s), s)
           /\ UNCHANGED <<made, closing>>
      ELSE LET over == IF Len(pool) >= MaxContexts THEN Len(pool) - MaxContexts + 1 ELSE 0
           IN  /\ pool' = Append(SubSeq(pool, over + 1, Len(pool)), s)
               /\ made' = [made EXCEPT ![s] = @ + 1]
               /\ closing' = closing \cup {Current(pool[k]) : k \in 1..over}

\* Mutant of Release: the computer is dropped and not closed.
ReleaseDrops(s) ==
    /\ pool' = RemoveFirst(pool, s)
    /\ UNCHANGED closing

\* release, and what the idle sweeper does: drop the computer and close it.
Release(s) ==
    /\ pool' = RemoveFirst(pool, s)
    /\ closing' = IF Contains(pool, s) THEN closing \cup {Current(s)} ELSE closing

\* The sweeper.  Only acquire touches a computer, so that one in use may be idle.
Sweep(s) ==
    /\ Contains(pool, s)
    /\ Release(s)
    /\ UNCHANGED <<opc, olru, sessionsLock, evicting, rows, made, held, contexts, failedOnce, reused>>

\* PlaywrightComputer.close ends.
CloseContext(c) ==
    /\ c \in closing
    /\ closing' = closing \ {c}
    /\ contexts' = contexts \ {c}
    /\ UNCHANGED <<opc, olru, sessionsLock, evicting, rows, pool, made, held, failedOnce, reused>>

\* An operation of the computer tool: _ensure_page opens a context if there is none.
UsePage(r) ==
    /\ opc[r] = "running"
    /\ held[r] # NoComputer
    /\ contexts' = contexts \cup {held[r]}
    /\ reused' = (reused \/ ~(Contains(pool, held[r][1]) /\ Current(held[r][1]) = held[r]))
    /\ UNCHANGED <<opc, olru, sessionsLock, evicting, rows, pool, made, held, closing, failedOnce>>

-----------------------------------------------------------------------------
(* _run_inner *)

\* The request starts: it looks its session up under the lock, then run_query
\* builds the tools.
Begin(r) ==
    /\ opc[r] = "idle" /\ sessionsLock = "free"
    /\ opc' = [opc EXCEPT ![r] = "running"]
    /\ \/ /\ r \in Browsing
          /\ Acquire(OSessionOf[r])
          /\ held' = [held EXCEPT ![r] = <<OSessionOf[r], made'[OSessionOf[r]]>>]
       \/ /\ r \notin Browsing
          /\ UNCHANGED <<pool, made, closing, held>>
    /\ UNCHANGED <<olru, sessionsLock, evicting, rows, contexts, failedOnce, reused>>

\* The SDK stores items of the session (external).
SaveItems(r) ==
    /\ opc[r] = "running"
    /\ rows' = rows \cup {OSessionOf[r]}
    /\ UNCHANGED <<opc, olru, sessionsLock, evicting, pool, made, held, contexts, closing, failedOnce, reused>>

\* run_query returns, or the token budget is exceeded: the session is tracked.
Answered(r) ==
    /\ opc[r] = "running"
    /\ opc' = [opc EXCEPT ![r] = "track"]
    /\ held' = [held EXCEPT ![r] = NoComputer]
    /\ UNCHANGED <<olru, sessionsLock, evicting, rows, pool, made, contexts, closing, failedOnce, reused>>

\* Any other exception, a cancellation included: the session is left as it is.
Fails(r) ==
    /\ opc[r] = "running"
    /\ opc' = [opc EXCEPT ![r] = "done"]
    /\ held' = [held EXCEPT ![r] = NoComputer]
    /\ failedOnce' = failedOnce \cup {OSessionOf[r]}
    /\ UNCHANGED <<olru, sessionsLock, evicting, rows, pool, made, contexts, closing, reused>>

\* TASK_TIMEOUT_SECONDS: the run is cancelled and its session is to be forgotten.
TimesOut(r) ==
    /\ opc[r] = "running"
    /\ opc' = [opc EXCEPT ![r] = "lapse"]
    /\ held' = [held EXCEPT ![r] = NoComputer]
    /\ UNCHANGED <<olru, sessionsLock, evicting, rows, pool, made, contexts, closing, failedOnce, reused>>

\* Under the lock: the session leaves the LRU.
Forget(r) ==
    /\ opc[r] = "lapse"
    /\ sessionsLock = "free"
    /\ sessionsLock' = r
    /\ olru' = RemoveFirst(olru, OSessionOf[r])
    /\ opc' = [opc EXCEPT ![r] = "drop"]
    /\ evicting' = OSessionOf[r]
    /\ UNCHANGED <<rows, pool, made, held, contexts, closing, failedOnce, reused>>

\* Mutant of DeleteRow: the row stays.
DeleteRowNot(r) ==
    /\ opc[r] \in {"drop", "evict"}
    /\ Release(evicting)
    /\ opc' = [opc EXCEPT ![r] = IF @ = "drop" THEN "dropped" ELSE "evicted"]
    /\ UNCHANGED <<olru, rows, sessionsLock, evicting, made, held, contexts, failedOnce, reused>>

\* Under the lock, for a timeout and for an eviction: the row is deleted in a
\* thread, then the computer is released.  The deletion may fail.
DeleteRow(r) ==
    /\ opc[r] \in {"drop", "evict"}
    /\ \/ rows' = rows \ {evicting} /\ UNCHANGED failedOnce
       \/ UNCHANGED rows /\ failedOnce' = failedOnce \cup {evicting}
    /\ Release(evicting)
    /\ opc' = [opc EXCEPT ![r] = IF @ = "drop" THEN "dropped" ELSE "evicted"]
    /\ UNCHANGED <<olru, sessionsLock, evicting, made, held, contexts, reused>>

\* Mutant of Unlock: the lock is not given back.
UnlockNot == UNCHANGED sessionsLock

Unlock == sessionsLock' = "free"

Forgotten(r) ==
    /\ opc[r] = "dropped"
    /\ Unlock
    /\ evicting' = "none"
    /\ opc' = [opc EXCEPT ![r] = "done"]
    /\ UNCHANGED <<olru, rows, pool, made, held, contexts, closing, failedOnce, reused>>

\* Mutant of Evicts: the limit is checked after the insertion.
EvictsLate(s) == ~Contains(olru, s) /\ Len(olru) > OMaxSessions

Evicts(s) == ~Contains(olru, s) /\ Len(olru) >= OMaxSessions

\* _track_session: the session becomes the most recent; a new one in a full LRU
\* first pushes out the oldest, with its row and its browser context.
Track(r) ==
    LET s == OSessionOf[r]
    IN  /\ opc[r] = "track"
        /\ sessionsLock = "free"
        /\ IF Evicts(s)
             THEN /\ sessionsLock' = r
                  /\ evicting' = Head(olru)
                  /\ olru' = Tail(olru)
                  /\ opc' = [opc EXCEPT ![r] = "evict"]
             ELSE /\ olru' = Append(RemoveFirst(olru, s), s)
                  /\ opc' = [opc EXCEPT ![r] = "done"]
                  /\ UNCHANGED <<sessionsLock, evicting>>
        /\ UNCHANGED <<rows, pool, made, held, contexts, closing, failedOnce, reused>>

Evicted(r) ==
    /\ opc[r] = "evicted"
    /\ Unlock
    /\ evicting' = "none"
    /\ olru' = Append(olru, OSessionOf[r])
    /\ opc' = [opc EXCEPT ![r] = "done"]
    /\ UNCHANGED <<rows, pool, made, held, contexts, closing, failedOnce, reused>>

OANext ==
    \/ \E r \in OReqs : \/ Begin(r) \/ SaveItems(r) \/ UsePage(r) \/ Answered(r) \/ Fails(r)
                        \/ TimesOut(r) \/ Forget(r) \/ DeleteRow(r) \/ Forgotten(r)
                        \/ Track(r) \/ Evicted(r)
    \/ \E s \in OSessions : Sweep(s)
    \/ \E c \in Computers : CloseContext(c)

\* The event loop runs ready tasks and threads end.
OAFairness ==
    \A r \in OReqs : /\ WF_oavars(Forget(r)) /\ WF_oavars(Track(r))
                     /\ WF_oavars(DeleteRow(r)) /\ WF_oavars(Forgotten(r)) /\ WF_oavars(Evicted(r))

OASpec == OAInit /\ [][OANext]_oavars /\ OAFairness

-----------------------------------------------------------------------------
OATypeOK ==
    /\ opc \in [OReqs -> {"idle", "running", "track", "lapse", "drop", "dropped", "evict", "evicted", "done"}]
    /\ IsInjective(olru) /\ IsInjective(pool)
    /\ rows \subseteq OSessions
    /\ contexts \subseteq Computers /\ closing \subseteq Computers

(* "the invariant len(sessions) <= MAX_SESSIONS": never more sessions than *)
(* the limit nor more pooled computers than theirs, with eviction and      *)
(* timeout cleanup suspended inside the lock.                              *)
LimitsHold == Len(olru) <= OMaxSessions /\ Len(pool) <= MaxContexts

(* The database does not grow as sessions come and go (#415): a row is of  *)
(* a session in the LRU, or of one a request is at work on, or of one a    *)
(* request failed in or whose deletion failed.                             *)
RowsReclaimed ==
    rows \subseteq (ToSet(olru) \cup {evicting} \cup failedOnce
                      \cup {OSessionOf[r] : r \in {q \in OReqs : opc[q] \notin {"idle", "done"}}})

(* A browser context outlives its place in the pool only while it is being *)
(* closed, unless a request went on using a computer that was evicted or   *)
(* swept under it.                                                         *)
ContextsReclaimed ==
    ~reused => \A c \in contexts : c \in closing \/ (Contains(pool, c[1]) /\ Current(c[1]) = c)

(* A request that is done with its model run ends: nobody keeps the lock.  *)
CleanupEnds == \A r \in OReqs : []<>(opc[r] \in {"idle", "running", "done"})

(* COMPUTER_MAX_CONTEXTS is a "hard cap on concurrent live contexts", but  *)
(* for those that are being closed.                                        *)
ContextsCapped == Cardinality(contexts \ closing) <= MaxContexts
=============================================================================
