--------------------------- MODULE GeminiSessions ---------------------------
(***************************************************************************)
(* backends/gemini/executor.py: the life of a session.  A request takes    *)
(* the reference-counted lock of its session, resumes the history file     *)
(* (or starts fresh when the last save failed), streams the model's        *)
(* answer, saves the new history through a temporary file written on a     *)
(* worker thread, and promotes the session in the LRU, which may evict     *)
(* another session and remove that one's file in a background task.        *)
(*                                                                         *)
(* The event loop is single threaded: one action is the code between two   *)
(* awaits.  Work on worker threads (the write of the temporary file, the   *)
(* removal of an evicted file) takes effect in an action of its own.  A    *)
(* history is the sequence of the requests whose turns it holds; trimming  *)
(* is in HistoryTrim.                                                      *)
(***************************************************************************)
EXTENDS Naturals, Sequences, FiniteSets, SequencesExt

CONSTANTS Reqs,        \* requests, each served once
          SessionOf,   \* the session of a request
          MaxSessions, \* MAX_SESSIONS
          EvictMax,    \* _EVICT_REMOVE_TASKS_MAX
          Retries,     \* _SAVE_HISTORY_MAX_RETRIES
          Before,      \* the sessions the LRU holds at the start, oldest first
          NoOne        \* the absent request or lock

ASSUME GeminiAssumption == NoOne \notin Reqs

Sids == {SessionOf[r] : r \in Reqs}

VARIABLES pc,      \* where request r is
          lru,     \* _sessions, oldest first
          entry,   \* _session_locks: the lock object of a session, named after the request that made it
          lockOf,  \* the lock object a request looked up
          refs,    \* refcount of a lock object
          owner,   \* the request holding a lock object
          file,    \* the history file of a session, empty when absent or unreadable
          hist,    \* chat.history of a request
          failed,  \* _history_save_failed
          epoch,   \* _session_cleanup_epoch (absent is 0)
          saving,  \* _history_write_done: the request whose save is announced
          exp,     \* the epoch a save captured
          tries,   \* failed attempts of a save
          evict,   \* _EVICT_REMOVE_TASKS
          orphan,  \* requests cancelled while their thread was writing
          told,    \* ghost: the last turn answered since the session's last reset
          gap,     \* ghost: sessions that resumed a history without that turn
          late     \* ghost: saves overtaken by a clean-up of their session

gsvars == <<pc, lru, entry, lockOf, refs, owner, file, hist, failed, epoch, saving,
            exp, tries, evict, orphan, told, gap, late>>

S(r) == SessionOf[r]
Waiting  == {"queued", "load", "stream", "write", "backoff", "trace"}
Inside   == {"load", "stream", "write", "backoff"}      \* holding the session lock
Saving   == {"write", "backoff"}
Pcs == Waiting \cup {"new", "tracked", "budget", "error", "timedout", "timeoutWait", "done"}

\* A process that has served the sessions in Before.
GSInit ==
    /\ pc = [r \in Reqs |-> "new"]
    /\ lru = Before
    /\ entry = [s \in Sids |-> NoOne]
    /\ lockOf = [r \in Reqs |-> NoOne]
    /\ refs = [r \in Reqs |-> 0]
    /\ owner = [r \in Reqs |-> NoOne]
    /\ file = [s \in Sids |-> IF s \in Range(lru) THEN <<NoOne>> ELSE <<>>]
    /\ hist = [r \in Reqs |-> <<>>]
    /\ failed = {}
    /\ epoch = [s \in Sids |-> 0]
    /\ saving = [s \in Sids |-> NoOne]
    /\ exp = [r \in Reqs |-> 0]
    /\ tries = [r \in Reqs |-> 0]
    /\ evict = {}
    /\ orphan = {}
    /\ told = [s \in Sids |-> NoOne]
    /\ gap = {}
    /\ late = {}

(***************************************************************************)
(* The reference-counted lock.                                             *)
(***************************************************************************)

\* _acquire_session_lock: look the lock up, make it if absent, register.
Begin(r) ==
    /\ pc[r] = "new"
    /\ LET l == IF entry[S(r)] = NoOne THEN r ELSE entry[S(r)]
       IN /\ entry' = [entry EXCEPT ![S(r)] = l]
          /\ lockOf' = [lockOf EXCEPT ![r] = l]
          /\ refs' = [refs EXCEPT ![l] = @ + 1]
    /\ pc' = [pc EXCEPT ![r] = "queued"]
    /\ UNCHANGED <<lru, owner, file, hist, failed, epoch, saving, exp, tries, evict, orphan, told, gap, late>>

\* async with entry.lock: a session whose save failed starts fresh and its
\* stale file is removed, any other loads its file on a worker thread.
Enter(r) ==
    /\ pc[r] = "queued"
    /\ owner[lockOf[r]] = NoOne
    /\ owner' = [owner EXCEPT ![lockOf[r]] = r]
    /\ IF S(r) \in failed
       THEN /\ pc' = [pc EXCEPT ![r] = "stream"]
            /\ file' = [file EXCEPT ![S(r)] = <<>>]
            /\ told' = [told EXCEPT ![S(r)] = NoOne]
       ELSE /\ pc' = [pc EXCEPT ![r] = "load"]
            /\ UNCHANGED <<file, told>>
    /\ UNCHANGED <<lru, entry, lockOf, refs, hist, failed, epoch, saving, exp, tries, evict, orphan, gap, late>>

\* Mutant: the last reference does not take the entry with it.
DropRefLeaks(r, e) ==
    LET l == e[S(r)] IN
    IF l = NoOne THEN <<refs, e>>
    ELSE <<[refs EXCEPT ![l] = @ - 1],
           IF refs[l] <= 0 THEN [e EXCEPT ![S(r)] = NoOne] ELSE e>>

\* Leaving run_query: the lock is released if it is held, and the
\* reference is dropped; the entry goes when no reference is left.
DropRef(r, e) ==
    LET l == e[S(r)] IN
    IF l = NoOne THEN <<refs, e>>
    ELSE <<[refs EXCEPT ![l] = @ - 1],
           IF refs[l] <= 1 THEN [e EXCEPT ![S(r)] = NoOne] ELSE e>>

Unlocked(r) == IF owner[lockOf[r]] = r THEN [owner EXCEPT ![lockOf[r]] = NoOne] ELSE owner

LeaveQuery(r) ==
    /\ lockOf' = [lockOf EXCEPT ![r] = NoOne]
    /\ owner' = Unlocked(r)
    /\ refs' = DropRef(r, entry)[1]
    /\ entry' = DropRef(r, entry)[2]

\* _load_history in its thread: an absent or unreadable file is no history.
Load(r) ==
    /\ pc[r] = "load"
    /\ hist' = [hist EXCEPT ![r] = file[S(r)]]
    /\ gap' = IF told[S(r)] # NoOne /\ told[S(r)] \notin Range(hist'[r])
              THEN gap \cup {S(r)} ELSE gap
    /\ pc' = [pc EXCEPT ![r] = "stream"]
    /\ UNCHANGED <<lru, entry, lockOf, refs, owner, file, failed, epoch, saving, exp, tries, evict, orphan, told, late>>

(***************************************************************************)
(* The turn.                                                               *)
(***************************************************************************)

\* The stream ended: the epoch is captured, the save announced, and the
\* temporary file is being written on a worker thread.
StreamDone(r) ==
    /\ pc[r] = "stream"
    /\ hist' = [hist EXCEPT ![r] = Append(@, r)]
    /\ exp' = [exp EXCEPT ![r] = epoch[S(r)]]
    /\ saving' = [saving EXCEPT ![S(r)] = r]
    /\ pc' = [pc EXCEPT ![r] = "write"]
    /\ UNCHANGED <<lru, entry, lockOf, refs, owner, file, failed, epoch, tries, evict, orphan, told, gap, late>>

\* The budget or the history cap is exceeded, or the SDK raises: the history
\* is not saved and the session is marked, so that the next request starts
\* fresh.
StreamAborts(r) ==
    /\ pc[r] = "stream"
    /\ failed' = failed \cup {S(r)}
    /\ \E to \in {"budget", "error"} : pc' = [pc EXCEPT ![r] = to]
    /\ LeaveQuery(r)
    /\ hist' = [hist EXCEPT ![r] = <<>>]
    /\ UNCHANGED <<lru, file, epoch, saving, exp, tries, evict, orphan, told, gap, late>>

\* _get_client raises before the stream: nothing was sent, nothing is marked.
NoClient(r) ==
    /\ pc[r] = "stream"
    /\ pc' = [pc EXCEPT ![r] = "error"]
    /\ LeaveQuery(r)
    /\ hist' = [hist EXCEPT ![r] = <<>>]
    /\ UNCHANGED <<lru, file, failed, epoch, saving, exp, tries, evict, orphan, told, gap, late>>

(***************************************************************************)
(* _save_history.                                                          *)
(***************************************************************************)

\* The finally of a save: the mapping is cleared if it is still this save's.
\* The locals of the turn go with it.
SaveOver(r) ==
    /\ saving' = IF saving[S(r)] = r THEN [saving EXCEPT ![S(r)] = NoOne] ELSE saving
    /\ hist' = [hist EXCEPT ![r] = <<>>]
    /\ exp' = [exp EXCEPT ![r] = 0]
    /\ tries' = [tries EXCEPT ![r] = 0]
    /\ late' = late \ {r}

EpochHolds(r) == epoch[S(r)] = exp[r]

\* Back on the loop with the temporary file written: the epoch is checked
\* again and the file replaced.  A thread that a cancelled save of the same
\* session left behind may still be writing to the same temporary file.
Publish(r) ==
    /\ pc[r] = "write"
    /\ EpochHolds(r)
    /\ LET rival == \E q \in orphan : S(q) = S(r) IN
       /\ \/ file' = [file EXCEPT ![S(r)] = hist[r]]
          \/ rival /\ file' = [file EXCEPT ![S(r)] = <<>>]
       /\ told' = [told EXCEPT ![S(r)] = IF rival THEN NoOne ELSE r]
    /\ failed' = failed \ {S(r)}
    /\ SaveOver(r)
    /\ owner' = Unlocked(r)
    /\ pc' = [pc EXCEPT ![r] = "trace"]
    /\ UNCHANGED <<lru, entry, lockOf, refs, epoch, evict, orphan, gap>>

\* The save gives up, because the epoch moved on or the retries are
\* exhausted: the answer still goes to the caller, the session is marked.
ForgetUnsaved(s) == UNCHANGED failed   \* mutant: as if the save had succeeded
MarkUnsaved(s) == failed' = failed \cup {s}

GiveUp(r) ==
    /\ pc[r] = "write"
    /\ ~EpochHolds(r) \/ tries[r] + 1 = Retries
    /\ MarkUnsaved(S(r))
    /\ told' = [told EXCEPT ![S(r)] = r]
    /\ SaveOver(r)
    /\ owner' = Unlocked(r)
    /\ pc' = [pc EXCEPT ![r] = "trace"]
    /\ UNCHANGED <<lru, entry, lockOf, refs, file, epoch, evict, orphan, gap>>

WriteFails(r) ==
    /\ pc[r] = "write"
    /\ tries[r] + 1 < Retries
    /\ tries' = [tries EXCEPT ![r] = @ + 1]
    /\ pc' = [pc EXCEPT ![r] = "backoff"]
    /\ UNCHANGED <<lru, entry, lockOf, refs, owner, file, hist, failed, epoch, saving, exp, evict, orphan, told, gap, late>>

BackoffOver(r) ==
    /\ pc[r] = "backoff"
    /\ pc' = [pc EXCEPT ![r] = "write"]
    /\ UNCHANGED <<lru, entry, lockOf, refs, owner, file, hist, failed, epoch, saving, exp, tries, evict, orphan, told, gap, late>>

OrphanEnds(r) ==
    /\ r \in orphan
    /\ orphan' = orphan \ {r}
    /\ UNCHANGED <<pc, lru, entry, lockOf, refs, owner, file, hist, failed, epoch, saving, exp, tries, evict, told, gap, late>>

(***************************************************************************)
(* _track_session: promotion and eviction.                                 *)
(***************************************************************************)

\* Mutant of Full: > for >=.
FullLate(s) == s \notin Range(lru) /\ Len(lru) > MaxSessions

Full(s) == s \notin Range(lru) /\ Len(lru) >= MaxSessions

\* What becomes of an evicted session's file: a task removes it, unless too
\* many tasks are pending and no save is, when it is removed on the spot.
RemovedNow(e) == Cardinality(evict) >= EvictMax /\ saving[e] = NoOne

EvictTask(r, e) ==
    [sid |-> e, by |-> r, at |-> pc[r],
     st |-> IF Cardinality(evict) >= EvictMax THEN "wait" ELSE "start"]

\* Mutant: the lock entry of an evicted session is dropped although requests wait on it.
EvictLockInUse(e, ent) == [ent EXCEPT ![e] = NoOne]

\* The lock entry of an evicted session goes only if nobody refers to it.
EvictLock(e, ent) ==
    IF ent[e] # NoOne /\ refs[ent[e]] <= 0 THEN [ent EXCEPT ![e] = NoOne] ELSE ent

\* Saves in flight for a session that is being cleaned up.
Overtaken(s) == {q \in Reqs : S(q) = s /\ pc[q] \in Saving}

\* Promote session s on behalf of r; ent is the lock table to go on with.
Track(r, s, ent) ==
    IF ~Full(s)
    THEN /\ lru' = Append(SelectSeq(lru, LAMBDA x : x # s), s)
         /\ entry' = ent
         /\ UNCHANGED failed
         /\ UNCHANGED <<epoch, evict, file, told, late>>
    ELSE LET e == Head(lru) IN
         /\ lru' = Append(Tail(lru), s)
         /\ entry' = EvictLock(e, ent)
         /\ failed' = failed \ {e}
         /\ told' = [told EXCEPT ![e] = NoOne]
         /\ IF RemovedNow(e)
            THEN /\ file' = [file EXCEPT ![e] = <<>>]
                 /\ epoch' = [epoch EXCEPT ![e] = 0]
                 /\ UNCHANGED <<evict, late>>
            ELSE /\ evict' = evict \cup {EvictTask(r, e)}
                 /\ epoch' = [epoch EXCEPT ![e] = @ + 1]
                 /\ late' = late \cup Overtaken(e)
                 /\ UNCHANGED file

\* run_query after its lock block: promote, then drop the reference.
Promote(r) ==
    /\ pc[r] = "trace"
    /\ refs' = DropRef(r, entry)[1]
    /\ Track(r, S(r), DropRef(r, entry)[2])
    /\ lockOf' = [lockOf EXCEPT ![r] = NoOne]
    /\ pc' = [pc EXCEPT ![r] = "tracked"]
    /\ UNCHANGED <<owner, hist, saving, exp, tries, orphan, gap>>

\* _run_inner promotes again, on success and when the budget ran out.
Finish(r) ==
    /\ pc[r] \in {"tracked", "budget"}
    /\ Track(r, S(r), entry)
    /\ pc' = [pc EXCEPT ![r] = "done"]
    /\ UNCHANGED <<lockOf, refs, owner, hist, saving, exp, tries, orphan, gap>>

\* _run_inner's except Exception: the bookkeeping of a session that is not
\* in the LRU is dropped.
ErrorCleanup(r) ==
    /\ pc[r] = "error"
    /\ IF S(r) \in Range(lru) THEN UNCHANGED <<epoch, saving>>
       ELSE /\ epoch' = [epoch EXCEPT ![S(r)] = 0]
            /\ saving' = [saving EXCEPT ![S(r)] = NoOne]
    /\ pc' = [pc EXCEPT ![r] = "done"]
    /\ UNCHANGED <<lru, entry, lockOf, refs, owner, file, hist, failed, exp, tries, evict, orphan, told, gap, late>>

(***************************************************************************)
(* The request timeout.                                                    *)
(***************************************************************************)

\* Mutant: the save is shielded from the cancellation.
TimeLimitNotWriting(r) == pc[r] \in Waiting \ {"write"}
TimeLimit(r) == pc[r] \in Waiting

\* wait_for cancels run_query wherever it waits; its finally clauses run.
Cancelled(r) ==
    /\ TimeLimit(r)
    /\ LeaveQuery(r)
    /\ SaveOver(r)
    /\ orphan' = IF pc[r] = "write" THEN orphan \cup {r} ELSE orphan
    /\ pc' = [pc EXCEPT ![r] = "timedout"]
    /\ UNCHANGED <<lru, file, failed, epoch, evict, told, gap>>

\* os.remove of the file, the second bump, and the bookkeeping dropped.
TimeoutRemove(r) ==
    /\ file' = [file EXCEPT ![S(r)] = <<>>]
    /\ epoch' = [epoch EXCEPT ![S(r)] = 0]
    /\ saving' = [saving EXCEPT ![S(r)] = NoOne]
    /\ told' = [told EXCEPT ![S(r)] = NoOne]
    /\ pc' = [pc EXCEPT ![r] = "done"]

\* except TimeoutError: the session leaves the LRU, the epoch is bumped, and
\* the file goes once the save announced for the session, if any, is over.
TimeoutCleanup(r) ==
    /\ pc[r] = "timedout"
    /\ lru' = SelectSeq(lru, LAMBDA x : x # S(r))
    /\ failed' = failed \ {S(r)}
    /\ late' = late \cup Overtaken(S(r))
    /\ IF saving[S(r)] = NoOne
       THEN TimeoutRemove(r)
       ELSE /\ epoch' = [epoch EXCEPT ![S(r)] = @ + 1]
            /\ pc' = [pc EXCEPT ![r] = "timeoutWait"]
            /\ UNCHANGED <<file, saving, told>>
    /\ UNCHANGED <<entry, lockOf, refs, owner, hist, exp, tries, evict, orphan, gap>>

\* The wait for the save ends with it, or after five seconds.
TimeoutWaitOver(r) ==
    /\ pc[r] = "timeoutWait"
    /\ TimeoutRemove(r)
    /\ UNCHANGED <<lru, entry, lockOf, refs, owner, hist, failed, exp, tries, evict, orphan, gap, late>>

(***************************************************************************)
(* _deferred_evict_remove and _backpressure_evict_remove.                  *)
(***************************************************************************)

Move(t, u) == evict' = (evict \ {t}) \cup {u}

EvictStart(t) ==
    /\ t.st = "start"
    /\ Move(t, [t EXCEPT !.st = IF saving[t.sid] = NoOne THEN "remove" ELSE "wait"])
    /\ UNCHANGED <<pc, lru, entry, lockOf, refs, owner, file, hist, failed, epoch, saving, exp, tries, orphan, told, gap, late>>

\* The save is over, or the wait is.
EvictWaitOver(t) ==
    /\ t.st = "wait"
    /\ Move(t, [t EXCEPT !.st = "remove"])
    /\ UNCHANGED <<pc, lru, entry, lockOf, refs, owner, file, hist, failed, epoch, saving, exp, tries, orphan, told, gap, late>>

\* os.remove on a worker thread; an OSError leaves the file.
EvictRemove(t) ==
    /\ t.st = "remove"
    /\ file' \in {file, [file EXCEPT ![t.sid] = <<>>]}
    /\ told' = [told EXCEPT ![t.sid] = NoOne]
    /\ Move(t, [t EXCEPT !.st = "forget"])
    /\ UNCHANGED <<pc, lru, entry, lockOf, refs, owner, hist, failed, epoch, saving, exp, tries, orphan, gap, late>>

\* Bump once more and forget the epoch.
EvictForget(t) ==
    /\ t.st = "forget"
    /\ evict' = evict \ {t}
    /\ epoch' = [epoch EXCEPT ![t.sid] = 0]
    /\ UNCHANGED <<pc, lru, entry, lockOf, refs, owner, file, hist, failed, saving, exp, tries, orphan, told, gap, late>>

GSNext ==
    \/ \E r \in Reqs : Begin(r)
    \/ \E r \in Reqs : Enter(r)
    \/ \E r \in Reqs : Load(r)
    \/ \E r \in Reqs : StreamDone(r)
    \/ \E r \in Reqs : StreamAborts(r)
    \/ \E r \in Reqs : NoClient(r)
    \/ \E r \in Reqs : Publish(r)
    \/ \E r \in Reqs : GiveUp(r)
    \/ \E r \in Reqs : WriteFails(r)
    \/ \E r \in Reqs : BackoffOver(r)
    \/ \E r \in Reqs : OrphanEnds(r)
    \/ \E r \in Reqs : Promote(r)
    \/ \E r \in Reqs : Finish(r)
    \/ \E r \in Reqs : ErrorCleanup(r)
    \/ \E r \in Reqs : Cancelled(r)
    \/ \E r \in Reqs : TimeoutCleanup(r)
    \/ \E r \in Reqs : TimeoutWaitOver(r)
    \/ \E t \in evict : EvictStart(t)
    \/ \E t \in evict : EvictWaitOver(t)
    \/ \E t \in evict : EvictRemove(t)
    \/ \E t \in evict : EvictForget(t)

(***************************************************************************)
(* A request always ends: the time limit fires, the waits for a save are   *)
(* bounded and the clean-ups are code without further waits.  Neither the  *)
(* disk nor the model is assumed to answer.                                *)
(***************************************************************************)
GSFairness ==
    /\ \A r \in Reqs : /\ WF_gsvars(Cancelled(r))
                       /\ WF_gsvars(TimeoutCleanup(r))
                       /\ WF_gsvars(TimeoutWaitOver(r))
                       /\ WF_gsvars(ErrorCleanup(r))
                       /\ WF_gsvars(Finish(r))
    /\ WF_gsvars(\E t \in evict : EvictStart(t) \/ EvictWaitOver(t) \/ EvictRemove(t) \/ EvictForget(t))

GSSpec == GSInit /\ [][GSNext]_gsvars /\ GSFairness

(***************************************************************************)
(* Properties.                                                             *)
(***************************************************************************)
GSTypeOK ==
    /\ pc \in [Reqs -> Pcs]
    /\ Range(lru) \subseteq Sids /\ Len(lru) <= MaxSessions
    /\ entry \in [Sids -> Reqs \cup {NoOne}]
    /\ owner \in [Reqs -> Reqs \cup {NoOne}]
    /\ refs \in [Reqs -> 0..Cardinality(Reqs)]
    /\ failed \subseteq Sids
    /\ saving \in [Sids -> Reqs \cup {NoOne}]

\* Two turns of one session never run at the same time, however the LRU
\* evicts and re-creates the session's lock while requests queue on it.
OneTurnAtATime ==
    \A r, q \in Reqs :
        r # q /\ S(r) = S(q) => ~(pc[r] \in Inside /\ pc[q] \in Inside)

\* The lock of a session exists only while a request is in run_query for
\* it: no cancellation, error or eviction leaves one behind.
LocksReclaimed ==
    \A s \in Sids : entry[s] # NoOne => \E r \in Reqs : S(r) = s /\ pc[r] \in Waiting

\* A session that resumes from disk resumes the last turn it was answered,
\* unless it was evicted, timed out or restarted in between: an answer that
\* could not be saved never leaves the older file to be resumed.
NoSilentGap == gap = {}

\* Every request and every removal of an evicted file comes to an end, even
\* when a write never returns.
SessionWorkEnds == <>[](evict = {} /\ \A r \in Reqs : pc[r] \in {"new", "done"})

\* The clean-up epoch: a save that a clean-up of its session overtook does
\* not put the history file back.  ("epoch guard (#732) blocks any late os.replace")
LateSaveDropped ==
    [][\A r \in late : file'[S(r)] \in {file[S(r)], <<>>} \/ Last(file'[S(r)]) # r]_gsvars

=============================================================================
