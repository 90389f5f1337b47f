------------------------------ MODULE ClaudeRun ------------------------------
(***************************************************************************)
(* backends/claude/executor.py, run: a turn from the lookup of its session *)
(* file to the tracking of its session.  _run_query_inner reads the SDK's  *)
(* messages, run_query retries a session-id collision once, _run_inner     *)
(* sorts out how the turn ended, and _track_session keeps the LRU.         *)
(*                                                                         *)
(* Turns of one session may overlap: claude has no lock per session.  A    *)
(* message of the SDK has one block of text or one tool call.              *)
(***************************************************************************)
EXTENDS Naturals, SequencesExt, FiniteSetsExt

CONSTANTS
    CTurns,
    CSessions,
    CMaxSessions,    \* MAX_SESSIONS
    MaxBlocks,       \* bound on the text blocks of an attempt
    Talkers          \* bound: the turns whose model writes text and calls tools

(* MAX_SESSIONS is at least one: with 0 the first _track_session raises.   *)
ClaudeAssumption == CMaxSessions \in Nat \ {0} /\ "free" \notin CTurns

VARIABLES
    csession,    \* the session of a turn
    cpc,         \* where a turn is
    isNew,       \* is_new: its session had no file when it looked
    tries,       \* attempts of its query
    toolFlag,    \* _tool_use_flag
    toolRuns,    \* history: the attempts in which a tool ran
    collectedBy, \* text blocks of the attempt
    unlogged,    \* those of the message at hand, not yet in the conversation log
    emitted,     \* _stream_chunks_emitted > 0
    streamed,    \* what on_chunk has passed on: "text" and "sep", all attempts
    convo,       \* the turn's lines of conversation.jsonl
    slowWatch,   \* turns with a running _slow_turn_watchdog
    clru,        \* sessions, least recently used first
    cLock,       \* the turn that holds the lock of the LRU, or "free"
    cEvicting,   \* the session being evicted
    onDisk,      \* sessions with a file
    leftOver     \* history: sessions a failed turn or a failed unlink left a file of

claudevars == <<csession, cpc, isNew, tries, toolFlag, toolRuns, collectedBy, unlogged, emitted, streamed, convo,
                slowWatch, clru, cLock, cEvicting, onDisk, leftOver>>
attempt == <<csession, isNew, tries, toolFlag, toolRuns, collectedBy, unlogged, emitted, streamed>>
store == <<clru, cLock, cEvicting, onDisk, leftOver>>

Log(c, line) == convo' = [convo EXCEPT ![c] = Append(@, line)]
Goto(c, where) == cpc' = [cpc EXCEPT ![c] = where]
Drop(c) == slowWatch' = slowWatch \ {c}

ClaudeInit ==
    /\ csession \in [CTurns -> CSessions]
    /\ cpc = [c \in CTurns |-> "idle"]
    /\ isNew = [c \in CTurns |-> TRUE] /\ tries = [c \in CTurns |-> 0]
    /\ toolFlag = [c \in CTurns |-> FALSE] /\ toolRuns = [c \in CTurns |-> {}]
    /\ collectedBy = [c \in CTurns |-> 0] /\ unlogged = [c \in CTurns |-> 0]
    /\ emitted = [c \in CTurns |-> FALSE] /\ streamed = [c \in CTurns |-> <<>>]
    /\ convo = [c \in CTurns |-> <<>>] /\ slowWatch = {}
    /\ clru = <<>> /\ cLock = "free" /\ cEvicting = "none" /\ onDisk = {} /\ leftOver = {}

-----------------------------------------------------------------------------
(* _run_inner starts the turn. *)

\* The disk says whether the session is new, whatever the LRU says.
Probe(c) ==
    /\ cpc[c] = "idle"
    /\ isNew' = [isNew EXCEPT ![c] = csession[c] \notin onDisk]
    /\ Log(c, "user")
    /\ Goto(c, "probed")
    /\ UNCHANGED <<csession, tries, toolFlag, toolRuns, collectedBy, unlogged, emitted, streamed, slowWatch, store>>

\* The watchdog and the first attempt start.
Start(c) ==
    /\ cpc[c] = "probed"
    /\ tries' = [tries EXCEPT ![c] = 1]
    /\ slowWatch' = slowWatch \cup {c}
    /\ Goto(c, "query")
    /\ UNCHANGED <<csession, isNew, toolFlag, toolRuns, collectedBy, unlogged, emitted, streamed, convo, store>>

\* The SDK writes the session's file (external).
SdkSaves(c) ==
    /\ cpc[c] = "query" /\ csession[c] \notin onDisk
    /\ onDisk' = onDisk \cup {csession[c]}
    /\ UNCHANGED <<cpc, attempt, convo, slowWatch, clru, cLock, cEvicting, leftOver>>

-----------------------------------------------------------------------------
(* _run_query_inner reads the messages. *)

\* on_chunk passes a chunk on, or times out or raises.
Chunks(chunk) == {<<>>, <<chunk>>}

\* A text block: collected and streamed, after a separator unless it is the first.
TextBlock(c) ==
    /\ c \in Talkers /\ cpc[c] = "query" /\ unlogged[c] = 0 /\ collectedBy[c] < MaxBlocks
    /\ collectedBy' = [collectedBy EXCEPT ![c] = @ + 1]
    /\ unlogged' = [unlogged EXCEPT ![c] = 1]
    /\ \E sep \in (IF emitted[c] THEN Chunks("sep") ELSE {<<>>}), text \in Chunks("text") :
         /\ streamed' = [streamed EXCEPT ![c] = @ \o sep \o text]
         /\ emitted' = [emitted EXCEPT ![c] = @ \/ text # <<>>]
    /\ UNCHANGED <<csession, cpc, isNew, tries, toolFlag, toolRuns, convo, slowWatch, store>>

\* A tool call; its result only closes it in the trace.
ToolUseBlock(c) ==
    /\ c \in Talkers /\ cpc[c] = "query" /\ unlogged[c] = 0 /\ tries[c] \notin toolRuns[c]
    /\ toolFlag' = [toolFlag EXCEPT ![c] = TRUE]
    /\ toolRuns' = [toolRuns EXCEPT ![c] = @ \cup {tries[c]}]
    /\ UNCHANGED <<csession, cpc, isNew, tries, collectedBy, unlogged, emitted, streamed, convo, slowWatch, store>>

\* The context usage is below the budget, or could not be read: the text is logged.
EndMessage(c) ==
    /\ cpc[c] = "query" /\ unlogged[c] > 0
    /\ Log(c, "agent")
    /\ unlogged' = [unlogged EXCEPT ![c] = 0]
    /\ UNCHANGED <<csession, cpc, isNew, tries, toolFlag, toolRuns, collectedBy, emitted, streamed, slowWatch, store>>

\* The usage is at the budget: the run stops with what was collected.
BudgetExceeded(c) ==
    /\ cpc[c] = "query" /\ (unlogged[c] > 0 \/ tries[c] \in toolRuns[c])
    /\ Log(c, "system")
    /\ Goto(c, "track")
    /\ UNCHANGED <<attempt, slowWatch, store>>

\* The response is over.
Completes(c) ==
    /\ cpc[c] = "query" /\ unlogged[c] = 0
    /\ Goto(c, "track")
    /\ UNCHANGED <<attempt, convo, slowWatch, store>>

-----------------------------------------------------------------------------
(* run_query: a failed attempt. *)

\* Somebody else has the session: the SDK may say that its id is in use.
InUse(c) ==
    \/ csession[c] \in onDisk
    \/ \E d \in CTurns \ {c} : csession[d] = csession[c] /\ cpc[d] = "query"

\* Mutant of MayRetry: tools that ran are not looked at.
MayRetryAlways(c) == isNew[c] /\ tries[c] = 1 /\ InUse(c)
\* A collision of a session thought new, before any tool ran (#1048).
MayRetry(c) == isNew[c] /\ tries[c] = 1 /\ InUse(c) /\ ~toolFlag[c]

\* The prompt is sent again, as a resume: a new _run_query_inner.
Retry(c) ==
    /\ cpc[c] = "query" /\ MayRetry(c)
    /\ tries' = [tries EXCEPT ![c] = 2]
    /\ collectedBy' = [collectedBy EXCEPT ![c] = 0]
    /\ unlogged' = [unlogged EXCEPT ![c] = 0]
    /\ emitted' = [emitted EXCEPT ![c] = FALSE]
    /\ UNCHANGED <<csession, cpc, isNew, toolFlag, toolRuns, streamed, convo, slowWatch, store>>

\* The error is the turn's: a terminal marker, and the session is left alone.
Fails(c) ==
    /\ cpc[c] = "query"
    /\ Log(c, "system")
    /\ Drop(c)
    /\ Goto(c, "failed")
    /\ leftOver' = leftOver \cup {csession[c]}
    /\ UNCHANGED <<attempt, clru, cLock, cEvicting, onDisk>>

\* cancel(): only the finally clauses run.
Cancelled(c) ==
    /\ cpc[c] = "query"
    /\ Drop(c)
    /\ Goto(c, "cancelled")
    /\ leftOver' = leftOver \cup {csession[c]}
    /\ UNCHANGED <<attempt, convo, clru, cLock, cEvicting, onDisk>>

-----------------------------------------------------------------------------
(* A timeout: the session is forgotten and its file removed. *)

TimesOut(c) ==
    /\ cpc[c] = "query"
    /\ Log(c, "system")
    /\ Goto(c, "lapse")
    /\ UNCHANGED <<attempt, slowWatch, store>>

Forget(c) ==
    /\ cpc[c] = "lapse" /\ cLock = "free"
    /\ clru' = RemoveFirst(clru, csession[c])
    /\ Goto(c, "unlink")
    /\ UNCHANGED <<attempt, convo, slowWatch, cLock, cEvicting, onDisk, leftOver>>

\* The unlink of a session's file, in a thread, which may fail.
Removed(s) ==
    \/ onDisk' = onDisk \ {s} /\ UNCHANGED leftOver
    \/ UNCHANGED onDisk /\ leftOver' = leftOver \cup {s}

Unlink(c) ==
    /\ cpc[c] = "unlink"
    /\ Removed(csession[c])
    /\ Drop(c)
    /\ Goto(c, "failed")
    /\ UNCHANGED <<attempt, convo, clru, cLock, cEvicting>>

-----------------------------------------------------------------------------
(* _track_session *)

Track(c) ==
    LET s == csession[c]
    IN  /\ cpc[c] = "track" /\ cLock = "free"
        /\ IF ~Contains(clru, s) /\ Len(clru) >= CMaxSessions
             THEN /\ cLock' = c
                  /\ cEvicting' = Head(clru)
                  /\ clru' = Tail(clru)
                  /\ Goto(c, "evict")
                  /\ UNCHANGED slowWatch
             ELSE /\ clru' = Append(RemoveFirst(clru, s), s)
                  /\ Goto(c, "done")
                  /\ Drop(c)
                  /\ UNCHANGED <<cLock, cEvicting>>
        /\ UNCHANGED <<attempt, convo, onDisk, leftOver>>

\* Mutant of Evicted: the file of the evicted session stays.
EvictedKeepsFile(c) ==
    /\ cpc[c] = "evict"
    /\ clru' = Append(clru, csession[c])
    /\ cLock' = "free" /\ cEvicting' = "none"
    /\ Drop(c)
    /\ Goto(c, "done")
    /\ UNCHANGED <<attempt, convo, onDisk, leftOver>>
\* Its file goes before the new session comes in.
Evicted(c) ==
    /\ cpc[c] = "evict"
    /\ Removed(cEvicting)
    /\ clru' = Append(clru, csession[c])
    /\ cLock' = "free" /\ cEvicting' = "none"
    /\ Drop(c)
    /\ Goto(c, "done")
    /\ UNCHANGED <<attempt, convo>>

ClaudeNext ==
    \E c \in CTurns :
        \/ Probe(c) \/ Start(c) \/ SdkSaves(c)
        \/ TextBlock(c) \/ ToolUseBlock(c) \/ EndMessage(c) \/ BudgetExceeded(c) \/ Completes(c)
        \/ Retry(c) \/ Fails(c) \/ Cancelled(c)
        \/ TimesOut(c) \/ Forget(c) \/ Unlink(c)
        \/ Track(c) \/ Evicted(c)

\* The event loop runs what is ready, and threads end.
ClaudeFairness ==
    \A c \in CTurns : WF_claudevars(Forget(c) \/ Unlink(c) \/ Track(c) \/ Evicted(c))

ClaudeSpec == ClaudeInit /\ [][ClaudeNext]_claudevars /\ ClaudeFairness

-----------------------------------------------------------------------------
Ended == {"done", "failed", "cancelled"}

ClaudeTypeOK ==
    /\ cpc \in [CTurns -> {"idle", "probed", "query", "track", "evict", "lapse", "unlink"} \cup Ended]
    /\ tries \in [CTurns -> 0..2] /\ unlogged \in [CTurns -> 0..1]
    /\ IsInjective(clru) /\ onDisk \subseteq CSessions /\ slowWatch \subseteq CTurns

(* The tools of a prompt run in one attempt at most: a collision is not    *)
(* retried once a tool has run (#1048), whoever else uses the session.     *)
NoToolReplayed == \A c \in CTurns : Cardinality(toolRuns[c]) <= 1

(* Sessions come and go without filling the disk or the LRU: a file is of  *)
(* a session in the LRU, of one a turn is at work on, or one that a failed *)
(* turn or unlink left (#368); and no watchdog outlives its turn.          *)
FilesReclaimed ==
    /\ Len(clru) <= CMaxSessions
    /\ onDisk \subseteq ToSet(clru) \cup {cEvicting} \cup leftOver
                          \cup {csession[c] : c \in {d \in CTurns : cpc[d] \notin {"idle"} \cup Ended}}
    /\ \A c \in CTurns : cpc[c] \in Ended => c \notin slowWatch

(* The transcript tells how a turn ended (#566): one that failed ends with *)
(* a marker, and one that was answered at its first attempt without a      *)
(* marker has every block of the answer.                                   *)
TranscriptHonest ==
    \A c \in CTurns :
        /\ cpc[c] = "failed" => Last(convo[c]) = "system"
        /\ cpc[c] = "done" /\ tries[c] = 1 /\ Last(convo[c]) # "system" =>
              Len(convo[c]) = 1 + collectedBy[c]

(* A turn that is over for the model is over for its caller: nobody keeps  *)
(* the lock.                                                               *)
TurnCleanupEnds == \A c \in CTurns : []<>(cpc[c] \notin {"track", "evict", "lapse", "unlink"})

(* "Count the separator as an emitted chunk so a subsequent text-block     *)
(* timeout cannot cause a double-prefix on the following block."           *)
SeparatorOnce ==
    \A c \in CTurns : \A i \in 1..(Len(streamed[c]) - 1) :
        ~(streamed[c][i] = "sep" /\ streamed[c][i + 1] = "sep")
=============================================================================
