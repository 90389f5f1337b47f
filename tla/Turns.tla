-------------------------------- MODULE Turns --------------------------------
(***************************************************************************)
(* execute() and cancel() of the claude, openai and gemini executors: from *)
(* an A2A request to its reply, the chunks the turn publishes on its       *)
(* session's stream, and the registry of running tasks.  The three copies  *)
(* differ in the session id a refused request is logged under, in how they *)
(* number chunks, in whether a stack of MCP servers is held, and in what   *)
(* an error does.                                                          *)
(*                                                                         *)
(* One process serves one backend.  A turn has the session its request     *)
(* derives (session_binding) and its request's task id; the run itself is  *)
(* modelled with each backend's sessions.                                  *)
(***************************************************************************)
EXTENDS Naturals, FiniteSetsExt

CONSTANTS
    TurnIds,
    TurnSession,     \* the session of a turn
    TurnTask,        \* the task id of a turn
    MaxTexts,        \* bound on the text chunks of a turn
    BackendKinds

VARIABLES
    kind,            \* the backend of this process
    turn,            \* the turns, as records
    turnSeq,         \* SessionStream._turn_seq of a session
    runningTask,     \* _running_tasks: the turn registered for a task id
    stackHeld        \* turns that hold the stack of MCP servers

turnvars == <<kind, turn, turnSeq, runningTask, stackHeld>>

TaskIds == {TurnTask[t] : t \in TurnIds}
Streams == {TurnSession[t] : t \in TurnIds}
NoTurn == "none"

TurnAssumption == NoTurn \notin TurnIds

(* at: where the turn is; seq: openai's _turn_seq_counter; texts, finals,  *)
(* replies: what it has published and enqueued; logged: the session id of  *)
(* its refusal.  History: top, one more than the highest number it gave a  *)
(* chunk; tangled, a number was given twice; shared, another turn of the   *)
(* session, twin, another of the task id, ran meanwhile; asked, its client *)
(* wants it cancelled.                                                     *)
NewTurn == [at |-> "new", seq |-> 0, texts |-> 0, finals |-> 0, replies |-> 0, logged |-> "none",
            top |-> 0, tangled |-> FALSE, shared |-> FALSE, twin |-> FALSE, asked |-> FALSE]

Running(t) == turn[t].at \in {"opened", "running", "replied"}

TurnInit ==
    /\ kind \in BackendKinds
    /\ turn = [t \in TurnIds |-> NewTurn]
    /\ turnSeq = [s \in Streams |-> 0]
    /\ runningTask = [k \in TaskIds |-> NoTurn]
    /\ stackHeld = {}

-----------------------------------------------------------------------------
(* A prompt that is empty or too large is refused with a reply. *)

Refuse(t, sid) ==
    /\ turn[t].at = "new"
    /\ turn' = [turn EXCEPT ![t] = [@ EXCEPT !.at = "refused", !.replies = 1, !.logged = sid]]
    /\ UNCHANGED <<kind, turnSeq, runningTask, stackHeld>>

\* Claude logs the id as it came, "unknown" when there is none.
ClaudeRefuses(t) == kind = "claude" /\ Refuse(t, "unknown")

\* OpenAI derives an id from the caller even when the request names none.
OpenAIRefuses(t) == kind = "openai" /\ Refuse(t, "derived")

\* Gemini derives it too, for an empty prompt from "unknown".
GeminiRefuses(t) == kind = "gemini" /\ Refuse(t, "derived")

-----------------------------------------------------------------------------
(* A turn opens: its task is registered, and the prompt is chunk 0. *)

With(t, Same(_, _)) == {u \in TurnIds \ {t} : Running(u) /\ Same(u, t)}
SameSession(u, t) == TurnSession[u] = TurnSession[t]
SameTask(u, t) == TurnTask[u] = TurnTask[t]

Open(t) ==
    LET peers == With(t, SameSession)
        twins == With(t, SameTask)
    IN  /\ turn[t].at = "new"
        /\ runningTask' = [runningTask EXCEPT ![TurnTask[t]] = t]
        /\ turn' = [u \in TurnIds |->
                      IF u = t THEN [NewTurn EXCEPT !.at = "opened", !.seq = 1, !.top = 1,
                                        !.shared = peers # {}, !.twin = twins # {}]
                      ELSE [turn[u] EXCEPT !.shared = @ \/ u \in peers, !.twin = @ \/ u \in twins]]
        /\ UNCHANGED <<kind, stackHeld>>

\* Claude and gemini start the numbers of the session's stream again.
ClaudeOpens(t) == kind = "claude" /\ Open(t) /\ turnSeq' = [turnSeq EXCEPT ![TurnSession[t]] = 1]
GeminiOpens(t) == kind = "gemini" /\ Open(t) /\ turnSeq' = [turnSeq EXCEPT ![TurnSession[t]] = 1]

\* OpenAI counts for itself (#1498).
OpenAIOpens(t) == kind = "openai" /\ Open(t) /\ UNCHANGED turnSeq

-----------------------------------------------------------------------------
(* The run. *)

\* Mutant of Local: openai numbers chunks as the others do.
LocalNever == FALSE

Local == kind = "openai"

\* The turn publishes a chunk and becomes r.
Publish(t, r) ==
    LET n == IF Local THEN turn[t].seq ELSE turnSeq[TurnSession[t]]
    IN  /\ turn' = [turn EXCEPT ![t] =
                       [r EXCEPT !.seq = IF Local THEN n + 1 ELSE @,
                                 !.tangled = @ \/ n < r.top, !.top = Max({@, n + 1})]]
        /\ turnSeq' = IF Local THEN turnSeq ELSE [turnSeq EXCEPT ![TurnSession[t]] = n + 1]

\* Mutant of ReleaseStack: the stack is not given back.
ReleaseStackNot(t) == UNCHANGED stackHeld

ReleaseStack(t) == stackHeld' = stackHeld \ {t}

\* The finally clause: whoever is registered for the task id is taken out.
Deregister(t) == runningTask' = [runningTask EXCEPT ![TurnTask[t]] = NoTurn]

Start(t, holding) ==
    /\ turn[t].at = "opened"
    /\ turn' = [turn EXCEPT ![t].at = "running"]
    /\ stackHeld' = IF holding THEN stackHeld \cup {t} ELSE stackHeld
    /\ UNCHANGED <<kind, turnSeq, runningTask>>

\* _emit_chunk
Emit(t) ==
    /\ turn[t].at = "running"
    /\ turn[t].texts < MaxTexts
    /\ Publish(t, [turn[t] EXCEPT !.texts = @ + 1])
    /\ UNCHANGED <<kind, runningTask, stackHeld>>

\* run() returns: the stack is given back, and a reply enqueued if it is not empty.
Answer(t) ==
    /\ turn[t].at = "running"
    /\ ReleaseStack(t)
    /\ \E n \in 0..1 : turn' = [turn EXCEPT ![t] = [@ EXCEPT !.at = "replied", !.replies = n]]
    /\ UNCHANGED <<kind, turnSeq, runningTask>>

\* Mutant of Close: the final chunk is published by the error path only.
CloseSilently(t) ==
    /\ turn[t].at = "replied"
    /\ turn' = [turn EXCEPT ![t].at = "done"]
    /\ Deregister(t)
    /\ UNCHANGED <<kind, turnSeq, stackHeld>>

\* The final chunk, after the reply.
Close(t) ==
    /\ turn[t].at = "replied"
    /\ Publish(t, [turn[t] EXCEPT !.at = "done", !.finals = @ + 1])
    /\ Deregister(t)
    /\ UNCHANGED <<kind, stackHeld>>

\* run() raises: a final chunk, n replies, and the error goes to the caller.
Fail(t, n) ==
    /\ turn[t].at = "running"
    /\ ReleaseStack(t)
    /\ Publish(t, [turn[t] EXCEPT !.at = "done", !.finals = @ + 1, !.replies = n])
    /\ Deregister(t)
    /\ UNCHANGED kind

\* Claude passes its MCP servers to the run, and answers an SDK buffer that
\* overflowed with a reply instead of the error.
ClaudeRuns(t) ==
    /\ kind = "claude"
    /\ Start(t, FALSE) \/ Emit(t) \/ Answer(t) \/ Close(t) \/ Fail(t, 0) \/ Fail(t, 1)

OpenAIRuns(t) ==
    /\ kind = "openai"
    /\ Start(t, TRUE) \/ Emit(t) \/ Answer(t) \/ Close(t) \/ Fail(t, 0)

GeminiRuns(t) ==
    /\ kind = "gemini"
    /\ Start(t, TRUE) \/ Emit(t) \/ Answer(t) \/ Close(t) \/ Fail(t, 0)

\* cancel(), asked for by the client of turn c: the turn registered for the task
\* id is cancelled.  A CancelledError passes by the except clause, so that no
\* final chunk is published and no reply enqueued.
Cancel(c) ==
    LET t == runningTask[TurnTask[c]]
    IN  /\ Running(c) /\ ~turn[c].asked
        /\ IF t = NoTurn
             THEN turn' = [turn EXCEPT ![c].asked = TRUE] /\ UNCHANGED <<runningTask, stackHeld>>
             ELSE /\ turn' = [[turn EXCEPT ![c].asked = TRUE] EXCEPT ![t].at = "cancelled"]
                  /\ ReleaseStack(t)
                  /\ Deregister(t)
        /\ UNCHANGED <<kind, turnSeq>>

TurnNext ==
    \E t \in TurnIds :
        \/ ClaudeRefuses(t) \/ OpenAIRefuses(t) \/ GeminiRefuses(t)
        \/ ClaudeOpens(t) \/ OpenAIOpens(t) \/ GeminiOpens(t)
        \/ ClaudeRuns(t) \/ OpenAIRuns(t) \/ GeminiRuns(t)
        \/ Cancel(t)

TurnSpec == TurnInit /\ [][TurnNext]_turnvars

-----------------------------------------------------------------------------
TurnTypeOK ==
    /\ kind \in BackendKinds
    /\ \A t \in TurnIds : turn[t].at \in {"new", "refused", "opened", "running", "replied", "done", "cancelled"}
    /\ runningTask \in [TaskIds -> TurnIds \cup {NoTurn}]
    /\ stackHeld \subseteq TurnIds

(* The chunks of a turn are numbered upwards, prompt, text and final chunk *)
(* alike, and exactly one of them, the last, is final.  With claude and    *)
(* gemini this is so unless another turn of the session ran meanwhile.     *)
TurnNumbered ==
    \A t \in TurnIds :
        /\ turn[t].tangled => kind # "openai" /\ turn[t].shared
        /\ turn[t].finals = (IF turn[t].at = "done" THEN 1 ELSE 0)

(* No turn leaves anything behind, however it ends: the MCP stack is given *)
(* back, and a turn that is still registered is still running.             *)
NothingLeftBehind ==
    /\ \A t \in stackHeld : turn[t].at = "running"
    /\ \A k \in TaskIds : runningTask[k] # NoTurn => Running(runningTask[k])

(* A client that asks for the cancellation of its task stops its turn,     *)
(* unless another turn of the same task ran meanwhile.                     *)
CancelStops == \A t \in TurnIds : turn[t].asked /\ ~turn[t].twin => turn[t].at = "cancelled"

(* "seq is monotonic across roles" within a turn, says the stream.         *)
TurnSeqMonotonic == \A t \in TurnIds : ~turn[t].tangled

(* "the running execute()'s own finally block emits any terminal A2A       *)
(* events": a turn that was cancelled is seen to end.                      *)
CancelIsTold == \A t \in TurnIds : turn[t].at = "cancelled" => turn[t].finals + turn[t].replies > 0
=============================================================================
