------------------------------ MODULE MCBackends ------------------------------
(***************************************************************************)
(* The harness's client of a backend (circuit breaker and retries), and of *)
(* the backends the sessions and browser contexts of openai, the turns and *)
(* session files of claude and the rotation of gemini's API key, on small  *)
(* instances.  They share no variable, so a behaviour of this run is one   *)
(* of a single component, chosen in the initial state (focus); the others  *)
(* keep their initial state.                                               *)
(***************************************************************************)
EXTENDS A2ABackend, Sequences, TLC

CONSTANTS
    MaxKey, BadKeys,
    OReqs, OSessionOf, OMaxSessions, MaxContexts, Browsing, o1, o2, o3,
    CTurns, CSessions, CMaxSessions, MaxBlocks, Talkers

VARIABLES
    focus,
    keyFile, noticed, envKey, client, rotation, stale, served, shut,
    opc, olru, sessionsLock, evicting, rows, pool, made, held, contexts, closing,
    failedOnce, reused,
    csession, cpc, isNew, tries, toolFlag, toolRuns, collectedBy, unlogged, emitted,
    streamed, convo, slowWatch, clru, cLock, cEvicting, onDisk, leftOver

R == INSTANCE ClientRotation
O == INSTANCE OpenAISessions
C == INSTANCE ClaudeRun

rotvars == <<keyFile, noticed, envKey, client, rotation, stale, served, shut>>
oavars == <<opc, olru, sessionsLock, evicting, rows, pool, made, held, contexts,
            closing, failedOnce, reused>>
claudevars == <<csession, cpc, isNew, tries, toolFlag, toolRuns, collectedBy, unlogged,
                emitted, streamed, convo, slowWatch, clru, cLock, cEvicting, onDisk,
                leftOver>>

ASSUME BackendsAssumption == R!RotAssumption /\ O!OAAssumption /\ C!ClaudeAssumption

-----------------------------------------------------------------------------
(* Constants of the instance *)

MCOSessionOf == o1 :> "a" @@ o2 :> "a" @@ o3 :> "b"

-----------------------------------------------------------------------------
BackendsInit ==
    /\ focus \in {"a2a", "key", "openai", "claude"}
    /\ Init
    /\ R!RotInit
    /\ O!OAInit
    /\ C!ClaudeInit /\ (focus = "claude" \/ csession = [c \in CTurns |-> CHOOSE s \in CSessions : TRUE])

BackendsNext ==
    \/ focus = "a2a" /\ Next /\ UNCHANGED <<focus, rotvars, oavars, claudevars>>
    \/ focus = "key" /\ R!RotNext /\ UNCHANGED <<focus, vars, oavars, claudevars>>
    \/ focus = "openai" /\ O!OANext /\ UNCHANGED <<focus, vars, rotvars, claudevars>>
    \/ focus = "claude" /\ C!ClaudeNext /\ UNCHANGED <<focus, vars, rotvars, oavars>>

(* The fairness of each component, while it is the one that runs.          *)
BackendsFairness ==
    /\ WF_vars(focus = "a2a" /\ CoolOff)
    /\ \A c \in Callers :
          /\ WF_vars(focus = "a2a" /\ Attempt(c))
          /\ WF_vars(focus = "a2a" /\ TryAgain(c))
          /\ WF_vars(focus = "a2a" /\ Acquire(c))
    /\ SF_vars(focus = "a2a" /\ \E c \in Callers : Succeeds(c))
    /\ WF_rotvars(focus = "key" /\ R!Watch(TRUE))
    /\ WF_rotvars(focus = "key" /\ R!Request)
    /\ \A r \in OReqs :
          /\ WF_oavars(focus = "openai" /\ O!Forget(r))
          /\ WF_oavars(focus = "openai" /\ O!Track(r))
          /\ WF_oavars(focus = "openai" /\ O!DeleteRow(r))
          /\ WF_oavars(focus = "openai" /\ O!Forgotten(r))
          /\ WF_oavars(focus = "openai" /\ O!Evicted(r))
    /\ \A c \in CTurns : WF_claudevars(focus = "claude" /\
          (C!Forget(c) \/ C!Unlink(c) \/ C!Track(c) \/ C!Evicted(c)))

BackendsSpec ==
    /\ BackendsInit
    /\ [][BackendsNext]_<<focus, vars, rotvars, oavars, claudevars>>
    /\ BackendsFairness

-----------------------------------------------------------------------------
(* The variables of every component keep to their types.                   *)
BackendTypes ==
    TypeOK /\ R!RotTypeOK /\ O!OATypeOK /\ C!ClaudeTypeOK

(* What is held for a session does not leak: LRUs and pools keep to their  *)
(* caps, and rows, browser contexts and session files belong to a session  *)
(* that is known or at work (#368, #415).                                  *)
ResourcesTracked ==
    /\ O!LimitsHold /\ O!RowsReclaimed /\ O!ContextsReclaimed
    /\ C!FilesReclaimed

(* A claude turn runs its tools in one attempt at most (#1048), and the    *)
(* conversation log tells how it ended (#566).                             *)
ToolsRunOnce == C!NoToolReplayed /\ C!TranscriptHonest

(* The circuit closes once the backend stays healthy, session clean-ups    *)
(* end, and a new API key comes into use while a bad one never leaves the  *)
(* backend without a client.                                               *)
BackendsProgress ==
    /\ CircuitRecovers
    /\ R!KeepsServing /\ (focus = "key" => R!NewKeyTaken)
    /\ O!CleanupEnds
    /\ C!TurnCleanupEnds
=============================================================================
