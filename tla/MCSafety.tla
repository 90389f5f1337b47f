------------------------------ MODULE MCSafety ------------------------------
(***************************************************************************)
(* The components of which safety alone is asked, on small instances: the  *)
(* continuation and task runners and the dashboard's timeline; and of the  *)
(* backends the envelope of a turn, the gate before a tool call, and the   *)
(* bookkeeping of calls, results and saved histories.  They share no       *)
(* variable, so a behaviour of this run is one of a single component,      *)
(* chosen in the initial state (focus); the others keep their initial      *)
(* state.                                                                  *)
(***************************************************************************)
EXTENDS MCContinuations, TLC

CONSTANTS
    SlotsPerDay, Horizon, TaskFiles, TaskGens, TaskCap, Unset,
    Members, RingSize, Burst, MaxId, MaxEvents, MaxTime,
    TurnIds, TurnSession, TurnTask, MaxTexts, BackendKinds, t1, t2, t3,
    ToolNames, ToolInputs, Baseline, LegacyHits, Entries, Calls, PostMax, CommandMax,
    EditMax, AnyTool, Junk, Missing, Malformed,
    Tools, MaxParts,
    MaxTurns, MaxBytes, Sizes, TurnBound,
    StreamTools, MaxChunks, MaxCalls, TokenBudget, Usages

VARIABLES
    focus,
    now, item, treg, tgen, tpc, wake, trunning, tpermits, mark, twatch, fired,
    again, swept,
    sent, open, list, cursor, behind, events, seenIds, merged, trimmed,
    kind, turn, turnSeq, runningTask, stackHeld,
    gateOf, baselineOn, extensions, hookFile, unread, parsing, edited, call, posting,
    shedding, shell, auditLog,
    inPrefix, withIds, calls, openCalls, byId, byName, byIndex, fromPrefix, unpaired,
    trows, crossed,
    raw, saves, forced,
    at, collected, shown, droppedChunks, tokens, callsMade, synth, startTimes,
    answeredCalls, traced, loggedTokens, agentLine

K == INSTANCE Tasks
L == INSTANCE Timeline
T == INSTANCE Turns
G == INSTANCE ToolGate
A == INSTANCE AfcPairing
H == INSTANCE HistoryTrim
O == INSTANCE OpenAIStream

taskvars == <<now, item, treg, tgen, tpc, wake, trunning, tpermits, mark, twatch,
              fired, again, swept>>
tlvars == <<sent, open, list, cursor, behind, events, seenIds, merged, trimmed>>
turnvars == <<kind, turn, turnSeq, runningTask, stackHeld>>
gatevars == <<gateOf, baselineOn, extensions, hookFile, unread, parsing, edited, call,
              posting, shedding, shell, auditLog>>
afcvars == <<inPrefix, withIds, calls, openCalls, byId, byName, byIndex, fromPrefix,
             unpaired, trows, crossed>>
trimvars == <<raw, saves, forced>>
oasvars == <<at, collected, shown, droppedChunks, tokens, callsMade, synth, startTimes,
             answeredCalls, traced, loggedTokens, agentLine>>

runners == <<vars, taskvars, tlvars>>
backends == <<turnvars, gatevars, afcvars, trimvars, oasvars>>

ASSUME SafetyAssumption ==
    /\ K!TaskAssumption /\ L!TimelineAssumption /\ T!TurnAssumption /\ G!GateAssumption
    /\ H!TrimAssumption

-----------------------------------------------------------------------------
(* Constants of the instance *)

TaskFile(enabled, valid, opens, lasts, repeat) ==
    [enabled |-> enabled, valid |-> valid, opens |-> opens, lasts |-> lasts,
     repeat |-> repeat, gap |-> 1, days |-> {0, 1}, until |-> 1]

\* A window of the day, which loops, one that spans midnight, and a task
\* without a window.
MCTaskFiles ==
    { TaskFile(TRUE, TRUE, 1, 1, TRUE),
      TaskFile(TRUE, TRUE, 2, 2, FALSE), TaskFile(TRUE, TRUE, Unset, Unset, FALSE) }

\* Two turns of one session, two turns under one task id.
MCTurnSession == t1 :> "s" @@ t2 :> "s" @@ t3 :> "x"
MCTurnTask == t1 :> "k" @@ t2 :> "m" @@ t3 :> "k"

Rule(tool, action, hits) == [tool |-> tool, action |-> action, hits |-> hits]
MCBaseline == <<Rule("Bash", "deny", {"i1"}), Rule("Write", "deny", {"i2"})>>
MCEntries == {Junk, Rule(AnyTool, "deny", {"i2"}), Rule("Bash", "warn", {"i1", "i2"})}

-----------------------------------------------------------------------------
SafetyInit ==
    /\ focus \in {"continuations", "tasks", "timeline", "turns", "gate", "pairing",
                  "history", "stream"}
    /\ Init
    /\ K!TaskInit
    /\ L!Init
    /\ T!TurnInit /\ (focus = "turns" \/ kind = "openai")
    /\ G!GateInit /\ (focus = "gate" \/ gateOf = "openai")
    /\ A!AfcInit /\ (focus = "pairing" \/ withIds)
    /\ H!TrimInit
    /\ O!StreamInit

SafetyNext ==
    \/ focus = "continuations" /\ Next /\ UNCHANGED <<focus, taskvars, tlvars, backends>>
    \/ focus = "tasks" /\ K!TaskNext /\ UNCHANGED <<focus, vars, tlvars, backends>>
    \/ focus = "timeline" /\ L!Next /\ UNCHANGED <<focus, vars, taskvars, backends>>
    \/ focus = "turns" /\ T!TurnNext
       /\ UNCHANGED <<focus, runners, gatevars, afcvars, trimvars, oasvars>>
    \/ focus = "gate" /\ G!GateNext
       /\ UNCHANGED <<focus, runners, turnvars, afcvars, trimvars, oasvars>>
    \/ focus = "pairing" /\ A!AfcNext
       /\ UNCHANGED <<focus, runners, turnvars, gatevars, trimvars, oasvars>>
    \/ focus = "history" /\ H!TrimNext
       /\ UNCHANGED <<focus, runners, turnvars, gatevars, afcvars, oasvars>>
    \/ focus = "stream" /\ O!StreamNext
       /\ UNCHANGED <<focus, runners, turnvars, gatevars, afcvars, trimvars>>

SafetySpec == SafetyInit /\ [][SafetyNext]_<<focus, runners, backends>>

-----------------------------------------------------------------------------
(* The variables of every component keep to their types.                   *)
SafetyTypes ==
    TypeOK /\ K!TaskTypeOK /\ L!TypeOK /\ T!TurnTypeOK /\ G!GateTypeOK /\ O!StreamTypeOK

(* However files change and completions arrive, no cap of the continuation *)
(* runner is exceeded, an upstream counts once, a stale arrival completes  *)
(* no fan-in and nothing fires once close() has begun.                     *)
ContinuationsSound == CapsRespected /\ CountsOnce /\ NotStale /\ NothingAfterClose

(* A task wakes once for an opening of its window and misses none, and its *)
(* checkpoint is there while it runs (tasks.py, run_task).                 *)
WindowsKept == K!OncePerWindow /\ K!NoWindowMissed /\ K!CheckpointCoversRun

(* The merged timeline shows no event twice and loses one only to another  *)
(* member's event of the same number; it is ordered until such a number    *)
(* leaves it, and its set of known ids is that of the ring (#1605).        *)
TimelineTruthful == L!OrderedUnlessTwin /\ L!ShownOnce /\ L!SeenIsTheRing /\ L!LostOnlyToTwin

(* The chunks of a turn are numbered upwards and end with one final chunk, *)
(* a turn gives back its MCP stack and its entry however it ends, and one  *)
(* whose cancellation was asked for stops.  A shell command was run if and *)
(* only if the audit log says it was allowed.                              *)
TurnsAccounted ==
    /\ T!TurnNumbered /\ T!NothingLeftBehind /\ T!CancelStops
    /\ G!AuditTellsWhatRan

(* Each tool result is recorded under the call it answers, with parallel   *)
(* calls and missing ids (#671, #1495), and a history that was trimmed to  *)
(* its caps can be resumed and is never empty.                             *)
CallsPaired ==
    /\ A!IdsPairExactly /\ A!ResultIdsDistinct
    /\ O!ResultsPaired
    /\ H!ResumableUnlessForced /\ H!NeverWiped /\ H!WithinBytes

(* The strictest rule in force decides a tool call, whatever the order of  *)
(* the rules and whenever hooks.yaml is swapped.                           *)
StrictestWins == G!StrictestWins
=============================================================================
