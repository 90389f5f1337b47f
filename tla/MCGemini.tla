------------------------------ MODULE MCGemini ------------------------------
(***************************************************************************)
(* The sessions of the gemini backend and its stacks of MCP servers on     *)
(* small instances.  They share no variable: a behaviour of this run is    *)
(* one of the two, chosen in the initial state (focus), while the other    *)
(* keeps its initial state.                                                *)
(***************************************************************************)
EXTENDS GeminiSessions, TLC

CONSTANTS
    r1, r2, r3,
    McpReqs, Servers, MaxReloads, Closed

VARIABLES
    focus,
    stack, refcount, parked, open, applying, config, live, up, known, mreq, opened, down

M == INSTANCE McpStacks

ASSUME StacksAssumption == M!McpAssumption

mcpvars == <<stack, refcount, parked, open, applying, config, live, up, known, mreq,
             opened, down>>

\* Two turns of one session and one of another that pushes it out of the LRU.
MCSessionOf == r1 :> "a" @@ r2 :> "b" @@ r3 :> "a"
MCBefore == <<"a">>

-----------------------------------------------------------------------------
GeminiInit ==
    /\ focus \in {"sessions", "mcp"}
    /\ GSInit
    /\ M!McpInit

GeminiNext ==
    \/ focus = "sessions" /\ GSNext /\ UNCHANGED <<focus, mcpvars>>
    \/ focus = "mcp" /\ M!McpNext /\ UNCHANGED <<focus, gsvars>>

(* The fairness of each component, while it is the one that runs.          *)
GeminiFairness ==
    /\ \A r \in Reqs :
          /\ WF_gsvars(focus = "sessions" /\ Cancelled(r))
          /\ WF_gsvars(focus = "sessions" /\ TimeoutCleanup(r))
          /\ WF_gsvars(focus = "sessions" /\ TimeoutWaitOver(r))
          /\ WF_gsvars(focus = "sessions" /\ ErrorCleanup(r))
          /\ WF_gsvars(focus = "sessions" /\ Finish(r))
    /\ WF_gsvars(focus = "sessions" /\ \E t \in evict :
          EvictStart(t) \/ EvictWaitOver(t) \/ EvictRemove(t) \/ EvictForget(t))
    /\ WF_mcpvars(focus = "mcp" /\ M!Watchdog)
    /\ WF_mcpvars(focus = "mcp" /\ \E p \in parked : M!Ages(p))
    /\ WF_mcpvars(focus = "mcp" /\ \E s \in Servers :
          M!ServerStarts(s) \/ M!ServerFails(s) \/ M!ServerRefused(s))
    /\ WF_mcpvars(focus = "mcp" /\ M!ApplyEnd)
    /\ \A r \in McpReqs : WF_mcpvars(focus = "mcp" /\ M!RunEnds(r))

GeminiSpec ==
    /\ GeminiInit
    /\ [][GeminiNext]_<<focus, gsvars, mcpvars>>
    /\ GeminiFairness

-----------------------------------------------------------------------------
(* The variables of both components keep to their types.                   *)
GeminiTypes == GSTypeOK /\ M!McpTypeOK

(* The turns of a session run one at a time although the LRU evicts and    *)
(* re-creates its lock, no lock is left behind, a session that resumes     *)
(* from disk resumes the last turn that was answered, and the servers of   *)
(* an MCP stack run for as long as a turn runs on it, whatever reloads,    *)
(* releases and the watchdog do.                                           *)
GeminiSound ==
    OneTurnAtATime /\ LocksReclaimed /\ NoSilentGap /\ M!NeverClosedInUse

(* Every turn and every removal of an evicted file ends although a write   *)
(* may never return, and a parked MCP stack is closed in the end.          *)
GeminiProgress == SessionWorkEnds /\ M!ParkedReclaimed
=============================================================================
