------------------------------ MODULE MCPrompts ------------------------------
(***************************************************************************)
(* Prompt execution, the heartbeat scheduler and the supervisor of the     *)
(* long-running tasks on small instances.  They share no variable, so a    *)
(* behaviour of this run is one of a single component, chosen in the       *)
(* initial state (focus); the others keep their initial state.             *)
(***************************************************************************)
EXTENDS Supervisor, Sequences

CONSTANTS
    Reqs, Inputs, ConfigFiles, MaxSessions, BgMax, BgCriticalMax, MaxReloads,
    HbFiles, HbEnds, HbEdits, HbClock, HbSkews

VARIABLES
    focus,
    conf, reloads, failures, sessions, req, running, fan, others, told, closing,
    hbfile, clock, hb, cur, born, stopEvent, hbwatch, pending, slot, hbReady,
    edits, ends, skews, missed, crashed, double

X == INSTANCE PromptExecution
B == INSTANCE Heartbeat

exvars == <<conf, reloads, failures, sessions, req, running, fan, others, told, closing>>
hbvars == <<hbfile, clock, hb, cur, born, stopEvent, hbwatch, pending, slot, hbReady,
            edits, ends, skews, missed, crashed, double>>

ASSUME PromptsAssumption == X!ExecutionAssumption /\ B!HeartbeatAssumption

-----------------------------------------------------------------------------
(* Constants of the instance *)

Route(a, m) == [agent |-> a, model |-> m]
Input(kind, s, b, m, blocking, over, cons) ==
    [kind |-> kind, session |-> s, backend |-> b, model |-> m, blocking |-> blocking,
     oversize |-> over, consensus |-> cons]

MCInputs ==
    { Input("a2a", 1, 0, 0, FALSE, FALSE, <<>>),
      Input("a2a", 2, 1, 7, TRUE, TRUE, <<>>),
      Input("job", 2, 0, 0, TRUE, FALSE, <<>>),
      Input("job", 2, 2, 0, TRUE, FALSE, <<>>),
      Input("job", 1, 2, 0, TRUE, FALSE,
            << [match |-> {1, 2}, model |-> 0], [match |-> {2}, model |-> 9] >>) }

File(agents, models, default, job) ==
    [agents |-> agents, models |-> models,
     routing |-> [default |-> default, a2a |-> Route(0, 0), job |-> job]]

\* The last file routes to an id that it does not define.
MCConfigFiles ==
    { File(<<2, 1>>, <<5, 6>>, Route(0, 0), Route(1, 7)),
      File(<<1>>, <<5>>, Route(1, 0), Route(1, 8)),
      File(<<1>>, <<5>>, Route(3, 0), Route(0, 0)) }

MCHbFiles ==
    { [load |-> "on", every |-> 1], [load |-> "on", every |-> 2],
      [load |-> "off", every |-> 0], [load |-> "raises", every |-> 0] }

-----------------------------------------------------------------------------
\* Execution starts with the file of two backends.
PromptsInit ==
    /\ focus \in {"supervisor", "execution", "heartbeat"}
    /\ Init
    /\ X!Init /\ Len(conf.order) = IF focus = "execution" THEN 2 ELSE 0
    /\ B!HbInit /\ (focus = "heartbeat" \/ hbfile.load = "off")

PromptsNext ==
    \/ focus = "supervisor" /\ Next /\ UNCHANGED <<focus, exvars, hbvars>>
    \/ focus = "execution" /\ X!Next /\ UNCHANGED <<focus, vars, hbvars>>
    \/ focus = "heartbeat" /\ B!HbNext /\ UNCHANGED <<focus, vars, exvars>>

(* The fairness of each component, while it is the one that runs.          *)
PromptsFairness ==
    /\ WF_vars(focus = "supervisor" /\ Tick)
    /\ WF_vars(focus = "supervisor" /\ WatchdogFires)
    /\ WF_vars(focus = "supervisor" /\ Restart)
    /\ WF_vars(focus = "supervisor" /\ SetReady)
    /\ \A r \in Reqs :
          /\ WF_exvars(focus = "execution" /\ X!Step(r))
          /\ WF_exvars(focus = "execution" /\ X!OnPromptCompleted(r))
    /\ WF_hbvars(focus = "heartbeat" /\ B!Changed)
    /\ WF_hbvars(focus = "heartbeat" /\ B!Joined)
    /\ WF_hbvars(focus = "heartbeat" /\ B!Watch)
    /\ \A l \in B!LoopIds : WF_hbvars(focus = "heartbeat" /\ B!StopSeen(l))

PromptsSpec ==
    /\ PromptsInit
    /\ [][PromptsNext]_<<focus, vars, exvars, hbvars>>
    /\ PromptsFairness

-----------------------------------------------------------------------------
(* The variables of the three components keep to their types.              *)
PromptTypes == TypeOK /\ X!TypeOK /\ B!HbTypeOK

(* Whatever becomes of a prompt (answered, failed, cancelled, cut off by   *)
(* shutdown, its fan-out tracked or shed), the runners are told of it once *)
(* and of a bus message before the drain ends (#1181).                     *)
CompletionsTold == X!ToldOnce /\ X!BusTellsBeforeDrain

(* A query carries a model its backend knows, the majority of a consensus  *)
(* is what the caller gets, and the session LRU and the background tasks   *)
(* keep to their caps (executor.py, _resolve_model, run_consensus).        *)
AnswersFit == X!ModelFits /\ X!MajorityWins /\ X!SessionsBounded

(* However edits, stops and beats interleave, at rest exactly one loop     *)
(* beats as HEARTBEAT.md says, and no tick is sent twice (#659).           *)
BeatsKept == B!BeatsAsTheFileSays /\ B!TickOnce

(* A call that can be polled reaches its end, and a change of HEARTBEAT.md *)
(* is taken up even while a beat hangs on the bus.                         *)
PromptsProgress == X!PollEnds /\ B!ChangeHandled
=============================================================================
