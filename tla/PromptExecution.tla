--------------------------- MODULE PromptExecution ---------------------------
(***************************************************************************)
(* harness/executor.py: AgentExecutor from the arrival of a prompt to the  *)
(* fan-out of its completion, the session LRU, routing and its hot reload  *)
(* (backends/config.py), consensus, the capped set of background tasks,    *)
(* and the part of main()'s phased shutdown that stops all this.           *)
(*                                                                         *)
(* A request is an A2A call (execute) or a bus message (process_bus).      *)
(* Backend ids are naturals in the order of their names, models are        *)
(* naturals, 0 stands for None in both.  Every action runs from one await  *)
(* to the next.                                                            *)
(***************************************************************************)
EXTENDS Naturals, SequencesExt, FiniteSetsExt

CONSTANTS
    Reqs,          \* request identities
    Inputs,        \* what a request may ask for
    ConfigFiles,   \* contents backend.yaml may have; the first valid one is loaded at start
    MaxSessions,   \* MAX_SESSIONS
    BgMax,         \* BACKGROUND_TASKS_MAX
    BgCriticalMax, \* BACKGROUND_TASKS_CRITICAL_MAX
    MaxReloads     \* bound: changes of backend.yaml

Route == [agent : Nat, model : Nat]

ExecutionAssumption ==
    /\ MaxSessions \in Nat \ {0} /\ BgMax \in Nat /\ BgCriticalMax \in Nat
    /\ MaxReloads \in Nat
    /\ \A in \in Inputs :
          /\ in.kind \in {"a2a", "job"} /\ in.backend \in Nat /\ in.model \in Nat
          /\ in.consensus \in Seq([match : SUBSET Nat, model : Nat])
    /\ \A file \in ConfigFiles :
          /\ file.agents \in Seq(Nat \ {0})
          /\ \A i \in 1..Len(file.agents) : file.models[file.agents[i]] \in Nat
          /\ {"default", "a2a", "job"} \subseteq DOMAIN file.routing
          /\ \A f \in DOMAIN file.routing : file.routing[f] \in Route

VARIABLES
    conf,      \* _backends, _default_backend_id, _routing
    reloads,   \* changes of the file so far; also the identity of the backend objects
    failures,  \* _backends_reload_consecutive_failures
    sessions,  \* _sessions, least recently used first
    req,       \* the frame of each execute or process_bus call
    running,   \* _running_tasks
    fan,       \* completion fan-outs among _background_tasks
    others,    \* the other background tasks, by class
    told,      \* how often the runners were told of a completion
    closing      \* "up", "bus" cancelled, "drained", "closed", "exit"

exvars == <<conf, reloads, failures, sessions, req, running, fan, others, told, closing>>

-----------------------------------------------------------------------------
(* backend.yaml *)

\* _parse_routing_entry: no agent, no entry.
ParseEntry(v) == IF v.agent = 0 THEN [agent |-> 0, model |-> 0] ELSE v

\* load_backends_config and load_routing_config: a malformed file, an empty or
\* repeated list of ids, or a routing entry for an unknown id is an error.
Loadable(file) ==
    /\ file.agents # <<>>
    /\ IsInjective(file.agents)
    /\ \A f \in DOMAIN file.routing :
          file.routing[f].agent = 0 \/ Contains(file.agents, file.routing[f].agent)

\* load_backends: the registry in file order, the default and the routes.
Loaded(file) ==
    [order   |-> file.agents,
     models  |-> file.models,
     default |-> IF file.routing["default"].agent # 0
                   THEN file.routing["default"].agent ELSE file.agents[1],
     routing |-> [f \in DOMAIN file.routing |-> ParseEntry(file.routing[f])]]

NoRoutes == [f \in {"default", "a2a", "job"} |-> [agent |-> 0, model |-> 0]]
Empty == [order |-> <<>>, models |-> <<>>, default |-> 0, routing |-> NoRoutes]

Or(x, y) == IF x # 0 THEN x ELSE y

\* _routing_entry_for_kind
RouteFor(kind) == conf.routing[kind]

\* Mutant of ResolveModel: the route's model whatever the backend.
ResolveRouteModel(asked, entry, bid) == Or(asked, entry.model)

\* _resolve_model
ResolveModel(asked, entry, bid) ==
    IF asked # 0 THEN asked
    ELSE IF entry.model # 0 /\ entry.agent = bid THEN entry.model
    ELSE IF Contains(conf.order, bid) THEN conf.models[bid]
    ELSE 0

-----------------------------------------------------------------------------
(* run_consensus *)

\* One entry of the list: a call <<backend, model>> of every backend it matches,
\* unless there is one already.
CallsOf(resolved, entry) ==
    FoldLeft(LAMBDA acc, bid :
               LET pair == <<bid, Or(entry.model, conf.models[bid])>>
               IN  IF bid \in entry.match /\ ~Contains(acc, pair) THEN Append(acc, pair) ELSE acc,
             resolved, conf.order)

\* The calls an entry list comes to.
Resolve(entries) ==
    LET resolved == FoldLeft(CallsOf, <<>>, entries)
    IN  IF resolved = <<>> THEN << <<conf.default, 0>> >> ELSE resolved

\* Order of call keys "id" and "id:model".
KeyBefore(p, q) == p[1] < q[1] \/ (p[1] = q[1] /\ p[2] <= q[2])

\* Mutant of TieWinner: the reply of the first call in name order, always.
FirstWinner(calls, votes, default) ==
    LET up == {i \in DOMAIN calls : votes[i] # "fail"}
    IN  votes[CHOOSE i \in up : \A j \in up : KeyBefore(calls[i], calls[j])]

\* The tie-break: the first call of the default backend, if it answered.
TieWinner(calls, votes, default) ==
    LET mine == {i \in DOMAIN calls : calls[i][1] = default}
        up   == {i \in DOMAIN calls : votes[i] # "fail"}
    IN  IF mine # {} /\ Min(mine) \in up THEN votes[Min(mine)]
        ELSE votes[CHOOSE i \in up : \A j \in up : KeyBefore(calls[i], calls[j])]

\* What the replies come to: an error, a vote, or a synthesis still to be made.
Aggregate(calls, votes, default) ==
    LET count(v) == Cardinality({i \in DOMAIN calls : votes[i] = v})
    IN  IF count("fail") = Len(calls) THEN "error"
        ELSE IF count("text") > 0 THEN "synthesise"
        ELSE IF count("yes") > count("no") THEN "yes"
        ELSE IF count("no") > count("yes") THEN "no"
        ELSE TieWinner(calls, votes, default)

-----------------------------------------------------------------------------
\* A request that has not arrived has no frame.
Idle == [stage |-> "idle"]

Stages == {"submit", "start", "query", "synth", "reply", "failing", "done"}

InFlight(r) == req[r] # Idle /\ req[r].stage # "done"
Querying(r) == req[r] # Idle /\ req[r].stage \in {"query", "synth"}

Frame == [in : Inputs, stage : Stages, poll : BOOLEAN, want : Nat, model : Nat,
          bid : Nat, gen : Nat, default : Nat, calls : Seq(Nat \X Nat), ok : BOOLEAN,
          events : Seq({"submitted", "working", "message", "completed", "failed"}),
          cut : BOOLEAN]

TypeOK ==
    /\ reloads \in 0..MaxReloads /\ failures \in 0..reloads
    /\ IsInjective(sessions)
    /\ \A r \in Reqs : req[r] # Idle => req[r] \in Frame
    /\ running \in SUBSET Reqs
    /\ fan \in SUBSET Reqs
    /\ others \in [{"normal", "critical"} -> Nat]
    /\ told \in [Reqs -> Nat]
    /\ closing \in {"up", "bus", "drained", "closed", "exit"}

\* __init__: a file that does not load leaves an empty registry.
Init ==
    /\ \E file \in ConfigFiles : conf = IF Loadable(file) THEN Loaded(file) ELSE Empty
    /\ reloads = 0 /\ failures = 0
    /\ sessions = <<>>
    /\ req = [r \in Reqs |-> Idle]
    /\ running = {} /\ fan = {}
    /\ others = [c \in {"normal", "critical"} |-> 0]
    /\ told = [r \in Reqs |-> 0]
    /\ closing = "up"

\* backends_watcher: one change of the file; the old backends' clients are
\* closed, whoever is using them.
Reload(file) ==
    /\ closing \in {"up", "bus", "drained"}
    /\ reloads < MaxReloads
    /\ reloads' = reloads + 1
    /\ IF Loadable(file) THEN conf' = Loaded(file) /\ failures' = 0
       ELSE conf' = conf /\ failures' = failures + 1
    /\ UNCHANGED <<sessions, req, running, fan, others, told, closing>>

-----------------------------------------------------------------------------
(* track_background *)

Occupied == Cardinality(fan) + others["normal"] + others["critical"]

\* Mutant of Tell: a shed fan-out is dropped.
TellUnlessShed(r) ==
    IF Occupied >= BgMax THEN UNCHANGED <<fan, told>>
    ELSE fan' = fan \cup {r} /\ UNCHANGED told

\* Completion in the finally of execute and process_bus: a tracked task, or,
\* when that is shed (the sources "a2a" and "bus" are not critical), the runners
\* are told in line.
Tell(r) ==
    IF Occupied >= BgMax
      THEN told' = [told EXCEPT ![r] = @ + 1] /\ UNCHANGED fan
    ELSE fan' = fan \cup {r} /\ UNCHANGED told

\* A task of an HTTP handler; at the cap of its class it is shed.
Spawn(class) ==
    /\ closing = "up"
    /\ Occupied < (IF class = "critical" THEN BgCriticalMax ELSE BgMax)
    /\ others' = [others EXCEPT ![class] = @ + 1]
    /\ UNCHANGED <<conf, reloads, failures, sessions, req, running, fan, told, closing>>

\* It ends, or is cut by its timeout.
SpawnedEnds(class) ==
    /\ others[class] > 0
    /\ others' = [others EXCEPT ![class] = @ - 1]
    /\ UNCHANGED <<conf, reloads, failures, sessions, req, running, fan, told, closing>>

\* on_prompt_completed: notify and fire, without an await.
OnPromptCompleted(r) ==
    /\ r \in fan /\ closing # "exit"
    /\ fan' = fan \ {r}
    /\ told' = [told EXCEPT ![r] = @ + 1]
    /\ UNCHANGED <<conf, reloads, failures, sessions, req, running, others, closing>>

-----------------------------------------------------------------------------
(* execute and process_bus *)

Done(rec) == [rec EXCEPT !.stage = "done", !.want = 0, !.model = 0, !.bid = 0,
                         !.gen = 0, !.default = 0, !.calls = <<>>]

\* The end of the call: its finally; the frame is gone.
Finish(r, rec) ==
    /\ req' = [req EXCEPT ![r] = Done(rec)]
    /\ Tell(r)
    /\ running' = running \ {r}

Emit(rec, e) == IF rec.in.kind = "a2a" THEN [rec EXCEPT !.events = Append(@, e)] ELSE rec

Fresh(in) ==
    LET entry == RouteFor(in.kind)
        want  == Or(in.backend, entry.agent)
    IN  [in |-> in, stage |-> "start", poll |-> FALSE, want |-> want,
         model |-> ResolveModel(in.model, entry, Or(want, conf.default)),
         bid |-> 0, gen |-> 0, default |-> conf.default, calls |-> <<>>, ok |-> FALSE, events |-> <<>>, cut |-> FALSE]

\* _track_session
TrackSession(s) ==
    sessions' = Append(IF ~Contains(sessions, s) /\ Len(sessions) >= MaxSessions
                         THEN Tail(sessions) ELSE RemoveFirst(sessions, s), s)

\* An exception: a task that can be polled is marked failed first.
Raise(r, rec) ==
    IF rec.poll
      THEN req' = [req EXCEPT ![r] = [rec EXCEPT !.stage = "failing"]] /\ UNCHANGED <<running, fan, told>>
    ELSE Finish(r, rec)

\* run or run_consensus up to the query: the registry and the default are read now.
Query(r, rec, calls) ==
    LET bid == Or(rec.want, conf.default)
    IN  IF Contains(conf.order, bid) \/ (calls # <<>> /\ conf.order # <<>>)
          THEN /\ TrackSession(rec.in.session)
               /\ req' = [req EXCEPT ![r] = [rec EXCEPT !.stage = "query", !.bid = bid, !.gen = reloads,
                                                        !.default = conf.default, !.calls = calls]]
               /\ UNCHANGED <<fan, told>>
               /\ running' = IF rec.in.kind = "a2a" THEN running \cup {r} ELSE running
          ELSE Raise(r, rec) /\ UNCHANGED sessions

\* execute: an oversize prompt is answered and forgotten; a call to be polled
\* waits for TaskUpdater.submit.
Arrive(r, in) ==
    /\ closing = "up"
    /\ req[r] = Idle
    /\ in.kind = "a2a"
    /\ \/ /\ in.oversize
          /\ req' = [req EXCEPT ![r] = Done([Emit(Fresh(in), "message") EXCEPT !.cut = TRUE])]
          /\ UNCHANGED <<running, sessions, fan, told>>
       \/ /\ ~in.oversize /\ in.blocking
          /\ Query(r, Fresh(in), <<>>)
       \/ /\ ~in.oversize /\ ~in.blocking
          /\ req' = [req EXCEPT ![r] = [Fresh(in) EXCEPT !.stage = "submit"]]
          /\ running' = running \cup {r}
          /\ UNCHANGED <<sessions, fan, told>>
    /\ UNCHANGED <<conf, reloads, failures, others, closing>>

\* submit is over and start_work next; a submit that fails falls back to the
\* blocking reply.
Submitted(r, ok) ==
    /\ req[r] # Idle /\ req[r].stage = "submit"
    /\ IF ok THEN /\ req' = [req EXCEPT ![r] = Emit([@ EXCEPT !.stage = "start", !.poll = TRUE], "submitted")]
                  /\ UNCHANGED <<sessions, running, fan, told>>
       ELSE Query(r, req[r], <<>>)
    /\ UNCHANGED <<conf, reloads, failures, others, closing>>

\* start_work is over.
Dispatch(r) ==
    /\ req[r] # Idle /\ req[r].stage = "start"
    /\ Query(r, Emit(req[r], "working"), <<>>)
    /\ UNCHANGED <<conf, reloads, failures, others, closing>>

\* process_bus; the bus worker runs one message at a time.
BusArrive(r, in) ==
    /\ closing = "up"
    /\ req[r] = Idle
    /\ in.kind = "job"
    /\ \A q \in Reqs : InFlight(q) => req[q].in.kind = "a2a"
    /\ Query(r, Fresh(in), IF in.consensus = <<>> THEN <<>> ELSE Resolve(in.consensus))
    /\ UNCHANGED <<conf, reloads, failures, others, closing>>

\* The backend has answered, perhaps with nothing.
Answered(r) ==
    /\ Querying(r)
    /\ req[r].calls = <<>> \/ req[r].stage = "synth"
    /\ IF req[r].in.kind = "a2a"
         THEN /\ req' = [req EXCEPT ![r].stage = "reply", ![r].ok = TRUE]
              /\ UNCHANGED <<running, fan, told>>
         ELSE Finish(r, [req[r] EXCEPT !.ok = TRUE])
    /\ UNCHANGED <<conf, reloads, failures, sessions, others, closing>>

\* TASK_TIMEOUT_SECONDS, or any other failure of the query; a synthesis that
\* fails falls back to the replies themselves.
QueryFails(r) ==
    /\ Querying(r) /\ req[r].calls = <<>>
    /\ Raise(r, req[r])
    /\ UNCHANGED <<conf, reloads, failures, sessions, others, closing>>

\* gather has the outcome of every consensus call.
Voted(r, votes) ==
    LET verdict == Aggregate(req[r].calls, votes, req[r].default)
    IN  /\ Querying(r) /\ req[r].stage = "query" /\ req[r].calls # <<>>
        /\ IF verdict = "synthesise"
             THEN req' = [req EXCEPT ![r].stage = "synth"] /\ UNCHANGED <<running, fan, told>>
             ELSE Finish(r, [req[r] EXCEPT !.ok = verdict # "error"])
        /\ UNCHANGED <<conf, reloads, failures, sessions, others, closing>>

\* The terminal event: a message, or the artifact and the completed task.
Reply(r) ==
    /\ req[r] # Idle /\ req[r].stage = "reply"
    /\ Finish(r, Emit(req[r], IF req[r].poll THEN "completed" ELSE "message"))
    /\ UNCHANGED <<conf, reloads, failures, sessions, others, closing>>

\* Building or queueing the reply raises.
ReplyFails(r) ==
    /\ req[r] # Idle /\ req[r].stage = "reply"
    /\ Raise(r, req[r])
    /\ UNCHANGED <<conf, reloads, failures, sessions, others, closing>>

MarkFailed(r) ==
    /\ req[r] # Idle /\ req[r].stage = "failing"
    /\ Finish(r, Emit(req[r], "failed"))
    /\ UNCHANGED <<conf, reloads, failures, sessions, others, closing>>

\* CancelledError at the current await: only the finally runs.  An A2A call is
\* cancelled through cancel(), which looks the task up, a bus message by shutdown.
\* The await of submit is before the try: no completion is told, and the entry
\* of _running_tasks is left behind.
Cancelled(r) ==
    /\ InFlight(r) /\ req[r].in.kind = "a2a" /\ r \in running
    /\ IF req[r].stage = "submit"
         THEN /\ req' = [req EXCEPT ![r] = Done([@ EXCEPT !.cut = TRUE])]
              /\ UNCHANGED <<running, fan, told>>
         ELSE Finish(r, [req[r] EXCEPT !.cut = TRUE])
    /\ UNCHANGED <<conf, reloads, failures, sessions, others, closing>>

-----------------------------------------------------------------------------
(* Shutdown: main()'s finally and AgentExecutor's part of it *)

\* Phases 1 and 2: the bus worker and the message it has in hand are cancelled.
StopBus ==
    /\ closing = "up"
    /\ closing' = "bus"
    /\ LET busy == {r \in Reqs : InFlight(r) /\ req[r].in.kind = "job"}
       IN  IF busy = {} THEN UNCHANGED <<req, running, fan, told>>
           ELSE LET r == CHOOSE b \in busy : TRUE
                IN  Finish(r, [req[r] EXCEPT !.cut = TRUE])
    /\ UNCHANGED <<conf, reloads, failures, sessions, others>>

\* drain_background.  A fan-out ends in its first step, and what was scheduled
\* before the drain takes its first step before it.
DrainBackground ==
    /\ closing = "bus"
    /\ fan = {}
    /\ closing' = "drained"
    /\ others' = [c \in {"normal", "critical"} |-> 0]
    /\ UNCHANGED <<conf, reloads, failures, sessions, req, running, fan, told>>

\* Phases 3 to 5, close_backends last.
CloseBackends ==
    /\ closing = "drained"
    /\ closing' = "closed"
    /\ UNCHANGED <<conf, reloads, failures, sessions, req, running, fan, others, told>>

\* asyncio.run cancels what is left; tasks made by then never run.
Exit ==
    /\ closing = "closed"
    /\ closing' = "exit"
    /\ req' = [r \in Reqs |-> IF InFlight(r) THEN Done([req[r] EXCEPT !.cut = TRUE]) ELSE req[r]]
    /\ running' = {}
    /\ UNCHANGED <<conf, reloads, failures, sessions, fan, others, told>>

-----------------------------------------------------------------------------
Step(r) ==
    \/ \E ok \in BOOLEAN : Submitted(r, ok)
    \/ Dispatch(r) \/ Answered(r) \/ QueryFails(r) \/ Reply(r) \/ ReplyFails(r) \/ MarkFailed(r)
    \/ /\ Querying(r)
       /\ \E votes \in [DOMAIN req[r].calls -> {"yes", "no", "text", "fail"}] : Voted(r, votes)

Next ==
    \/ \E file \in ConfigFiles : Reload(file)
    \/ \E class \in {"normal", "critical"} : Spawn(class) \/ SpawnedEnds(class)
    \/ \E r \in Reqs :
          \/ \E in \in Inputs : Arrive(r, in) \/ BusArrive(r, in)
          \/ Step(r) \/ Cancelled(r) \/ OnPromptCompleted(r)
    \/ StopBus \/ DrainBackground \/ CloseBackends \/ Exit

Spec == Init /\ [][Next]_exvars

\* Queries end by TASK_TIMEOUT_SECONDS; the loop runs every task it has.
Fairness == \A r \in Reqs : WF_exvars(Step(r)) /\ WF_exvars(OnPromptCompleted(r))

LiveSpec == Spec /\ Fairness

-----------------------------------------------------------------------------
(* A completion is told to the runners once and only once (#1181), be the  *)
(* call answered, failed or cancelled and its fan-out tracked or shed; the *)
(* exception are calls the exit of the process cuts off.                   *)
ToldOnce ==
    \A r \in Reqs :
        /\ told[r] + (IF r \in fan THEN 1 ELSE 0) <= 1
        /\ req[r] # Idle /\ req[r].stage = "done" /\ ~req[r].cut =>
             told[r] + (IF r \in fan THEN 1 ELSE 0) = 1

(* Cancel or not, a bus message cut by shutdown has still told the runners *)
(* when the drain is over.                                                 *)
BusTellsBeforeDrain ==
    closing \notin {"up", "bus"} =>
        \A r \in Reqs : req[r] # Idle /\ req[r].in.kind = "job" =>
            ~InFlight(r) /\ told[r] = 1

(* The model sent with a query is the caller's own, or one that the        *)
(* configuration in force names together with the very backend queried.    *)
ModelKnown(rec) ==
    rec.model \in {rec.in.model, 0, conf.models[rec.bid]} \cup
        {conf.routing[f].model : f \in {g \in DOMAIN conf.routing : conf.routing[g].agent = rec.bid}}
Dispatched(r) == Querying(r) /\ req[r].calls = <<>> /\ req[r].gen = reloads

(* This holds of calls that resolve and dispatch without an await between. *)
ModelFits == \A r \in Reqs : Dispatched(r) /\ req[r].in.blocking => ModelKnown(req[r])

(* _resolve_model promises it of every call.                               *)
ModelFitsAlways == \A r \in Reqs : Dispatched(r) => ModelKnown(req[r])

(* A call that can be polled reaches a terminal event unless it is         *)
(* cancelled or cut off.                                                   *)
Settled(r) ==
    /\ req[r] # Idle
    /\ req[r].cut \/ \E e \in {"completed", "failed"} : Contains(req[r].events, e)
PollEnds == \A r \in Reqs : []<>(req[r] = Idle \/ ~req[r].poll \/ Settled(r))

(* Of a binary consensus the majority wins, and an even split is settled   *)
(* by the default backend whenever its first call was answered.            *)
MajorityWins ==
    \A r \in Reqs : req[r] # Idle /\ req[r].calls # <<>> =>
        \A votes \in [DOMAIN req[r].calls -> {"yes", "no", "fail"}] :
            LET count(v) == Cardinality({i \in DOMAIN votes : votes[i] = v})
                verdict  == Aggregate(req[r].calls, votes, req[r].default)
                mine     == {i \in DOMAIN votes : req[r].calls[i][1] = req[r].default}
            IN  /\ verdict = "error" <=> count("fail") = Len(req[r].calls)
                /\ verdict \in {"yes", "no"} => count(verdict) * 2 >= Len(req[r].calls) - count("fail")
                /\ count("yes") = count("no") /\ count("yes") > 0 /\ mine # {} /\ votes[Min(mine)] # "fail"
                     => verdict = votes[Min(mine)]

(* The LRU stays within its cap, tasks that are not critical within        *)
(* theirs, and all of them within the larger of the two caps, which are    *)
(* set independently.                                                      *)
SessionsBounded ==
    /\ Len(sessions) <= MaxSessions
    /\ Cardinality(fan) + others["normal"] <= BgMax
    /\ Occupied <= BgMax \/ Occupied <= BgCriticalMax
=============================================================================
