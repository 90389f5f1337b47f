----------------------------- MODULE MCChannels -----------------------------
(***************************************************************************)
(* The ways in and out of the agent on small instances: the event stream   *)
(* and its reader, the session stream, webhooks, the hook-decision channel *)
(* and inbound triggers.  They share no variable, so a behaviour of this   *)
(* run is one of a single component, chosen in the initial state (focus);  *)
(* the others keep their initial state.                                    *)
(***************************************************************************)
EXTENDS EventStream, TLC

CONSTANTS
    StreamSessions, Readers, ReadersOf, RegistryMax, SQueueMax, SRingMax, Grace,
    PerCaller, MaxStreams, MaxEnvelopes, s1, s2, r1, r2,
    Paths, HookFiles, Kinds, GlobalCap, DefaultCap, Budget, SubBudget, Allowed, SkipDns,
    Decisions, Spans, MaxInflight, CbWindow, CbFails, DecisionQueue, NoPost,
    TriggerFiles, Posts, Requests, PoolMax, Token

VARIABLES
    focus,
    registry, owner, sring, snext, attached, idleFor, quietFor, publisher, rpc, on,
    box, shut, backlog, resumeAt, written, slots,
    items, order, chains, bytes, subBytes, closing, awaited,
    hlock, loop, worker, span, inflight, inflightCf, hooked, post, recent, cbOpen,
    hqueue, accepted, dispatched, lostFull,
    titems, torder, running, request, pool, lost, stuck, warm

S == INSTANCE SessionStream
W == INSTANCE Webhooks WITH Files <- HookFiles
H == INSTANCE HookPosts
G == INSTANCE Triggers WITH Files <- TriggerFiles, items <- titems, order <- torder,
                            post <- request

ssvars == <<registry, owner, sring, snext, attached, idleFor, quietFor, publisher, rpc,
            on, box, shut, backlog, resumeAt, written, slots>>
whvars == <<items, order, chains, bytes, subBytes, closing, awaited>>
hpvars == <<hlock, loop, worker, span, inflight, inflightCf, hooked, post, recent,
            cbOpen, hqueue, accepted, dispatched, lostFull>>
trvars == <<titems, torder, running, request, pool, lost, stuck, warm>>

ASSUME ChannelsAssumption ==
    /\ S!SessionAssumption /\ W!WebhookAssumption /\ H!HookAssumption /\ G!TriggerAssumption

-----------------------------------------------------------------------------
(* Constants of the instance *)

MCReadersOf == s1 :> {r1, r2} @@ s2 :> {}

HookFile(name, from, refs, when, events, retries, cap, size) ==
    [name |-> name, enabled |-> TRUE,
     url |-> [scheme |-> "https", host |-> "h", class |-> "name"],
     from |-> from, refs |-> refs, when |-> when, kinds |-> {}, events |-> events,
     retries |-> retries, cap |-> cap, size |-> size]

MCHookFiles ==
    { HookFile("a", "url", {"builtin"}, "always", {}, 2, 3, 1),
      HookFile("b", "env", {}, "bad", {<<"hook.decision", "deny">>, <<"completion", "">>}, 1, 0, 1) }

TriggerFile(endpoint, enabled, secret) ==
    [readable |-> TRUE, endpoint |-> endpoint, enabled |-> enabled, secret |-> secret]

MCTriggerFiles ==
    { TriggerFile("a", TRUE, "none"), TriggerFile("a", TRUE, "set"),
      TriggerFile("b", TRUE, "unset") }

Request(endpoint, auth, length) == [endpoint |-> endpoint, auth |-> auth, length |-> length]

MCRequests ==
    { Request("a", "missing", "ok"), Request("a", "good", "ok"),
      Request("a", "not ascii", "ok"), Request("a", "good", "streamed"),
      Request("b", "good", "ok") }

-----------------------------------------------------------------------------
ChannelsInit ==
    /\ focus \in {"events", "session", "webhooks", "hooks", "triggers"}
    /\ Init
    /\ S!SSInit
    /\ W!Init
    /\ H!HPInit
    /\ G!Init

ChannelsNext ==
    \/ focus = "events" /\ Next /\ UNCHANGED <<focus, ssvars, whvars, hpvars, trvars>>
    \/ focus = "session" /\ S!SSNext /\ UNCHANGED <<focus, vars, whvars, hpvars, trvars>>
    \/ focus = "webhooks" /\ W!Next /\ UNCHANGED <<focus, vars, ssvars, hpvars, trvars>>
    \/ focus = "hooks" /\ H!HPNext /\ UNCHANGED <<focus, vars, ssvars, whvars, trvars>>
    \/ focus = "triggers" /\ G!Next /\ UNCHANGED <<focus, vars, ssvars, whvars, hpvars>>

(* The fairness of each component, while it is the one that runs.          *)
ChannelsFairness ==
    /\ \A c \in Clients :
          /\ WF_vars(focus = "events" /\ Deliver(c))
          /\ WF_vars(focus = "events" /\ StreamEnds(c))
          /\ WF_vars(focus = "events" /\ TimerFires(c))
    /\ \A r \in Readers :
          /\ WF_ssvars(focus = "session" /\ S!Receive(r))
          /\ WF_ssvars(focus = "session" /\ S!Sent(r))
    /\ \A c \in W!ChainIds :
          /\ WF_whvars(focus = "webhooks" /\ W!Deliver(c))
          /\ WF_whvars(focus = "webhooks" /\ W!Retry(c))
    /\ WF_whvars(focus = "webhooks" /\ W!Drained)
    /\ \A p \in H!HookPostIds : WF_hpvars(focus = "hooks" /\ H!LoopStep(p))
    /\ WF_hpvars(focus = "hooks" /\ \E p \in H!HookPostIds :
                   H!WantLock(p) /\ post[p] \in {"over", "done"})
    /\ WF_hpvars(focus = "hooks" /\ (H!WorkerSubmits \/ H!WorkerRegisters))
    /\ WF_hpvars(focus = "hooks" /\ H!Dispatch)
    /\ \A p \in Posts :
          /\ WF_trvars(focus = "triggers" /\ (G!BodyRead(p) \/ G!Disconnect(p)))
          /\ WF_trvars(focus = "triggers" /\ G!FireEnds(p))

ChannelsSpec ==
    /\ ChannelsInit
    /\ [][ChannelsNext]_<<focus, vars, ssvars, whvars, hpvars, trvars>>
    /\ ChannelsFairness

-----------------------------------------------------------------------------
(* The variables of every channel keep to their types.                     *)
ChannelTypes == TypeOK /\ S!SSTypeOK /\ W!TypeOK /\ H!HPTypeOK /\ G!TypeOK

(* A reader of the event stream that has not been evicted loses nothing    *)
(* and is sent events in order; a reader of a session stream is sent ids   *)
(* that ascend, and a caller's streams are counted exactly (#1403).        *)
StreamsTruthful ==
    /\ ConnectedLosesNothing /\ PendingOrdered
    /\ S!FramesAscend /\ S!SlotsExact

(* The byte budgets of webhook deliveries are exact and their chains of    *)
(* retries bounded, through every outcome of an attempt and close().       *)
DeliveriesBounded == W!BudgetExact /\ W!ChainsBounded

(* Posts of hook decisions in flight are counted exactly across two        *)
(* threads, and a decision the harness accepted is queued, handed on or    *)
(* dropped by the full queue.                                              *)
PostsAccounted == H!InflightExact /\ H!AcceptedIsAccounted

(* The slot of a trigger endpoint is held exactly as long as one request   *)
(* reads its body or fires, whatever happens to its file (#866).           *)
SlotExact == G!SlotExact

(* An evicted reader's stream ends, a webhook delivery ends with all its   *)
(* retries, a scheduled post ends, and no endpoint answers 409 for ever.   *)
ChannelsProgress ==
    /\ EvictedStreamEnds
    /\ S!EvictedIsTold
    /\ W!ChainEnds
    /\ H!PostEnds
    /\ G!SlotFreed
=============================================================================
