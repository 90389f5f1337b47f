------------------------------ MODULE Triggers ------------------------------
(***************************************************************************)
(* Inbound triggers: the registry (harness/triggers.py, TriggerRunner) and *)
(* the endpoint (harness/main.py, trigger_handler), from the claim of the  *)
(* endpoint's slot in _running to its release in the finally of _fire.     *)
(* The pool of background tasks that _fire joins is shared with others.    *)
(***************************************************************************)
EXTENDS Naturals, SequencesExt, FiniteSetsExt

CONSTANTS
    Paths,     \* trigger files
    Files,     \* front matter a file may hold
    Posts,     \* requests: identities
    Requests,  \* what a request may carry
    PoolMax,   \* BACKGROUND_TASKS_MAX
    Token,     \* TRIGGERS_AUTH_TOKEN is set, and not blank
    None

VARIABLES
    items,     \* TriggerRunner._items
    order,     \* its keys, oldest insertion first
    running,   \* TriggerRunner._running
    post,      \* the frame of each trigger_handler or _fire
    pool,      \* other tasks in _background_tasks
    lost,      \* endpoints a completion of which was shed
    stuck,     \* history: endpoints whose handler raised while it held the slot
    warm       \* backends_ready

trvars == <<items, order, running, post, pool, lost, stuck, warm>>

-----------------------------------------------------------------------------
\* parse_trigger_file: a disabled file without an endpoint is listed under a
\* placeholder no request can name; a bad endpoint keeps the old registration.
ParseTrigger(f) ==
    IF ~f.readable \/ f.endpoint = "bad" \/ (f.endpoint = None /\ f.enabled) THEN None
    ELSE [endpoint |-> f.endpoint, enabled |-> f.enabled, secret |-> f.secret]

Items == {ParseTrigger(f) : f \in Files} \ {None}
Endpoints == {i.endpoint : i \in Items} \ {None}

\* items_by_endpoint: of two enabled files with one endpoint the later wins.
ByEndpoint(e) ==
    LET serving == SelectSeq(order, LAMBDA p : items[p].enabled /\ items[p].endpoint = e)
    IN  IF serving = <<>> THEN None ELSE items[Last(serving)]

Stages == {"body", "fire", "done"}
Codes == {0, 202, 401, 404, 409, 413, 500, 503}
Frames == [in : Requests, stage : Stages, secret : {"none"} \cup {i.secret : i \in Items}, code : Codes]

(* None is no frame of a handler.                                          *)
TriggerAssumption == None \notin Frames

TypeOK ==
    /\ items \in [Paths -> Items \cup {None}]
    /\ \A p \in Paths : items[p] # None <=> Contains(order, p)
    /\ running \in SUBSET Endpoints
    /\ post \in [Posts -> Frames \cup {None}]
    /\ pool \in 0..PoolMax
    /\ lost \in SUBSET Endpoints /\ stuck \in SUBSET running
    /\ warm \in BOOLEAN

Init ==
    /\ items = [p \in Paths |-> None]
    /\ order = <<>>
    /\ running = {}
    /\ post = [p \in Posts |-> None]
    /\ pool = 0
    /\ lost = {} /\ stuck = {}
    /\ warm = FALSE

-----------------------------------------------------------------------------
\* _register, from the scan or a change of the file.
Register(p, f) ==
    /\ ParseTrigger(f) # None
    /\ items' = [items EXCEPT ![p] = ParseTrigger(f)]
    /\ order' = Append(Remove(order, p), p)
    /\ UNCHANGED <<running, post, pool, lost, stuck, warm>>

\* _unregister; the watcher's cleanup removes every path in turn.
Unregister(p) ==
    /\ items[p] # None
    /\ items' = [items EXCEPT ![p] = None]
    /\ order' = Remove(order, p)
    /\ UNCHANGED <<running, post, pool, lost, stuck, warm>>

\* _wait_for_backends has seen every backend healthy.
BackendsReady ==
    /\ ~warm
    /\ warm' = TRUE
    /\ UNCHANGED <<items, order, running, post, pool, lost, stuck>>

-----------------------------------------------------------------------------
Refuse(p, in, code) ==
    post' = [post EXCEPT ![p] = [in |-> in, stage |-> "done", secret |-> "none", code |-> code]]

\* The gate before the body is read: a signature present, or the right bearer.
PreAuthorized(in, secret) ==
    IF secret # "none" THEN in.auth # "missing"
    ELSE IF Token THEN in.auth = "good" ELSE in.auth # "missing"

\* _check_trigger_auth
CheckTriggerAuth(in, secret) ==
    IF secret # "none" THEN secret = "set" /\ in.auth = "good"
    ELSE Token /\ in.auth = "good"

\* compare_digest takes ASCII text only, and nothing catches what it raises.
Raises(in, secret) == in.auth = "not ascii" /\ (IF secret # "none" THEN secret = "set" ELSE Token)

\* trigger_handler up to the read of the body.  The slot is claimed without an
\* await after the look, and given back by every refusal.
Post(p, in) ==
    \E item \in Items \cup {None} :
        /\ item = ByEndpoint(in.endpoint)
        /\ post[p] = None
        /\ IF ~warm THEN Refuse(p, in, 503) /\ UNCHANGED <<running, stuck>>
           ELSE IF item = None THEN Refuse(p, in, 404) /\ UNCHANGED <<running, stuck>>
           ELSE IF in.endpoint \in running THEN Refuse(p, in, 409) /\ UNCHANGED <<running, stuck>>
           ELSE IF item.secret = "none" /\ Raises(in, "none")
             THEN /\ Refuse(p, in, 500)
                  /\ running' = running \cup {in.endpoint}
                  /\ stuck' = stuck \cup {in.endpoint}
           ELSE IF ~PreAuthorized(in, item.secret) THEN Refuse(p, in, 401) /\ UNCHANGED <<running, stuck>>
           ELSE IF in.length = "declared" THEN Refuse(p, in, 413) /\ UNCHANGED <<running, stuck>>
           ELSE /\ running' = running \cup {in.endpoint}
                /\ post' = [post EXCEPT ![p] = [in |-> in, stage |-> "body", secret |-> item.secret, code |-> 0]]
                /\ UNCHANGED stuck
        /\ UNCHANGED <<items, order, pool, lost, warm>>

Firing == Cardinality({p \in Posts : post[p] # None /\ post[p].stage = "fire"})
Full == pool + Firing >= PoolMax

\* The body is read: too long, not authorized, shed by the pool, or fired.
BodyRead(p) ==
    LET in == post[p].in
        verdict == IF in.length = "streamed" THEN 413
                   ELSE IF Raises(in, post[p].secret) THEN 500
                   ELSE IF ~CheckTriggerAuth(in, post[p].secret) THEN 401
                   ELSE IF Full THEN 503 ELSE 202
    IN  /\ post[p] # None /\ post[p].stage = "body"
        /\ post' = [post EXCEPT ![p] = [in |-> in, stage |-> IF verdict = 202 THEN "fire" ELSE "done",
                                        secret |-> @.secret, code |-> verdict]]
        /\ running' = IF verdict \in {202, 500} THEN running ELSE running \ {in.endpoint}
        /\ stuck' = IF verdict = 500 THEN stuck \cup {in.endpoint} ELSE stuck
        /\ UNCHANGED <<items, order, pool, lost, warm>>

\* Mutant of Disconnect: the cancelled read keeps the slot.
DisconnectHolding(p) ==
    /\ post[p] # None /\ post[p].stage = "body"
    /\ post' = [post EXCEPT ![p].stage = "done"]
    /\ UNCHANGED <<items, order, running, pool, lost, stuck, warm>>

\* The client goes away, or the stream breaks, while the body is read.
Disconnect(p) ==
    /\ post[p] # None /\ post[p].stage = "body"
    /\ post' = [post EXCEPT ![p].stage = "done"]
    /\ running' = running \ {post[p].in.endpoint}
    /\ UNCHANGED <<items, order, pool, lost, stuck, warm>>

\* Mutant of FireEnds: the slot is left to the caller.
FireEndsHolding(p) ==
    /\ post[p] # None /\ post[p].stage = "fire"
    /\ post' = [post EXCEPT ![p].stage = "done"]
    /\ UNCHANGED <<items, order, running, pool, lost, stuck, warm>>

\* _fire ends, by answer, error or timeout: its finally.  The fan-out of the
\* completion is tracked while the firing task still counts, or shed for good.
FireEnds(p) ==
    /\ post[p] # None /\ post[p].stage = "fire"
    /\ post' = [post EXCEPT ![p].stage = "done"]
    /\ running' = running \ {post[p].in.endpoint}
    /\ lost' = IF Full THEN lost \cup {post[p].in.endpoint} ELSE lost
    /\ UNCHANGED <<items, order, pool, stuck, warm>>

\* The rest of the pool comes and goes.
PoolShifts(n) ==
    /\ n # pool /\ n + Firing <= PoolMax
    /\ pool' = n
    /\ UNCHANGED <<items, order, running, post, lost, stuck, warm>>

-----------------------------------------------------------------------------
Next ==
    \/ \E p \in Paths : Unregister(p) \/ \E f \in Files : Register(p, f)
    \/ BackendsReady
    \/ \E p \in Posts :
          \/ \E in \in Requests : Post(p, in)
          \/ BodyRead(p) \/ Disconnect(p) \/ FireEnds(p)
    \/ \E n \in 0..PoolMax : PoolShifts(n)

Spec == Init /\ [][Next]_trvars

\* The client sends its body or goes away; ON_PROMPT_COMPLETED_TIMEOUT bounds _fire.
Fairness == \A p \in Posts : WF_trvars(BodyRead(p) \/ Disconnect(p)) /\ WF_trvars(FireEnds(p))

LiveSpec == Spec /\ Fairness

-----------------------------------------------------------------------------
(* The slot of an endpoint is held exactly as long as one request reads    *)
(* its body or fires (#866): never by two, never by none, whatever happens *)
(* to the trigger's file meanwhile.  A handler that raised on the way      *)
(* leaves its slot taken, and that slot alone.                             *)
SlotExact ==
    LET holders(e) == {p \in Posts : /\ post[p] # None /\ post[p].stage # "done"
                                     /\ post[p].in.endpoint = e}
    IN  \A e \in Endpoints :
            Cardinality(holders(e)) = IF e \in running \ stuck THEN 1 ELSE 0

(* No endpoint answers 409 for ever, unless a handler raised.              *)
SlotFreed == \A e \in Endpoints : []<>(e \in stuck \/ e \notin running)
=============================================================================
