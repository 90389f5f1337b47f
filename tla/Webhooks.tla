------------------------------ MODULE Webhooks ------------------------------
(***************************************************************************)
(* harness/webhooks.py: parsing of subscription files, the registry of     *)
(* WebhookRunner, fire and fire_hook_decision with their two caps, a       *)
(* delivery (deliver, _deliver_hook_decision), the retry chain it leaves   *)
(* behind (_tracked_retry, _retry_deliver) with its byte budgets, and      *)
(* close.                                                                  *)
(*                                                                         *)
(* A chain is one delivery task and the retry task it may start: the two   *)
(* are counted separately by the caps and overlap until the delivery's     *)
(* done-callback has run.  fire is not a coroutine: one call visits every  *)
(* subscription in dictionary order.  The budget's lock is never held      *)
(* across an await, so granting and releasing bytes are single steps.      *)
(***************************************************************************)
EXTENDS Naturals, Integers, SequencesExt, FiniteSetsExt

CONSTANTS
    Paths,       \* subscription files
    Files,       \* front matter a file may hold
    Kinds,       \* prompt kinds
    GlobalCap,   \* WEBHOOK_MAX_CONCURRENT_DELIVERIES
    DefaultCap,  \* WEBHOOK_MAX_CONCURRENT_DELIVERIES_PER_SUB
    Budget,      \* WEBHOOK_RETRY_BYTES_BUDGET, 0 for none
    SubBudget,   \* WEBHOOK_RETRY_BYTES_PER_SUB, 0 for none
    Allowed,     \* hosts of WEBHOOK_URL_ALLOWED_HOSTS
    SkipDns,     \* WEBHOOK_ALLOW_LOOPBACK_HOSTS
    None

Names == {f.name : f \in Files}
ChainIds == 1..GlobalCap        \* enough: a chain starts only below GlobalCap

VARIABLES
    items,     \* _items
    order,     \* its keys, oldest insertion first
    chains,    \* _active_deliveries, and through the name _deliveries_by_name
    bytes,     \* _webhook_retry_bytes_inflight
    subBytes,  \* _webhook_retry_bytes_per_sub
    closing,   \* close(): "no", "draining", "closed"
    awaited    \* the tasks close() gathers: <<chain, "task" or "retry">>

whvars == <<items, order, chains, bytes, subBytes, closing, awaited>>

-----------------------------------------------------------------------------
(* Parsing *)

\* _validate_url of a url whose host answers dns; a host is an alias of
\* loopback, a private address, or a name.
ValidateUrl(url, dns) ==
    /\ url.scheme \in {"http", "https"}
    /\ url.host # None
    /\ \/ url.host \in Allowed /\ SkipDns
       \/ /\ url.host \in Allowed \/ url.class = "name"
          /\ dns = "public"

DnsAnswers == {"none", "private", "public"}

\* An entry of events: is a base kind and a qualifier ("" for none).
KnownEvent(e) ==
    \/ e[1] = "completion" /\ e[2] = ""
    \/ e[1] = "hook.decision" /\ e[2] \in {"", "allow", "warn", "deny"}

\* _normalize_events_field
NormalizeEvents(raw) ==
    LET cleaned == {e \in raw : KnownEvent(e)}
    IN  IF cleaned = {} THEN {<<"completion", "">>} ELSE cleaned

\* _events_match
EventsMatch(events, kind, qualifier) ==
    \/ <<kind, "">> \in events
    \/ kind = "hook.decision" /\ qualifier # "" /\ <<kind, qualifier>> \in events

\* The url of a file: a template with references to built-in variables only, or
\* a literal taken from the environment.
UrlOf(f) ==
    IF \/ f.url = None
       \/ f.from = "env" /\ f.refs # {}
       \/ f.from = "url" /\ "other" \in f.refs
      THEN None ELSE f.url

\* parse_webhook_file; dns is what the resolver says while it runs.
Parse(f, dns) ==
    IF ~f.enabled
      THEN [name |-> f.name, enabled |-> FALSE, url |-> f.url, when |-> "on_success",
            kinds |-> {}, events |-> {<<"completion", "">>}, retries |-> 0,
            cap |-> DefaultCap, size |-> f.size]
    ELSE IF UrlOf(f) = None \/ ~ValidateUrl(f.url, dns) THEN None
    ELSE [name |-> f.name, enabled |-> TRUE, url |-> f.url,
          when |-> IF f.when \in {"always", "on_success", "on_error"} THEN f.when ELSE "on_success",
          kinds |-> f.kinds,
          events |-> NormalizeEvents(f.events),
          retries |-> IF f.retries \in Int THEN Max({0, f.retries}) ELSE 0,
          cap |-> IF f.cap \in Int \ {0} THEN Max({1, f.cap}) ELSE DefaultCap,
          size |-> f.size]

Subs == {Parse(f, dns) : f \in Files, dns \in DnsAnswers} \ {None}

-----------------------------------------------------------------------------
TaskStates == {"prepare", "post", "leaving", "gone"}
RetryStates == {"none", "sleep", "post"}
Chain == [sub : Subs, hook : BOOLEAN, task : TaskStates, retry : RetryStates, posts : Nat]

WebhookAssumption ==
    /\ GlobalCap \in Nat \ {0} /\ DefaultCap \in Nat \ {0}
    /\ Budget \in Nat /\ SubBudget \in Nat
    /\ SkipDns \in BOOLEAN
    /\ \A f \in Files : f.size \in Nat
    /\ None \notin Chain

TypeOK ==
    /\ items \in [Paths -> Subs \cup {None}]
    /\ \A p \in Paths : items[p] # None <=> Contains(order, p)
    /\ chains \in [ChainIds -> Chain \cup {None}]
    /\ bytes \in Nat
    /\ subBytes \in [Names -> Nat]
    /\ closing \in {"no", "draining", "closed"}
    /\ awaited \in SUBSET (ChainIds \X {"task", "retry"})

Init ==
    /\ items = [p \in Paths |-> None]
    /\ order = <<>>
    /\ chains = [c \in ChainIds |-> None]
    /\ bytes = 0
    /\ subBytes = [n \in Names |-> 0]
    /\ closing = "no"
    /\ awaited = {}

\* The tasks of the registries, per chain.
Tasks(cs) ==
    {t \in ChainIds \X {"task", "retry"} :
        /\ cs[t[1]] # None
        /\ IF t[2] = "task" THEN cs[t[1]].task # "gone" ELSE cs[t[1]].retry # "none"}
Named(cs, n) == {t \in Tasks(cs) : cs[t[1]].sub.name = n}
Free(cs) == {c \in ChainIds : cs[c] = None}

-----------------------------------------------------------------------------
(* The registry, driven by the file watcher *)

\* _register: a file that does not parse leaves the old subscription in place;
\* otherwise the item moves to the end of the dictionary.
Register(p, f, dns) ==
    /\ closing = "no"
    /\ Parse(f, dns) # None
    /\ items' = [items EXCEPT ![p] = Parse(f, dns)]
    /\ order' = Append(RemoveFirst(order, p), p)
    /\ UNCHANGED <<chains, bytes, subBytes, closing, awaited>>

\* _unregister: deliveries under way are not cancelled.
Unregister(p) ==
    /\ closing = "no"
    /\ items[p] # None
    /\ items' = [items EXCEPT ![p] = None]
    /\ order' = RemoveFirst(order, p)
    /\ UNCHANGED <<chains, bytes, subBytes, closing, awaited>>

-----------------------------------------------------------------------------
(* fire and fire_hook_decision *)

\* _matches_filters, the response filter left out: it selects like the kind's.
MatchesFilters(sub, kind, success) ==
    /\ EventsMatch(sub.events, "completion", "")
    /\ sub.when = "on_success" => success
    /\ sub.when = "on_error" => ~success
    /\ sub.kinds # {} => kind \in sub.kinds

\* Mutant of AtCap: the per-subscription cap alone.
AtSubCap(cs, sub) == Cardinality(Named(cs, sub.name)) >= sub.cap

\* Either cap reached: the delivery is shed.
AtCap(cs, sub) ==
    \/ Cardinality(Named(cs, sub.name)) >= sub.cap
    \/ Cardinality(Tasks(cs)) >= GlobalCap

\* create_task, entered in both registries.
Started(cs, sub, hook) ==
    [cs EXCEPT ![Min(Free(cs))] =
        [sub |-> sub, hook |-> hook, task |-> "prepare", retry |-> "none", posts |-> 0]]

VisitSub(cs, sub, hook, matches) ==
    IF sub.enabled /\ matches /\ ~AtCap(cs, sub) /\ Free(cs) # {}
      THEN Started(cs, sub, hook) ELSE cs

\* One pass over the subscriptions in dictionary order; hits are those whose
\* filters match.
Fired(hits, hook) ==
    FoldLeft(LAMBDA cs, p : VisitSub(cs, items[p], hook, p \in hits), chains, order)

\* A prompt has completed (on_prompt_completed).
Fire(kind, success) ==
    /\ closing = "no"
    /\ chains' = Fired({p \in Paths : items[p] # None /\ MatchesFilters(items[p], kind, success)},
                       FALSE)
    /\ UNCHANGED <<items, order, bytes, subBytes, closing, awaited>>

\* A hook decision was published; an odd decision has no qualifier.
FireHookDecision(decision) ==
    LET qualifier == IF decision \in {"allow", "warn", "deny"} THEN decision ELSE ""
    IN  /\ closing = "no"
        /\ chains' = Fired({p \in Paths : /\ items[p] # None
                                          /\ EventsMatch(items[p].events, "hook.decision", qualifier)},
                           TRUE)
        /\ UNCHANGED <<items, order, bytes, subBytes, closing, awaited>>

-----------------------------------------------------------------------------
(* deliver and _deliver_hook_decision *)

\* The chain after a change; a chain without a task is dropped by the callbacks.
Put(c, rec) ==
    [chains EXCEPT ![c] = IF rec.task = "gone" /\ rec.retry = "none" THEN None ELSE rec]

Leave(c) ==
    /\ chains' = Put(c, [chains[c] EXCEPT !.task = "gone"])
    /\ UNCHANGED <<items, order, bytes, subBytes, closing, awaited>>

\* An empty or rejected url, before the extractions or right before the POST.
Rejected(c) ==
    /\ chains[c] # None /\ chains[c].task = "prepare"
    /\ \E dns \in DnsAnswers : ~ValidateUrl(chains[c].sub.url, dns)
    /\ Leave(c)

\* The url is accepted twice and the extractions, each bounded by a timeout,
\* are over, whatever they gave: body and headers are rendered, the POST is sent.
Prepared(c) ==
    /\ chains[c] # None /\ chains[c].task = "prepare"
    /\ \E dns \in DnsAnswers : ValidateUrl(chains[c].sub.url, dns)
    /\ chains' = [chains EXCEPT ![c].task = "post", ![c].posts = 1]
    /\ UNCHANGED <<items, order, bytes, subBytes, closing, awaited>>

\* What a POST may come to: a closed client raises.
Outcomes == IF closing = "closed" THEN {"error"} ELSE {"ok", "permanent", "transient", "error"}
Retryable(outcome) == outcome \in {"transient", "error"}

\* Mutant of Granted: >= for >.
GrantedLate(sub) ==
    \/ Budget = 0
    \/ /\ SubBudget > 0 => subBytes[sub.name] <= SubBudget
       /\ bytes <= Budget

\* The byte budgets of retries, the subscription's first.
Granted(sub) ==
    \/ Budget = 0
    \/ /\ SubBudget > 0 => subBytes[sub.name] + sub.size <= SubBudget
       /\ bytes + sub.size <= Budget

Wants(c, outcome) == ~chains[c].hook /\ chains[c].sub.retries > 0 /\ Retryable(outcome)

\* The first attempt ends the delivery.
DeliveryEnds(c) ==
    /\ chains[c] # None /\ chains[c].task = "post"
    /\ \E outcome \in Outcomes : Wants(c, outcome) => ~Granted(chains[c].sub)
    /\ Leave(c)

\* The first attempt leaves a retry task behind, registered before it runs.
RetryScheduled(c) ==
    LET sub == chains[c].sub
    IN  /\ chains[c] # None /\ chains[c].task = "post"
        /\ \E outcome \in Outcomes : Wants(c, outcome)
        /\ Granted(sub)
        /\ IF Budget = 0 THEN UNCHANGED <<bytes, subBytes>>
           ELSE /\ bytes' = bytes + sub.size
                /\ subBytes' = [subBytes EXCEPT ![sub.name] = @ + sub.size]
        /\ chains' = [chains EXCEPT ![c].task = "leaving", ![c].retry = "sleep"]
        /\ UNCHANGED <<items, order, closing, awaited>>

\* The delivery's done-callback.
DeliveryDone(c) ==
    /\ chains[c] # None /\ chains[c].task = "leaving"
    /\ Leave(c)

-----------------------------------------------------------------------------
(* _tracked_retry and _retry_deliver *)

\* Mutant of Release: the subscription's share is kept.
ReleaseTotal(sub) ==
    /\ bytes' = IF Budget = 0 THEN bytes ELSE Max({0, bytes - sub.size})
    /\ UNCHANGED subBytes

\* finally: give the bytes back.
Release(sub) ==
    IF Budget = 0 THEN UNCHANGED <<bytes, subBytes>>
    ELSE /\ bytes' = Max({0, bytes - sub.size})
         /\ subBytes' = [subBytes EXCEPT ![sub.name] = Max({0, @ - sub.size})]

EndRetry(c) ==
    /\ Release(chains[c].sub)
    /\ chains' = Put(c, [chains[c] EXCEPT !.retry = "none"])
    /\ UNCHANGED <<items, order, closing, awaited>>

\* The backoff is over: check the url again, then POST.
RetryPosts(c) ==
    /\ chains[c] # None /\ chains[c].retry = "sleep"
    /\ \E dns \in DnsAnswers : ValidateUrl(chains[c].sub.url, dns)
    /\ chains' = [chains EXCEPT ![c].retry = "post", ![c].posts = @ + 1]
    /\ UNCHANGED <<items, order, bytes, subBytes, closing, awaited>>

RetryRejected(c) ==
    /\ chains[c] # None /\ chains[c].retry = "sleep"
    /\ \E dns \in DnsAnswers : ~ValidateUrl(chains[c].sub.url, dns)
    /\ EndRetry(c)

\* Mutant of Exhausted: one attempt too many.
ExhaustedLate(ch) == ch.posts > 1 + ch.sub.retries

Exhausted(ch) == ch.posts >= 1 + ch.sub.retries

\* A failed attempt that is not the last: back to sleep.
RetryFails(c) ==
    /\ chains[c] # None /\ chains[c].retry = "post"
    /\ \E outcome \in Outcomes : Retryable(outcome)
    /\ ~Exhausted(chains[c])
    /\ chains' = [chains EXCEPT ![c].retry = "sleep"]
    /\ UNCHANGED <<items, order, bytes, subBytes, closing, awaited>>

\* Success, a permanent error or the last attempt.
RetryEnds(c) ==
    /\ chains[c] # None /\ chains[c].retry = "post"
    /\ \E outcome \in Outcomes : ~Retryable(outcome) \/ Exhausted(chains[c])
    /\ EndRetry(c)

\* WEBHOOK_TOTAL_TIMEOUT_SECONDS cuts the chain off where it is.
TotalTimeout(c) ==
    /\ chains[c] # None /\ chains[c].retry # "none"
    /\ EndRetry(c)

-----------------------------------------------------------------------------
(* close, called when nothing fires any more *)

Close ==
    /\ closing = "no"
    /\ closing' = "draining"
    /\ awaited' = Tasks(chains)
    /\ UNCHANGED <<items, order, chains, bytes, subBytes>>

\* gather has returned: aclose.
Drained ==
    /\ closing = "draining"
    /\ awaited \cap Tasks(chains) = {}
    /\ closing' = "closed"
    /\ awaited' = {}
    /\ UNCHANGED <<items, order, chains, bytes, subBytes>>

Deliver(c) ==
    \/ Rejected(c) \/ Prepared(c) \/ DeliveryEnds(c) \/ RetryScheduled(c)
    \/ DeliveryDone(c)

Retry(c) ==
    \/ RetryPosts(c) \/ RetryRejected(c) \/ RetryFails(c) \/ RetryEnds(c)
    \/ TotalTimeout(c)

Next ==
    \/ \E p \in Paths : \/ Unregister(p)
                        \/ \E f \in Files, dns \in DnsAnswers : Register(p, f, dns)
    \/ \E k \in Kinds, success \in BOOLEAN : Fire(k, success)
    \/ \E d \in {"deny", "other"} : FireHookDecision(d)
    \/ \E c \in ChainIds : Deliver(c) \/ Retry(c)
    \/ Close \/ Drained

Spec == Init /\ [][Next]_whvars

(* Requests, extractions and backoffs are bounded by timeouts.             *)
Fairness ==
    \A c \in ChainIds : WF_whvars(Deliver(c)) /\ WF_whvars(Retry(c))

LiveSpec == Spec /\ Fairness /\ WF_whvars(Drained)

-----------------------------------------------------------------------------
(* The retry budgets count exactly the chains that hold them (#926, #1385, *)
(* #1466) and are never exceeded, whatever ends a chain and whatever       *)
(* becomes of its subscription's file meanwhile.                           *)
BudgetExact ==
    LET size == [c \in ChainIds |-> IF chains[c] = None THEN 0 ELSE chains[c].sub.size]
        retrying == {c \in ChainIds : chains[c] # None /\ chains[c].retry # "none"}
        held(n) == {c \in retrying : chains[c].sub.name = n}
    IN  Budget > 0 =>
          /\ \A n \in Names : subBytes[n] = SumFunctionOnSet(size, held(n))
          /\ bytes = SumFunctionOnSet(size, retrying)
          /\ bytes <= Budget
          /\ SubBudget > 0 => \A n \in Names : subBytes[n] <= SubBudget

(* Retries are registered without looking at the caps, and still a chain   *)
(* never runs over its attempts and no more tasks are alive than two for   *)
(* each admitted delivery.                                                 *)
ChainsBounded ==
    /\ Cardinality(Tasks(chains)) <= 2 * GlobalCap
    /\ \A c \in ChainIds :
          chains[c] # None => /\ chains[c].posts <= 1 + chains[c].sub.retries
                              /\ chains[c].hook => chains[c].retry = "none"

(* Every delivery comes to an end with all its retries.                    *)
ChainEnds == \A c \in ChainIds : []<>(chains[c] = None)

(* close() is to "drain in-flight deliveries (including any pending retry  *)
(* tasks) and then close the shared AsyncClient": no chain outlives it.    *)
ClientOutlivesChains == closing = "closed" => Tasks(chains) = {}
=============================================================================
