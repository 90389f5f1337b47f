------------------------------ MODULE McpStacks ------------------------------
(***************************************************************************)
(* backends/gemini/executor.py: the stack of MCP server connections that   *)
(* all requests share.  A reload of mcp.json starts a new stack under the  *)
(* lock and parks the old one while requests still hold it; the last       *)
(* holder closes it, and a watchdog closes the ones whose release was      *)
(* lost.                                                                   *)
(*                                                                         *)
(* Stacks are numbered in the order they are opened.  Time is the age      *)
(* class of a parked stack: past the maximum age (twice the request time   *)
(* limit at least) no request can still be running on it.                  *)
(***************************************************************************)
EXTENDS Naturals, FiniteSets

CONSTANTS McpReqs,    \* requests
          Servers,    \* names of MCP servers
          MaxReloads, \* applications of a configuration
          Closed      \* no stack

VARIABLES stack,   \* _mcp_stack
          refcount,\* _mcp_stack_refcount
          parked,  \* _mcp_old_stacks: [id, ref, age]; its order is never looked at
          open,    \* stacks whose servers run
          applying,\* _apply_mcp_config in progress: [id, todo, live], or Closed
          config,  \* the configuration last applied
          live,    \* servers of the current stack
          up,      \* servers whose backend_mcp_server_up gauge is 1
          known,   \* _mcp_known_servers
          mreq,    \* where a request is: [st, on]
          opened,  \* stacks opened so far
          down     \* close() has run

mcpvars == <<stack, refcount, parked, open, applying, config, live, up, known, mreq, opened, down>>

(* "No stack" is neither a number nor a reload in progress.                *)
McpAssumption ==
    /\ IsFiniteSet(McpReqs) /\ MaxReloads \in Nat
    /\ Closed \notin Nat
    /\ Closed \notin [id : 1..MaxReloads, todo : SUBSET Servers, live : SUBSET Servers]

LockFree == applying = Closed

McpInit ==
    /\ stack = Closed /\ refcount = 0
    /\ parked = {} /\ open = {}
    /\ applying = Closed /\ config = {} /\ live = {}
    /\ up = {} /\ known = {}
    /\ mreq = [r \in McpReqs |-> [st |-> "idle", on |-> Closed]]
    /\ opened = 0
    /\ down = FALSE

(***************************************************************************)
(* Requests.                                                               *)
(***************************************************************************)

\* _acquire_mcp_stack, under the lock.
Acquire(r) ==
    /\ mreq[r].st = "idle" /\ LockFree
    /\ refcount' = IF stack = Closed THEN refcount ELSE refcount + 1
    /\ mreq' = [mreq EXCEPT ![r] = [st |-> "running", on |-> stack]]
    /\ UNCHANGED <<stack, parked, open, applying, config, live, up, known, opened, down>>

\* run() returned, raised or was cancelled: the finally of execute.
RunEnds(r) ==
    /\ mreq[r].st = "running"
    /\ mreq' = [mreq EXCEPT ![r].st = "releasing"]
    /\ UNCHANGED <<stack, refcount, parked, open, applying, config, live, up, known, opened, down>>

Idle(r) == mreq' = [mreq EXCEPT ![r] = [st |-> "idle", on |-> Closed]]

\* Mutant: the count of a parked stack is dropped without a look at the others who hold it.
LastHolderAlways(p) == TRUE
LastHolder(p) == p.ref - 1 <= 0

\* An entry of _mcp_old_stacks is updated.
Replace(p, q) == (parked \ {p}) \cup {q}

\* _release_mcp_stack, under the lock: the current stack's count, or the
\* parked stack's, which is closed with its last holder.
Release(r) ==
    /\ mreq[r].st = "releasing" /\ LockFree
    /\ Idle(r)
    /\ LET on == mreq[r].on
           at == {p \in parked : p.id = on}
       IN IF on # Closed /\ stack = on
          THEN /\ refcount' = IF refcount > 0 THEN refcount - 1 ELSE 0
               /\ UNCHANGED <<parked, open>>
          ELSE /\ UNCHANGED refcount
               /\ IF on = Closed \/ at = {} THEN UNCHANGED <<parked, open>>
                  ELSE \E p \in at :
                       IF LastHolder(p)
                       THEN parked' = parked \ {p} /\ open' = open \ {on}
                       ELSE parked' = Replace(p, [p EXCEPT !.ref = @ - 1]) /\ UNCHANGED open
    /\ UNCHANGED <<stack, applying, config, live, up, known, opened, down>>

\* The request is cancelled while its release waits for the lock: the
\* reference is never given back.
ReleaseCancelled(r) ==
    /\ mreq[r].st = "releasing" /\ ~LockFree
    /\ Idle(r)
    /\ UNCHANGED <<stack, refcount, parked, open, applying, config, live, up, known, opened, down>>

(***************************************************************************)
(* _apply_mcp_config.                                                      *)
(***************************************************************************)

\* The previous stack is closed, or parked if requests hold it.
ParkPrevious ==
    /\ stack' = Closed /\ refcount' = 0 /\ live' = {}
    /\ IF stack = Closed THEN UNCHANGED <<parked, open>>
       ELSE IF refcount <= 0 THEN open' = open \ {stack} /\ UNCHANGED parked
       ELSE /\ parked' = parked \cup {[id |-> stack, ref |-> refcount, age |-> "fresh"]}
            /\ UNCHANGED open

\* An empty configuration (or a missing mcp package) starts nothing.
ApplyEmpty ==
    /\ ~down /\ LockFree /\ opened < MaxReloads
    /\ opened' = opened + 1
    /\ config' = {}
    /\ ParkPrevious
    /\ UNCHANGED <<applying, up, known, mreq, down>>

ApplyBegin(c) ==
    /\ ~down /\ LockFree /\ opened < MaxReloads
    /\ opened' = opened + 1
    /\ config' = c
    /\ ParkPrevious
    /\ applying' = [id |-> opened + 1, todo |-> c, live |-> {}]
    /\ UNCHANGED <<up, known, mreq, down>>

\* One server is started, or fails to and is left out.
ServerStarts(s) ==
    /\ ~LockFree /\ s \in applying.todo
    /\ applying' = [applying EXCEPT !.todo = @ \ {s}, !.live = @ \cup {s}]
    /\ open' = open \cup {applying.id}
    /\ up' = up \cup {s} /\ known' = known \cup {s}
    /\ UNCHANGED <<stack, refcount, parked, config, live, mreq, opened, down>>

ServerFails(s) ==
    /\ ~LockFree /\ s \in applying.todo
    /\ applying' = [applying EXCEPT !.todo = @ \ {s}]
    /\ up' = up \ {s} /\ known' = known \cup {s}
    /\ UNCHANGED <<stack, refcount, parked, open, config, live, mreq, opened, down>>

\* Neither a url nor a command that the allow-list and the directory check let
\* through: the entry is passed over, its gauge left as it was.
ServerRefused(s) ==
    /\ ~LockFree /\ s \in applying.todo
    /\ applying' = [applying EXCEPT !.todo = @ \ {s}]
    /\ UNCHANGED <<stack, refcount, parked, open, config, live, up, known, mreq, opened, down>>

\* The gauges of the servers this reload removed are zeroed.
ApplyEnd ==
    /\ ~LockFree /\ applying.todo = {}
    /\ stack' = applying.id /\ live' = applying.live
    /\ open' = open \cup {applying.id}
    /\ up' = up \ (known \ config)
    /\ known' = config \cup (known \ config)
    /\ applying' = Closed
    /\ UNCHANGED <<refcount, parked, config, mreq, opened, down>>

(***************************************************************************)
(* mcp_parked_stacks_watchdog.                                             *)
(***************************************************************************)

InUse(id) == \E r \in McpReqs : mreq[r] = [st |-> "running", on |-> id]

\* Time passes for a parked stack.
Ages(p) ==
    /\ ~InUse(p.id)
    /\ p.age # "expired"
    /\ parked' = Replace(p, [p EXCEPT !.age = IF @ = "fresh" THEN "stale" ELSE "expired"])
    /\ UNCHANGED <<stack, refcount, open, applying, config, live, up, known, mreq, opened, down>>

\* Mutant: a stale stack that is still counted is kept for good.
ToCloseUncounted(p) == p.age # "fresh" /\ p.ref <= 0
\* Stale and released, or stale for the hard grace period.
ToClose(p) == \/ p.age # "fresh" /\ p.ref <= 0
              \/ p.age = "expired"

Watchdog ==
    /\ ~down /\ LockFree
    /\ \E p \in parked : ToClose(p)
    /\ open' = open \ {p.id : p \in {q \in parked : ToClose(q)}}
    /\ parked' = {p \in parked : ~ToClose(p)}
    /\ UNCHANGED <<stack, refcount, applying, config, live, up, known, mreq, opened, down>>

\* close(): the watchers are cancelled wherever they are, the current stack
\* and the parked ones are closed whoever holds them.
CloseAll ==
    /\ ~down
    /\ down' = TRUE
    /\ applying' = Closed
    /\ open' = open \ ({stack} \cup {p.id : p \in parked})
    /\ parked' = {} /\ stack' = Closed /\ live' = {}
    /\ refcount' = IF stack = Closed THEN refcount ELSE 0
    /\ up' = IF stack = Closed THEN up ELSE up \ known
    /\ UNCHANGED <<config, known, mreq, opened>>

McpNext ==
    \/ \E r \in McpReqs : Acquire(r)
    \/ \E r \in McpReqs : RunEnds(r)
    \/ \E r \in McpReqs : Release(r)
    \/ \E r \in McpReqs : ReleaseCancelled(r)
    \/ ApplyEmpty
    \/ \E c \in SUBSET Servers \ {{}} : ApplyBegin(c)
    \/ \E s \in Servers : ServerStarts(s)
    \/ \E s \in Servers : ServerFails(s)
    \/ \E s \in Servers : ServerRefused(s)
    \/ ApplyEnd
    \/ \E p \in parked : Ages(p)
    \/ Watchdog
    \/ CloseAll

\* The watchdog's loop and the clock run on; requests end within their time
\* limit; a server's start comes to an end, with a stack or without.
McpFairness ==
    /\ WF_mcpvars(Watchdog)
    /\ WF_mcpvars(\E p \in parked : Ages(p))
    /\ WF_mcpvars(\E s \in Servers : ServerStarts(s) \/ ServerFails(s) \/ ServerRefused(s))
    /\ WF_mcpvars(ApplyEnd)
    /\ \A r \in McpReqs : WF_mcpvars(RunEnds(r))

McpSpec == McpInit /\ [][McpNext]_mcpvars /\ McpFairness

McpTypeOK ==
    /\ refcount \in 0..(2 * Cardinality(McpReqs) * MaxReloads)
    /\ open \subseteq 1..MaxReloads
    /\ up \subseteq known /\ known \subseteq Servers /\ live \subseteq Servers
    /\ opened \in 0..MaxReloads

\* Until the process shuts down, the servers of a stack run for as long as a
\* request is running on it, whatever reloads, releases and watchdog do.
NeverClosedInUse ==
    ~down => \A r \in McpReqs :
        mreq[r].st = "running" /\ mreq[r].on # Closed => mreq[r].on \in open

\* A parked stack is closed in the end, also when the reference of a
\* cancelled request was lost.
ParkedReclaimed == \A n \in 1..MaxReloads : []<>(n \notin open \/ n = stack \/ down)

\* Outside a reload a server's gauge is 1 only if the current stack has it
\* ("false-OK alerting cannot hide a renamed/removed server").
UpGaugeTruthful == LockFree /\ ~down => up = live

\* close() leaves no server running.
NothingRunsAfterClose == down => open = {}

=============================================================================
