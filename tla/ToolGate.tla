------------------------------ MODULE ToolGate -------------------------------
(***************************************************************************)
(* The gate in front of a tool call: the rule engine (hooks_engine.py),    *)
(* the reload of hooks.yaml, the PreToolUse and PostToolUse hooks of the   *)
(* claude backend, and the shell executor of the openai backend, which     *)
(* runs a list of commands one by one behind the same baseline.            *)
(*                                                                         *)
(* A rule is the tool it is for (AnyTool for all), its action, and the     *)
(* inputs its predicate or pattern matches.  hooks.yaml is a sequence of   *)
(* entries, some of which are not rules, or it is missing or malformed.    *)
(***************************************************************************)
EXTENDS Naturals, SequencesExt, FiniteSetsExt

CONSTANTS
    ToolNames,     \* tool names; "Bash" is the shell
    ToolInputs,    \* what a call or a command may ask for
    Baseline,      \* BASELINE_RULES
    LegacyHits,    \* inputs matched by the in-file shell rules of openai
    Entries,       \* entries of hooks.yaml: rules, or Junk
    Calls,         \* tool calls of the claude backend
    PostMax,       \* _HOOK_POST_MAX_INFLIGHT
    CommandMax,    \* bound: commands of a shell request
    EditMax,       \* bound: edits of hooks.yaml
    AnyTool, Junk, Missing, Malformed

GateAssumption ==
    /\ CommandMax \in Nat
    /\ Baseline \in Seq({Baseline[n] : n \in DOMAIN Baseline})

HookFiles == {Missing, Malformed} \cup BoundedSeq(Entries, 2)

VARIABLES
    gateOf,       \* the backend of the process: "claude" or "openai"
    baselineOn,   \* HOOKS_BASELINE_ENABLED
    extensions,   \* HookState.extensions
    hookFile,     \* hooks.yaml
    unread,       \* the watcher has an event for it
    parsing,      \* rules read on a thread, not yet swapped in; Missing if none
    edited,       \* edits so far
    call,         \* a tool call: what it is, where it stands, the verdict on it
    posting,      \* _INFLIGHT_HOOK_POSTS: calls whose decision is being posted
    shedding,     \* history: calls whose decision was shed
    shell,        \* the shell request: its commands, the outcome of each so far
    auditLog      \* rows of tool-activity.jsonl

gatevars == <<gateOf, baselineOn, extensions, hookFile, unread, parsing, edited, call, posting, shedding,
              shell, auditLog>>
hookConfig == <<gateOf, baselineOn, extensions, hookFile, unread, parsing, edited>>
claudeState == <<call, posting, shedding>>

------------------------------------------------------------------------------
(* The engine.                                                             *)

\* load_extension_rules: an unreadable file is an empty rule set, an entry that is
\* not a rule is skipped.
LoadExtensions(f) ==
    IF f \in {Missing, Malformed} THEN <<>>
    ELSE FoldLeft(LAMBDA rules, e : IF e = Junk THEN rules ELSE Append(rules, e), <<>>, f)

\* active_rules.
ActiveRules == (IF baselineOn THEN Baseline ELSE <<>>) \o extensions

ToolMatches(rule, tool) == rule.tool \in {AnyTool, tool}

\* A predicate of the baseline or a pattern of an extension finds the input.
Matches(rule, input) == input \in rule.hits

Hit(rule, tool, input) == ToolMatches(rule, tool) /\ Matches(rule, input)

\* A plausible bug: the first rule that matches decides.
EvaluateFirst(tool, input, rules) ==
    LET hit == SelectSeq(rules, LAMBDA r : Hit(r, tool, input))
    IN  IF hit = <<>> THEN "allow" ELSE Head(hit).action

\* evaluate_pre_tool_use: the rules in order up to the first that denies; a rule
\* that warns is only remembered.
Evaluate(tool, input, rules) ==
    LET Step(verdict, rule) ==
            IF verdict = "deny" \/ ~Hit(rule, tool, input) THEN verdict
            ELSE IF rule.action = "deny" THEN "deny" ELSE "warn"
    IN  FoldLeft(Step, "allow", rules)

\* _evaluate_shell_baseline: the rules for "Bash" alone, then the in-file ones.
ShellDenies(input) ==
    \/ \E n \in DOMAIN Baseline : Baseline[n].tool = "Bash" /\ Matches(Baseline[n], input)
    \/ input \in LegacyHits

------------------------------------------------------------------------------
(* hooks.yaml.                                                             *)

Edit ==
    /\ gateOf = "claude" /\ edited < EditMax
    /\ \E f \in HookFiles : hookFile' = f
    /\ unread' = TRUE /\ edited' = edited + 1
    /\ UNCHANGED <<gateOf, baselineOn, extensions, parsing, claudeState, shell, auditLog>>

\* The watcher reads the file on a thread ...
ReadHooks ==
    /\ unread /\ parsing = Missing
    /\ unread' = FALSE
    /\ parsing' = LoadExtensions(hookFile)
    /\ UNCHANGED <<gateOf, baselineOn, extensions, hookFile, edited, claudeState, shell, auditLog>>

\* ... and swaps the rules in under the lock.
SwapHooks ==
    /\ parsing # Missing
    /\ extensions' = parsing /\ parsing' = Missing
    /\ UNCHANGED <<gateOf, baselineOn, hookFile, unread, edited, claudeState, shell, auditLog>>

------------------------------------------------------------------------------
(* The hooks of the claude backend.                                        *)

\* The decision is posted to the harness, or shed at the cap, whatever it is.
PostDecision(c) ==
    \/ /\ Cardinality(posting) < PostMax
       /\ posting' = posting \cup {c} /\ UNCHANGED shedding
    \/ /\ Cardinality(posting) >= PostMax
       /\ shedding' = shedding \cup {c} /\ UNCHANGED posting

\* The PreToolUse hook: verdict on a snapshot of the rules; a denied call does not
\* run.
PreToolUse(c) ==
    /\ gateOf = "claude" /\ call[c].pc = "new"
    /\ \E tool \in ToolNames, input \in ToolInputs :
         LET verdict == Evaluate(tool, input, ActiveRules) IN
         call' = [call EXCEPT ![c] = [pc |-> IF verdict = "deny" THEN "denied" ELSE "running",
                                      tool |-> tool, input |-> input, verdict |-> verdict]]
    /\ PostDecision(c)
    /\ UNCHANGED <<hookConfig, shell, auditLog>>

PostDone(c) ==
    /\ c \in posting
    /\ posting' = posting \ {c}
    /\ UNCHANGED <<hookConfig, call, shedding, shell, auditLog>>

\* The tool has run: the PostToolUse hook writes the audit row.
PostToolUse(c) ==
    /\ call[c].pc = "running"
    /\ call' = [call EXCEPT ![c].pc = "ran"]
    /\ auditLog' = auditLog \cup {<<"call", c>>}
    /\ UNCHANGED <<hookConfig, posting, shedding, shell>>

------------------------------------------------------------------------------
(* The shell executor of the openai backend.                               *)

\* The command it is at.
Turn == Len(shell.done) + 1

\* A request for a list of commands.
ShellRequest ==
    /\ gateOf = "openai" /\ shell.pc = "idle"
    /\ \E cmds \in BoundedSeq(ToolInputs, CommandMax) :
         shell' = [pc |-> IF cmds = <<>> THEN "answered" ELSE "checking", cmds |-> cmds, done |-> <<>>]
    /\ UNCHANGED <<hookConfig, claudeState, auditLog>>

Finish(how) ==
    LET done == Append(shell.done, how) IN
    shell' = [shell EXCEPT !.done = done,
                           !.pc = IF how \in {"denied", "fault"} THEN "raised"
                                  ELSE IF how = "timeout" \/ Len(done) = Len(shell.cmds) THEN "answered"
                                  ELSE "checking"]

\* _check_shell_command_allowed: counted, written to the audit log, posted, raised.
ShellDeny ==
    /\ shell.pc = "checking" /\ ShellDenies(shell.cmds[Turn])
    /\ auditLog' = auditLog \cup {<<"deny", Turn>>}
    /\ Finish("denied")
    /\ UNCHANGED <<hookConfig, claudeState>>

\* A plausible bug: the row is written for what is about to be checked.
ShellAllowLate ==
    /\ shell.pc = "checking" /\ ~ShellDenies(shell.cmds[Turn])
    /\ shell' = [shell EXCEPT !.pc = "executing"]
    /\ UNCHANGED <<hookConfig, claudeState, auditLog>>

\* Allowed: the audit row is written before the command starts.
ShellAllow ==
    /\ shell.pc = "checking" /\ ~ShellDenies(shell.cmds[Turn])
    /\ auditLog' = auditLog \cup {<<"allow", Turn>>}
    /\ shell' = [shell EXCEPT !.pc = "executing"]
    /\ UNCHANGED <<hookConfig, claudeState>>

\* subprocess.run ends: the next command, unless it timed out or could not be run.
ShellRan ==
    /\ shell.pc = "executing"
    /\ \E how \in {"exit", "timeout", "fault"} : Finish(how)
    /\ UNCHANGED <<hookConfig, claudeState, auditLog>>

GateInit ==
    /\ \/ gateOf = "claude" /\ baselineOn \in BOOLEAN /\ hookFile \in HookFiles
       \/ gateOf = "openai" /\ baselineOn = TRUE /\ hookFile = Missing
    /\ extensions = LoadExtensions(hookFile)
    /\ unread = FALSE /\ parsing = Missing /\ edited = 0
    /\ call = [c \in Calls |-> [pc |-> "new", tool |-> AnyTool, input |-> AnyTool, verdict |-> "allow"]]
    /\ posting = {} /\ shedding = {}
    /\ shell = [pc |-> "idle", cmds |-> <<>>, done |-> <<>>]
    /\ auditLog = {}

GateNext ==
    \/ Edit
    \/ ReadHooks
    \/ SwapHooks
    \/ \E c \in Calls : PreToolUse(c) \/ PostDone(c) \/ PostToolUse(c)
    \/ ShellRequest
    \/ ShellDeny
    \/ ShellAllow
    \/ ShellRan

\* The watcher's task runs.
GateFairness == WF_gatevars(ReadHooks) /\ WF_gatevars(SwapHooks)
GateSpec == GateInit /\ [][GateNext]_gatevars /\ GateFairness

------------------------------------------------------------------------------
(* Properties.                                                             *)

GateTypeOK ==
    /\ baselineOn \in BOOLEAN /\ hookFile \in HookFiles /\ unread \in BOOLEAN
    /\ \A n \in DOMAIN extensions : extensions[n] \in Entries \ {Junk}
    /\ \A c \in Calls : call[c].pc \in {"new", "denied", "running", "ran"}
    /\ posting \cup shedding \subseteq Calls
    /\ shell.pc \in {"idle", "checking", "executing", "answered", "raised"}

\* The strictest rule in force wins whatever the order of the rules: a call is let
\* through only when no active rule that fits it denies, and without a warning only
\* when none warns; the rules are those of one moment, baseline and extensions.
StrictestWins ==
    [][\A c \in Calls : call[c].pc = "new" /\ call'[c].pc # "new" =>
          LET fits == {n \in DOMAIN ActiveRules : Hit(ActiveRules[n], call'[c].tool, call'[c].input)}
          IN  /\ (call'[c].pc = "denied") = (\E n \in fits : ActiveRules[n].action = "deny")
              /\ (call'[c].verdict = "allow") = (fits = {})]_gatevars

\* The audit log and the world agree: every command that was started has its allow
\* row, a denied one has its deny row and was not started, and nothing is started
\* after a denied, timed-out or failed command.
AuditTellsWhatRan ==
    LET started == {n \in DOMAIN shell.done : shell.done[n] # "denied"} \cup
                   (IF shell.pc = "executing" THEN {Turn} ELSE {})
    IN  /\ \A n \in 1..CommandMax : (<<"allow", n>> \in auditLog) = (n \in started)
        /\ \A n \in DOMAIN shell.done : shell.done[n] = "denied" =>
              <<"deny", n>> \in auditLog /\ ShellDenies(shell.cmds[n])
        /\ \A n \in 1..(Turn - 2) : shell.done[n] = "exit"

\* A malformed edit of hooks.yaml cannot disable the policy: the rules it replaces
\* stay in force.
MalformedKeepsPolicy == [][hookFile = Malformed /\ ~unread => extensions' = extensions]_gatevars
=============================================================================
