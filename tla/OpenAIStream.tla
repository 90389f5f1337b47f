----------------------------- MODULE OpenAIStream -----------------------------
(***************************************************************************)
(* backends/openai/executor.run_query: what becomes of the events of one   *)
(* streamed run.  Text goes to the answer and, chunk by chunk, to the      *)
(* session stream; usage is held against the token budget; tool calls and  *)
(* their outputs are paired for the trace log.                             *)
(*                                                                         *)
(* Chunks are numbered.  A call may come without an id, and so may an      *)
(* output; the SDK answers the calls of one kind in the order it made them.*)
(***************************************************************************)
EXTENDS Naturals, Sequences, SequencesExt, FiniteSetsExt

CONSTANTS
    StreamTools,    \* tool names
    MaxChunks,      \* bound on the text chunks
    MaxCalls,       \* bound on the tool calls
    TokenBudget,    \* max_tokens of the request
    Usages          \* total_tokens a usage report may say

VARIABLES
    at,             \* streaming, budget, failed, answered
    collected,      \* the chunks of the answer
    shown,          \* the chunks on_chunk has published
    droppedChunks,  \* chunks whose on_chunk timed out
    tokens,         \* _total_tokens
    callsMade,      \* the calls: [tool, id: Boolean]; a call's id is its position
    synth,          \* _pending_synth_call_ids
    startTimes,     \* _tool_start_times
    answeredCalls,  \* calls the SDK has given the output of
    traced,         \* tool_result rows: [call, under, tool], call the true one
    loggedTokens,   \* tokens reported when the run ended
    agentLine       \* what the conversation log has as the agent's answer

streamvars == <<at, collected, shown, droppedChunks, tokens, callsMade, synth, startTimes,
                answeredCalls, traced, loggedTokens, agentLine>>

Unknown == 0
Nothing == <<>>

StreamInit ==
    /\ at = "streaming"
    /\ collected = <<>> /\ shown = <<>> /\ droppedChunks = {}
    /\ tokens = 0
    /\ callsMade = <<>> /\ synth = <<>> /\ startTimes = {}
    /\ answeredCalls = {} /\ traced = <<>>
    /\ loggedTokens = 0 /\ agentLine = Nothing

\* A text delta: kept, and given to on_chunk, which may take too long or raise;
\* a chunk it did not publish is not sent again.
Chunk ==
    /\ at = "streaming"
    /\ Len(collected) < MaxChunks
    /\ LET n == Len(collected) + 1
       IN  /\ collected' = Append(collected, n)
           /\ \/ shown' = Append(shown, n) /\ UNCHANGED droppedChunks
              \/ droppedChunks' = droppedChunks \cup {n} /\ UNCHANGED shown
    /\ UNCHANGED <<at, tokens, callsMade, synth, startTimes, answeredCalls, traced, loggedTokens, agentLine>>

Exceeds(n) == n >= TokenBudget

RunningTotal(u) == Max({tokens, u})

\* A usage report.  At the budget the run stops; what was collected so far is
\* logged and returned.
Usage(u) ==
    /\ at = "streaming"
    /\ tokens' = RunningTotal(u)
    /\ IF Exceeds(tokens')
         THEN /\ at' = "budget"
              /\ agentLine' = collected
              /\ loggedTokens' = tokens'
         ELSE UNCHANGED <<at, agentLine, loggedTokens>>
    /\ UNCHANGED <<collected, shown, droppedChunks, callsMade, synth, startTimes, answeredCalls, traced>>

\* A tool call.  Without an id it gets one, which is queued for its output.
ToolCall(t, withId) ==
    /\ at = "streaming"
    /\ Len(callsMade) < MaxCalls
    /\ LET c == Len(callsMade) + 1
       IN  /\ callsMade' = Append(callsMade, [tool |-> t, id |-> withId])
           /\ synth' = IF withId THEN synth ELSE Append(synth, c)
           /\ startTimes' = startTimes \cup {c}
    /\ UNCHANGED <<at, collected, shown, droppedChunks, tokens, answeredCalls, traced, loggedTokens, agentLine>>

\* Mutant of CallOf: the newest call without an id is taken.
CallOfNewest(c) == IF callsMade[c].id THEN c ELSE IF synth # <<>> THEN Last(synth) ELSE Unknown

\* The call an output is recorded under: its own id, or the oldest made-up id.
CallOf(c) == IF callsMade[c].id THEN c ELSE IF synth # <<>> THEN Head(synth) ELSE Unknown

\* The output of call c.
ToolOutput(c) ==
    /\ at = "streaming"
    /\ c \in 1..Len(callsMade) \ answeredCalls
    /\ ~callsMade[c].id => \A d \in 1..(c - 1) : callsMade[d].id \/ d \in answeredCalls
    /\ answeredCalls' = answeredCalls \cup {c}
    /\ LET under == CallOf(c)
       IN  /\ synth' = RemoveFirst(synth, under)
           /\ startTimes' = startTimes \ {under}
           /\ traced' = Append(traced, [call |-> c, under |-> under,
                                        tool |-> IF under = Unknown THEN "unknown" ELSE callsMade[under].tool])
    /\ UNCHANGED <<at, collected, shown, droppedChunks, tokens, callsMade, loggedTokens, agentLine>>

\* The run fails: nothing of it is logged as an answer.
RunFails ==
    /\ at = "streaming"
    /\ at' = "failed"
    /\ UNCHANGED <<collected, shown, droppedChunks, tokens, callsMade, synth, startTimes,
                   answeredCalls, traced, loggedTokens, agentLine>>

\* The final output the SDK gives: what it streamed, none, or another text.
Finals == {Nothing, collected, <<MaxChunks + 1>>}

\* The run is over: the final output is the answer, if there is one.
RunEnds(final) ==
    /\ at = "streaming"
    /\ at' = "answered"
    /\ collected' = IF final = Nothing THEN collected ELSE final
    /\ agentLine' = collected'
    /\ loggedTokens' = tokens
    /\ UNCHANGED <<shown, droppedChunks, tokens, callsMade, synth, startTimes, answeredCalls, traced>>

StreamNext ==
    \/ Chunk
    \/ \E u \in Usages : Usage(u)
    \/ \E t \in StreamTools, withId \in BOOLEAN : ToolCall(t, withId)
    \/ \E c \in 1..MaxCalls : ToolOutput(c)
    \/ RunFails
    \/ \E final \in Finals : RunEnds(final)

StreamSpec == StreamInit /\ [][StreamNext]_streamvars

-----------------------------------------------------------------------------
StreamTypeOK ==
    /\ at \in {"streaming", "budget", "failed", "answered"}
    /\ tokens \in 0..Max(Usages)
    /\ startTimes \subseteq 1..Len(callsMade)
    /\ droppedChunks \subseteq 1..MaxChunks

(* Each tool result is traced under the call it answers and with that      *)
(* call's tool, although ids are missing and calls run in parallel (#671,  *)
(* #1495); what is still pending is exactly what is unanswered.            *)
ResultsPaired ==
    /\ \A k \in DOMAIN traced : traced[k].under = traced[k].call
    /\ startTimes = 1..Len(callsMade) \ answeredCalls
    /\ ToSet(synth) = {c \in startTimes : ~callsMade[c].id}
=============================================================================
