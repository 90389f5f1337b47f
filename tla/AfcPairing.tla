----------------------------- MODULE AfcPairing -----------------------------
(***************************************************************************)
(* backends/gemini/executor.py, _emit_afc_history: the tool calls that     *)
(* google-genai made inside a turn are read back from the chat history and *)
(* every function_response is paired with the function_call it answers:    *)
(* by id, else the oldest pending call of the same tool, else the oldest   *)
(* pending call of all.  The history before the turn only seeds the        *)
(* pending tables.                                                         *)
(*                                                                         *)
(* A call is numbered; `answers' says which call a response really         *)
(* answers, which the code cannot see, and 0 a call trimmed from the       *)
(* history.                                                                *)
(***************************************************************************)
EXTENDS Naturals, Sequences, FiniteSets, SequencesExt, Functions

CONSTANTS Tools, MaxParts

VARIABLES inPrefix,  \* reading prefix_history
          withIds,   \* the SDK puts an id on every call and response
          calls,     \* the tools of the calls read so far, in order
          openCalls, \* calls whose response has not been read
          byId,      \* pending_by_id: calls
          byName,    \* pending_by_name: tool -> calls, oldest first
          byIndex,   \* pending_by_index: calls, oldest first
          fromPrefix,\* calls of the prefix
          unpaired,  \* fr_counter
          trows,     \* tool_result rows: [of, paired], paired 0 when unpaired
          crossed    \* _cross_tool_fallback_count

afcvars == <<inPrefix, withIds, calls, openCalls, byId, byName, byIndex, fromPrefix, unpaired, trows, crossed>>

AfcInit ==
    /\ inPrefix = TRUE /\ withIds \in BOOLEAN
    /\ calls = <<>> /\ openCalls = {}
    /\ byId = {} /\ byName = [t \in Tools |-> <<>>] /\ byIndex = <<>>
    /\ fromPrefix = {} /\ unpaired = 0 /\ trows = <<>> /\ crossed = 0

Room == Len(calls) + Len(trows) < MaxParts

\* A call read from the history is pending, under its id too if it has one.
Pend(t) ==
    /\ Room
    /\ calls' = Append(calls, t)
    /\ LET c == Len(calls) + 1 IN
       /\ openCalls' = openCalls \cup {c}
       /\ byId' = IF withIds THEN byId \cup {c} ELSE byId
       /\ byName' = [byName EXCEPT ![t] = Append(@, c)]
       /\ byIndex' = Append(byIndex, c)

\* A function_call part of the history before the turn.
PrefixCall(t) ==
    /\ inPrefix /\ Pend(t)
    /\ fromPrefix' = fromPrefix \cup {Len(calls) + 1}
    /\ UNCHANGED <<inPrefix, withIds, unpaired, trows, crossed>>

\* A function_call part of the turn.
Call(t) ==
    /\ ~inPrefix /\ Pend(t)
    /\ UNCHANGED <<inPrefix, withIds, fromPrefix, unpaired, trows, crossed>>

\* Mutant: the oldest pending call of the tool, whatever the id.
NameBeforeId(c, t) == IF byName[t] # <<>> THEN Head(byName[t]) ELSE 0

\* The call a response of tool t that answers c is paired with; 0 for none.
Match(c, t) ==
    IF withIds /\ c \in byId THEN c
    ELSE IF byName[t] # <<>> THEN Head(byName[t])
    ELSE IF ~inPrefix /\ byIndex # <<>> THEN Head(byIndex)
    ELSE 0

\* Mutant: a call paired by id stays in the queue of its tool.
UnpendById(c) ==
    /\ byId' = byId \ {c}
    /\ byIndex' = RemoveFirst(byIndex, c)
    /\ UNCHANGED byName

\* A paired call leaves the three tables.
Unpend(c) ==
    /\ byId' = byId \ {c}
    /\ byIndex' = RemoveFirst(byIndex, c)
    /\ byName' = [t \in Tools |-> RemoveFirst(byName[t], c)]

\* A function_response part of the history before the turn only unpends.
PrefixResponse(c, t) ==
    /\ inPrefix /\ Room
    /\ openCalls' = openCalls \ {c}
    /\ Unpend(Match(c, t))
    /\ UNCHANGED <<inPrefix, withIds, calls, fromPrefix, unpaired, trows, crossed>>

\* A function_response part of the turn: a tool_result row, numbered apart
\* when it has no call.
Response(c, t) ==
    /\ ~inPrefix /\ Room
    /\ openCalls' = openCalls \ {c}
    /\ LET p == Match(c, t) IN
       /\ Unpend(p)
       /\ unpaired' = IF p = 0 THEN unpaired + 1 ELSE unpaired
       /\ trows' = Append(trows, [of |-> c, paired |-> p, n |-> unpaired'])
       /\ crossed' = IF p # 0 /\ calls[p] # t THEN crossed + 1 ELSE crossed
    /\ UNCHANGED <<inPrefix, withIds, calls, fromPrefix>>

\* The response of an open call, in any order, or of a call that was trimmed
\* away before the history was saved.
Answers == {<<c, calls[c]>> : c \in openCalls} \cup (IF withIds THEN {} ELSE {0} \X Tools)

\* The turn's own history begins.
TurnStarts ==
    /\ inPrefix
    /\ inPrefix' = FALSE
    /\ UNCHANGED <<withIds, calls, openCalls, byId, byName, byIndex, fromPrefix, unpaired, trows, crossed>>

AfcNext ==
    \/ \E t \in Tools : PrefixCall(t) \/ Call(t)
    \/ \E a \in Answers : PrefixResponse(a[1], a[2]) \/ Response(a[1], a[2])
    \/ TurnStarts

AfcSpec == AfcInit /\ [][AfcNext]_afcvars

\* With ids on both sides every response is paired with the call it answers,
\* also across the prefix and however parallel calls are answered.
IdsPairExactly == withIds => \A i \in DOMAIN trows : trows[i].paired = trows[i].of

\* No two tool_result rows of a turn have the same id: no call is answered
\* twice and unpaired rows are numbered apart.
ResultIdsDistinct ==
    \A i, j \in DOMAIN trows : i # j =>
        \/ trows[i].paired # trows[j].paired
        \/ trows[i].paired = 0 /\ trows[i].n # trows[j].n

=============================================================================
