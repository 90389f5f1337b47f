----------------------------- MODULE HistoryTrim -----------------------------
(***************************************************************************)
(* backends/gemini/executor.py, _save_history and _load_history: what is   *)
(* kept of a conversation.  The oldest entries go, first to meet the turn  *)
(* cap, then the byte cap, but only up to an entry the conversation may    *)
(* begin with: a user entry without a function_response.                   *)
(*                                                                         *)
(* An entry is [role, resp, size]: who spoke, whether one of its parts is  *)
(* a function_response, and its serialised size.                           *)
(***************************************************************************)
EXTENDS Naturals, Sequences, SequencesExt, FiniteSetsExt

CONSTANTS MaxTurns,  \* _SAVE_HISTORY_MAX_TURNS
          MaxBytes,  \* _SAVE_HISTORY_MAX_BYTES
          Sizes,     \* sizes of an entry
          TurnBound  \* bound on the turns of a conversation

\* Both caps are on; 0 turns a cap off.
TrimAssumption == MaxTurns \in Nat \ {0} /\ MaxBytes \in Nat \ {0} /\ Sizes \subseteq Nat

VARIABLES raw,     \* the serialised history
          saves,    \* turns so far
          forced   \* the last save had to split a call from its response

trimvars == <<raw, saves, forced>>

Entry(role, resp, size) == [role |-> role, resp |-> resp, size |-> size]

Bytes(h) == FoldSeq(LAMBDA e, n : e.size + n, 0, h)

\* An entry the history may begin with.
SafeHead(e) == e.role = "user" /\ ~e.resp

From(h, k) == SubSeq(h, k, Len(h))

\* Mutant: the first user entry is taken as the boundary.
FirstUserFrom(h, k) ==
    LET c == {i \in k..Len(h) : h[i].role = "user"} IN IF c = {} THEN 0 ELSE Min(c)
\* The first position from k on where the history may be cut; 0 for none.
SafeFrom(h, k) ==
    LET c == {i \in k..Len(h) : SafeHead(h[i])} IN IF c = {} THEN 0 ELSE Min(c)

\* Mutant: without a boundary in the window nothing is kept.
TurnCapWipes(h) ==
    IF Len(h) <= MaxTurns THEN h
    ELSE LET k == SafeFrom(h, Len(h) - MaxTurns + 1) IN IF k = 0 THEN <<>> ELSE From(h, k)
\* The turn cap: the last MaxTurns entries from a safe boundary on, all of
\* them when the window has no boundary.
TurnCap(h) ==
    IF Len(h) <= MaxTurns THEN h
    ELSE LET k == SafeFrom(h, Len(h) - MaxTurns + 1) IN IF k = 0 THEN h ELSE From(h, k)

UserFrom(h, k) ==
    LET c == {i \in k..Len(h) : h[i].role = "user"} IN IF c = {} THEN 0 ELSE Min(c)

\* The byte cap: drop up to the next safe boundary until it fits; without
\* one, split at the next user entry; without that, keep the rest.
ByteCap(h) ==
    LET keep[i \in DOMAIN h] ==
            LET k == SafeFrom(h, i + 1)
                u == UserFrom(h, i + 1)
            IN  IF Bytes(From(h, i)) <= MaxBytes \/ i = Len(h) THEN [from |-> i, forced |-> FALSE]
                ELSE IF k # 0 THEN keep[k]
                ELSE IF u # 0 THEN [keep[u] EXCEPT !.forced = TRUE]
                ELSE [from |-> i, forced |-> FALSE]
    IN  [raw |-> From(h, keep[1].from), forced |-> keep[1].forced]

\* What is written of a history, which is never empty.
Saved(h) == ByteCap(TurnCap(h))

TrimInit == raw = <<>> /\ saves = 0 /\ forced = FALSE

\* A turn: the user's entry, n tool round trips, the model's answer, then
\* the save, which the next turn resumes.  The SDK refuses a history that
\* begins with a response: that turn fails and the one after it starts over.
Turn(n, s) ==
    /\ saves < TurnBound
    /\ saves' = saves + 1
    /\ LET start == IF raw # <<>> /\ ~SafeHead(raw[1]) THEN <<>> ELSE raw
           tools == [i \in 1..(2 * n) |->
                        IF i % 2 = 1 THEN Entry("model", FALSE, 1) ELSE Entry("user", TRUE, s)]
           new   == start \o <<Entry("user", FALSE, 1)>> \o tools \o <<Entry("model", FALSE, 1)>>
       IN /\ raw' = Saved(new).raw
          /\ forced' = Saved(new).forced

TrimNext == \E n \in 0..3, s \in Sizes : Turn(n, s)

TrimSpec == TrimInit /\ [][TrimNext]_trimvars

\* A saved history can be resumed: it begins where a conversation may begin,
\* unless the save reported that it had to split.
ResumableUnlessForced == raw # <<>> /\ ~forced => SafeHead(raw[1])

\* A save never wipes the conversation, and always keeps the last entry.
NeverWiped == saves > 0 => raw # <<>> /\ Last(raw) = Entry("model", FALSE, 1)

\* The byte cap holds, except for a history no user entry divides.
WithinBytes == Bytes(raw) <= MaxBytes \/ UserFrom(raw, 2) = 0

=============================================================================
