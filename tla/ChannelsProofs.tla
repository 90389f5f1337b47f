--------------------------- MODULE ChannelsProofs ---------------------------
(* Proofs about the channels of the agent for any set of trigger files,    *)
(* requests, hook decisions and spans, and for every cap.                  *)
EXTENDS MCChannels, LoopProofs

(* The instances count as this module does. *)
LEMMA TriggersCount == \A T : G!Cardinality(T) = Cardinality(T)
BY Zenon DEF G!Cardinality, Cardinality

-----------------------------------------------------------------------------
(* Triggers: who holds the slot of an endpoint. *)

HoldsSlot(frame) == frame # None /\ frame.stage # "done"
SlotOf(frame) == frame.in.endpoint

(* The slots in _running are those of the handlers that are not done, and  *)
(* those whose handler raised; no slot has two owners.                     *)
SlotInv ==
    /\ request \in [Posts -> G!Frames \cup {None}]
    /\ stuck \subseteq running
    /\ \A p \in Posts : HoldsSlot(request[p]) => SlotOf(request[p]) \in running \ stuck
    /\ \A p, q \in Posts :
          HoldsSlot(request[p]) /\ HoldsSlot(request[q]) /\ SlotOf(request[p]) = SlotOf(request[q])
            => p = q
    /\ \A e \in running \ stuck : \E p \in Posts : HoldsSlot(request[p]) /\ SlotOf(request[p]) = e

(* A frame is never None, so that a handler that wrote one is seen. *)
LEMMA FrameShape ==
    ASSUME NEW frame \in G!Frames
    PROVE  /\ frame # None
           /\ HoldsSlot(frame) <=> frame.stage # "done"
BY ChannelsAssumption DEF G!TriggerAssumption, HoldsSlot

(* A refusal claims nothing, but the one of a handler that raised keeps    *)
(* the slot it had claimed.                                                *)
LEMMA RefusedKeeps ==
    ASSUME SlotInv, NEW p \in Posts, request[p] = None,
           NEW f \in G!Frames, f.stage = "done", request' = [request EXCEPT ![p] = f],
           \/ UNCHANGED <<running, stuck>>
           \/ \E e : /\ e \notin running
                     /\ running' = running \cup {e} /\ stuck' = stuck \cup {e}
    PROVE  SlotInv'
<1>1. ~HoldsSlot(request[p]) /\ ~HoldsSlot(request'[p])
  BY FrameShape DEF SlotInv, HoldsSlot
<1>2. \A q \in Posts : q # p => request'[q] = request[q]
  BY DEF SlotInv
<1>3. request' \in [Posts -> G!Frames \cup {None}]
  BY DEF SlotInv
<1>4. running' \ stuck' = running \ stuck /\ stuck' \subseteq running'
  BY DEF SlotInv
<1> QED BY <1>1, <1>2, <1>3, <1>4 DEF SlotInv

LEMMA ClaimKeeps ==
    ASSUME SlotInv, NEW p \in Posts, request[p] = None,
           NEW f \in G!Frames, f.stage = "body", request' = [request EXCEPT ![p] = f],
           SlotOf(f) \notin running, running' = running \cup {SlotOf(f)}, UNCHANGED stuck
    PROVE  SlotInv'
<1>1. ~HoldsSlot(request[p]) /\ HoldsSlot(request'[p]) /\ request'[p] = f
  BY FrameShape DEF SlotInv, HoldsSlot
<1>2. \A q \in Posts : q # p => request'[q] = request[q]
  BY DEF SlotInv
<1>3. request' \in [Posts -> G!Frames \cup {None}]
  BY DEF SlotInv
<1>4. /\ running' \ stuck' = (running \ stuck) \cup {SlotOf(f)} /\ stuck' \subseteq running'
      /\ SlotOf(f) \notin running \ stuck
  BY DEF SlotInv
<1> QED BY <1>1, <1>2, <1>3, <1>4 DEF SlotInv

(* The owner of a slot is done: it gives the slot back, or raised with it. *)
LEMMA GiveBackKeeps ==
    ASSUME SlotInv, NEW p \in Posts, HoldsSlot(request[p]),
           NEW f \in G!Frames, f.stage = "done", request' = [request EXCEPT ![p] = f],
           \/ running' = running \ {SlotOf(request[p])} /\ UNCHANGED stuck
           \/ UNCHANGED running /\ stuck' = stuck \cup {SlotOf(request[p])}
    PROVE  SlotInv'
<1>1. ~HoldsSlot(request'[p])
  BY FrameShape DEF SlotInv, HoldsSlot
<1>2. \A q \in Posts : q # p => request'[q] = request[q]
  BY DEF SlotInv
<1>3. request' \in [Posts -> G!Frames \cup {None}]
  BY DEF SlotInv
<1>4. SlotOf(request[p]) \in running \ stuck
  BY DEF SlotInv
<1>5. /\ running' \ stuck' = (running \ stuck) \ {SlotOf(request[p])}
      /\ stuck' \subseteq running'
  BY <1>4 DEF SlotInv
<1>6. \A q \in Posts : HoldsSlot(request'[q]) =>
          SlotOf(request'[q]) \in running' \ stuck'
  BY <1>1, <1>2, <1>5 DEF SlotInv
<1>7. \A e \in running' \ stuck' : \E q \in Posts : HoldsSlot(request'[q]) /\ SlotOf(request'[q]) = e
  BY <1>1, <1>2, <1>5 DEF SlotInv
<1>8. \A q, t \in Posts :
          HoldsSlot(request'[q]) /\ HoldsSlot(request'[t]) /\ SlotOf(request'[q]) = SlotOf(request'[t])
            => q = t
  BY <1>1, <1>2 DEF SlotInv
<1> QED BY <1>3, <1>5, <1>6, <1>7, <1>8 DEF SlotInv

(* The body was read and the prompt fires: the slot stays where it is. *)
LEMMA FiresKeeps ==
    ASSUME SlotInv, NEW p \in Posts, HoldsSlot(request[p]),
           NEW f \in G!Frames, f.stage = "fire", SlotOf(f) = SlotOf(request[p]),
           request' = [request EXCEPT ![p] = f], UNCHANGED <<running, stuck>>
    PROVE  SlotInv'
<1>1. HoldsSlot(request'[p]) /\ SlotOf(request'[p]) = SlotOf(request[p])
  BY FrameShape DEF SlotInv
<1>2. \A q \in Posts : q # p => request'[q] = request[q]
  BY DEF SlotInv
<1>3. request' \in [Posts -> G!Frames \cup {None}]
  BY DEF SlotInv
<1> QED BY <1>1, <1>2, <1>3 DEF SlotInv

LEMMA TriggerPostKeeps ==
    ASSUME SlotInv, NEW p \in Posts, NEW in \in Requests, G!Post(p, in)
    PROVE  SlotInv'
<1>1. PICK item \in G!Items \cup {None} :
        /\ request[p] = None
        /\ IF ~warm THEN G!Refuse(p, in, 503) /\ UNCHANGED <<running, stuck>>
           ELSE IF item = None THEN G!Refuse(p, in, 404) /\ UNCHANGED <<running, stuck>>
           ELSE IF in.endpoint \in running THEN G!Refuse(p, in, 409) /\ UNCHANGED <<running, stuck>>
           ELSE IF item.secret = "none" /\ G!Raises(in, "none")
             THEN /\ G!Refuse(p, in, 500)
                  /\ running' = running \cup {in.endpoint}
                  /\ stuck' = stuck \cup {in.endpoint}
           ELSE IF ~G!PreAuthorized(in, item.secret)
             THEN G!Refuse(p, in, 401) /\ UNCHANGED <<running, stuck>>
           ELSE IF in.length = "declared"
             THEN G!Refuse(p, in, 413) /\ UNCHANGED <<running, stuck>>
           ELSE /\ running' = running \cup {in.endpoint}
                /\ request' = [request EXCEPT ![p] =
                     [in |-> in, stage |-> "body", secret |-> item.secret, code |-> 0]]
                /\ UNCHANGED stuck
  BY DEF G!Post
<1>2. ASSUME NEW code \in {401, 404, 409, 413, 500, 503}, G!Refuse(p, in, code),
             \/ UNCHANGED <<running, stuck>>
             \/ /\ in.endpoint \notin running
                /\ running' = running \cup {in.endpoint} /\ stuck' = stuck \cup {in.endpoint}
      PROVE  SlotInv'
  <2> DEFINE f == [in |-> in, stage |-> "done", secret |-> "none", code |-> code]
  <2>1. f \in G!Frames /\ f.stage = "done"
    BY DEF G!Frames, G!Stages, G!Codes
  <2>2. request' = [request EXCEPT ![p] = f]
    BY <1>2 DEF G!Refuse
  <2>3. \/ UNCHANGED <<running, stuck>>
        \/ \E e : /\ e \notin running
                  /\ running' = running \cup {e} /\ stuck' = stuck \cup {e}
    BY <1>2
  <2> HIDE DEF f
  <2> QED BY <1>1, <2>1, <2>2, <2>3, RefusedKeeps
<1>3. CASE ~warm \/ item = None \/ in.endpoint \in running
  BY <1>1, <1>2, <1>3
<1>4. CASE warm /\ item # None /\ in.endpoint \notin running
  <2>1. CASE item.secret = "none" /\ G!Raises(in, "none")
    BY <1>1, <1>2, <1>4, <2>1
  <2>2. CASE ~(item.secret = "none" /\ G!Raises(in, "none")) /\ ~G!PreAuthorized(in, item.secret)
    BY <1>1, <1>2, <1>4, <2>2
  <2>3. CASE /\ ~(item.secret = "none" /\ G!Raises(in, "none"))
             /\ G!PreAuthorized(in, item.secret) /\ in.length = "declared"
    BY <1>1, <1>2, <1>4, <2>3
  <2>4. CASE /\ ~(item.secret = "none" /\ G!Raises(in, "none"))
             /\ G!PreAuthorized(in, item.secret) /\ in.length # "declared"
    <3> DEFINE f == [in |-> in, stage |-> "body", secret |-> item.secret, code |-> 0]
    <3>1. f \in G!Frames /\ f.stage = "body" /\ SlotOf(f) = in.endpoint
      BY <1>4 DEF G!Frames, G!Stages, G!Codes, SlotOf
    <3>2. /\ running' = running \cup {in.endpoint} /\ UNCHANGED stuck
          /\ request' = [request EXCEPT ![p] = f]
      BY <1>1, <1>4, <2>4
    <3> HIDE DEF f
    <3> QED BY <1>1, <1>4, <3>1, <3>2, ClaimKeeps
  <2> QED BY <2>1, <2>2, <2>3, <2>4
<1> QED BY <1>3, <1>4

(* The frame after the body was read. *)
Read(frame, stage, code) ==
    [in |-> frame.in, stage |-> stage, secret |-> frame.secret, code |-> code]

LEMMA ReadIsFrame ==
    ASSUME NEW frame \in G!Frames, NEW stage \in G!Stages, NEW code \in G!Codes
    PROVE  /\ Read(frame, stage, code) \in G!Frames
           /\ Read(frame, stage, code).stage = stage
           /\ SlotOf(Read(frame, stage, code)) = SlotOf(frame)
BY DEF G!Frames, Read, SlotOf

LEMMA BodyReadKeeps ==
    ASSUME SlotInv, NEW p \in Posts, G!BodyRead(p)
    PROVE  SlotInv'
<1> DEFINE f == request[p]
           verdict == IF f.in.length = "streamed" THEN 413
                      ELSE IF G!Raises(f.in, f.secret) THEN 500
                      ELSE IF ~G!CheckTriggerAuth(f.in, f.secret) THEN 401
                      ELSE IF G!Full THEN 503 ELSE 202
<1>1. /\ request' = [request EXCEPT ![p] =
                        Read(f, IF verdict = 202 THEN "fire" ELSE "done", verdict)]
      /\ running' = IF verdict \in {202, 500} THEN running ELSE running \ {SlotOf(f)}
      /\ stuck' = IF verdict = 500 THEN stuck \cup {SlotOf(f)} ELSE stuck
  BY DEF G!BodyRead, SlotOf, Read
<1>2. verdict \in {202, 401, 413, 500, 503}
  OBVIOUS
<1>3. f \in G!Frames /\ HoldsSlot(f)
  BY DEF G!BodyRead, HoldsSlot, SlotInv
<1> HIDE DEF verdict
<1>4. CASE verdict = 202
  <2>1. "fire" \in G!Stages /\ 202 \in G!Codes
    BY DEF G!Stages, G!Codes
  <2>2. request' = [request EXCEPT ![p] = Read(f, "fire", 202)] /\ UNCHANGED <<running, stuck>>
    BY <1>1, <1>4
  <2>3. PICK g \in G!Frames : g = Read(f, "fire", 202) /\ g.stage = "fire" /\ SlotOf(g) = SlotOf(f)
    BY <1>3, <2>1, ReadIsFrame
  <2> QED BY <1>3, <2>2, <2>3, FiresKeeps
<1>5. CASE verdict # 202
  <2>1. PICK v \in {401, 413, 500, 503} : v = verdict
    BY <1>2, <1>5
  <2>2. "done" \in G!Stages /\ v \in G!Codes
    BY <1>2 DEF G!Stages, G!Codes
  <2>3. request' = [request EXCEPT ![p] = Read(f, "done", v)]
    BY <1>1, <1>5, <2>1
  <2>4. PICK g \in G!Frames : g = Read(f, "done", v) /\ g.stage = "done"
    BY <1>3, <2>2, ReadIsFrame
  <2>5. CASE running' = running \ {SlotOf(f)} /\ stuck' = stuck
    BY <1>3, <2>3, <2>4, <2>5, GiveBackKeeps
  <2>6. CASE running' = running /\ stuck' = stuck \cup {SlotOf(f)}
    BY <1>3, <2>3, <2>4, <2>6, GiveBackKeeps
  <2> QED BY <1>1, <1>5, <2>5, <2>6
<1> QED BY <1>4, <1>5

LEMMA HandlerEndsKeeps ==
    ASSUME SlotInv, NEW p \in Posts, G!Disconnect(p) \/ G!FireEnds(p)
    PROVE  SlotInv'
<1>1. /\ request[p] # None /\ HoldsSlot(request[p])
      /\ request' = [request EXCEPT ![p].stage = "done"]
      /\ running' = running \ {SlotOf(request[p])} /\ UNCHANGED stuck
  BY DEF G!Disconnect, G!FireEnds, HoldsSlot, SlotOf
<1> DEFINE f == [request[p] EXCEPT !.stage = "done"]
<1>2. f \in G!Frames /\ f.stage = "done"
  <2>1. request[p] \in G!Frames
    BY <1>1 DEF SlotInv
  <2> QED BY <2>1 DEF G!Frames, G!Stages
<1>3. request' = [request EXCEPT ![p] = f]
  BY <1>1 DEF SlotInv
<1> HIDE DEF f
<1> QED BY <1>1, <1>2, <1>3, GiveBackKeeps

LEMMA SlotsInit == G!Init => SlotInv
BY DEF G!Init, SlotInv, HoldsSlot

LEMMA SlotsNext == SlotInv /\ [G!Next]_trvars => SlotInv'
<1> SUFFICES ASSUME SlotInv, [G!Next]_trvars PROVE SlotInv'
  OBVIOUS
<1>1. ASSUME UNCHANGED <<request, running, stuck>> PROVE SlotInv'
  BY <1>1 DEF SlotInv
<1>2. ASSUME NEW p \in Paths, NEW f \in TriggerFiles, G!Unregister(p) \/ G!Register(p, f)
      PROVE  SlotInv'
  BY <1>1, <1>2 DEF G!Unregister, G!Register
<1>3. ASSUME NEW p \in Paths, G!Unregister(p)
      PROVE  SlotInv'
  BY <1>1, <1>3 DEF G!Unregister
<1>4. CASE G!BackendsReady \/ \E n \in 0..PoolMax : G!PoolShifts(n)
  BY <1>1, <1>4 DEF G!BackendsReady, G!PoolShifts
<1>5. ASSUME NEW p \in Posts,
             (\E in \in Requests : G!Post(p, in)) \/ G!BodyRead(p) \/ G!Disconnect(p)
               \/ G!FireEnds(p)
      PROVE  SlotInv'
  BY <1>5, TriggerPostKeeps, BodyReadKeeps, HandlerEndsKeeps
<1>6. CASE UNCHANGED trvars
  BY <1>1, <1>6 DEF trvars
<1> QED BY <1>2, <1>3, <1>4, <1>5, <1>6 DEF G!Next

LEMMA SlotInvCounts == SlotInv => SlotExact
<1> SUFFICES ASSUME SlotInv, NEW e
             PROVE  Cardinality({p \in Posts : /\ request[p] # None /\ request[p].stage # "done"
                                               /\ request[p].in.endpoint = e})
                      = IF e \in running \ stuck THEN 1 ELSE 0
  BY TriggersCount DEF SlotExact, G!SlotExact
<1> DEFINE owners == {p \in Posts : /\ request[p] # None /\ request[p].stage # "done"
                                    /\ request[p].in.endpoint = e}
<1>1. CASE e \in running \ stuck
  <2>1. PICK p \in Posts : HoldsSlot(request[p]) /\ SlotOf(request[p]) = e
    BY <1>1 DEF SlotInv
  <2>2. owners = {p}
    BY <2>1 DEF SlotInv, HoldsSlot, SlotOf
  <2> QED BY <1>1, <2>2, FS_Singleton
<1>2. CASE e \notin running \ stuck
  <2>1. owners = {}
    BY <1>2 DEF SlotInv, HoldsSlot, SlotOf
  <2> QED BY <1>2, <2>1, FS_EmptySet
<1> QED BY <1>1, <1>2

(* Whatever becomes of the trigger files, of the requests' bodies and of   *)
(* their clients: the slot of an endpoint is held by exactly one request   *)
(* while it reads or fires, and by none otherwise, the slots of handlers   *)
(* that raised apart (main.py, trigger_handler and _fire, #866).           *)
THEOREM SlotExactHolds == G!Init /\ [][G!Next]_trvars => []SlotExact
BY SlotsInit, SlotsNext, SlotInvCounts, PTL

-----------------------------------------------------------------------------
(* Hook posts: how often a decision is in the harness's queue. *)

LEMMA PostsCount == \A T : H!Cardinality(T) = Cardinality(T)
BY Zenon DEF H!Cardinality, Cardinality

Places(q, p) == {n \in 1..Len(q) : q[n] = p}

LEMMA PlacesCounted ==
    ASSUME NEW T, NEW q \in Seq(T), NEW p
    PROVE  IsFiniteSet(Places(q, p)) /\ Cardinality(Places(q, p)) \in Nat
<1>1. Len(q) \in Nat
  OBVIOUS
<1>2. IsFiniteSet(1..Len(q))
  BY <1>1, FS_Interval
<1>3. Places(q, p) \subseteq 1..Len(q)
  BY DEF Places
<1> QED BY <1>2, <1>3, FS_Subset, FS_CardinalityType

LEMMA PlacesEmpty == \A p : Cardinality(Places(<<>>, p)) = 0
<1>1. \A p : Places(<<>>, p) = {}
  BY DEF Places
<1> QED BY <1>1, FS_EmptySet

LEMMA PlacesAppend ==
    ASSUME NEW T, NEW q \in Seq(T), NEW x \in T, NEW p
    PROVE  Cardinality(Places(Append(q, x), p)) =
           IF x = p THEN Cardinality(Places(q, p)) + 1 ELSE Cardinality(Places(q, p))
<1>1. Len(q) \in Nat /\ Len(q) + 1 \notin Places(q, p)
  BY DEF Places
<1>2. CASE x = p
  <2>1. Places(Append(q, x), p) = Places(q, p) \cup {Len(q) + 1}
    BY <1>2 DEF Places
  <2> QED BY <1>1, <1>2, <2>1, PlacesCounted, FS_AddElement
<1>3. CASE x # p
  <2>1. Places(Append(q, x), p) = Places(q, p)
    BY <1>3 DEF Places
  <2> QED BY <1>3, <2>1
<1> QED BY <1>2, <1>3

LEMMA PlacesTail ==
    ASSUME NEW T, NEW q \in Seq(T), q # <<>>, NEW p
    PROVE  Cardinality(Places(Tail(q), p)) =
           IF Head(q) = p THEN Cardinality(Places(q, p)) - 1 ELSE Cardinality(Places(q, p))
<1>1. /\ Len(q) \in Nat \ {0} /\ Len(Tail(q)) = Len(q) - 1 /\ Head(q) = q[1]
      /\ Tail(q) \in Seq(T) /\ \A n \in 1..Len(q) - 1 : Tail(q)[n] = q[n + 1]
  OBVIOUS
<1> DEFINE later == Places(q, p) \ {1}
           shift == [n \in Places(Tail(q), p) |-> n + 1]
<1>2. shift \in Bijection(Places(Tail(q), p), later)
  <2>1. shift \in [Places(Tail(q), p) -> later]
    BY <1>1 DEF Places
  <2>2. \A n, m \in Places(Tail(q), p) : shift[n] = shift[m] => n = m
    BY <1>1 DEF Places
  <2>3. \A m \in later : \E n \in Places(Tail(q), p) : shift[n] = m
    <3> SUFFICES ASSUME NEW m \in later PROVE \E n \in Places(Tail(q), p) : shift[n] = m
      OBVIOUS
    <3>1. m - 1 \in Places(Tail(q), p) /\ m = (m - 1) + 1
      BY <1>1 DEF Places
    <3> QED BY <3>1
  <2> QED BY <2>1, <2>2, <2>3 DEF Bijection, Injection, Surjection, IsInjective
<1>3. Cardinality(later) = Cardinality(Places(Tail(q), p))
  <2>1. ExistsBijection(Places(Tail(q), p), later)
    BY <1>2 DEF ExistsBijection
  <2> QED BY <1>1, <2>1, PlacesCounted, FS_Bijection
<1>4. 1 \in Places(q, p) <=> Head(q) = p
  BY <1>1 DEF Places
<1>5. Cardinality(later) = IF 1 \in Places(q, p) THEN Cardinality(Places(q, p)) - 1
                           ELSE Cardinality(Places(q, p))
  BY PlacesCounted, FS_RemoveElement
<1> QED BY <1>3, <1>4, <1>5

-----------------------------------------------------------------------------
(* The in-flight sets, across the two threads. *)

PostStages == {"new", "shed", "ready", "sending", "pausing", "resending", "over", "done", "gone"}

(* The worker, once it has passed the cap, keeps its place until it has    *)
(* submitted the post.                                                     *)
InflightInv ==
    /\ post \in [H!HookPostIds -> PostStages]
    /\ hooked \subseteq Spans
    /\ worker \in {"locked", "submitted"} => span \in Spans
    /\ worker = "locked" => post[span] = "new" /\ Cardinality(inflightCf) < MaxInflight
    /\ IsFiniteSet(inflight) /\ IsFiniteSet(inflightCf)
    /\ H!InflightExact

LEMMA HookFacts ==
    /\ Decisions \cap Spans = {} /\ NoPost \notin H!HookPostIds
    /\ MaxInflight \in Nat /\ DecisionQueue \in Nat
BY ChannelsAssumption DEF H!HookAssumption

LEMMA HookPostKinds ==
    ASSUME NEW p
    PROVE  p \in H!HookPostIds <=> p \in Decisions \/ p \in Spans
BY DEF H!HookPostIds

(* Changing one post's stage: the sets that InflightExact compares with. *)
LEMMA StageMoves ==
    ASSUME InflightInv, NEW p \in H!HookPostIds, NEW s \in PostStages, H!Set(p, s)
    PROVE  /\ post' \in [H!HookPostIds -> PostStages]
           /\ post'[p] = s /\ \A q \in H!HookPostIds : q # p => post'[q] = post[q]
           /\ \A K \in {Decisions, Spans} :
                {q \in K : post'[q] \in H!Underway} =
                IF p \in K /\ s \in H!Underway THEN {q \in K : post[q] \in H!Underway} \cup {p}
                ELSE {q \in K : post[q] \in H!Underway} \ {p}
<1>1. /\ post' \in [H!HookPostIds -> PostStages]
      /\ post'[p] = s /\ \A q \in H!HookPostIds : q # p => post'[q] = post[q]
  BY DEF H!Set, InflightInv
<1>2. ASSUME NEW K \in {Decisions, Spans}
      PROVE  {q \in K : post'[q] \in H!Underway} =
             IF p \in K /\ s \in H!Underway THEN {q \in K : post[q] \in H!Underway} \cup {p}
             ELSE {q \in K : post[q] \in H!Underway} \ {p}
  <2>1. K \subseteq H!HookPostIds
    BY DEF H!HookPostIds
  <2> QED BY <1>1, <2>1
<1> QED BY <1>1, <1>2

(* A step of a post that is under way, or of one that is shed, and leaves  *)
(* the threads alone.                                                      *)
LEMMA StageKeeps ==
    ASSUME InflightInv, NEW p \in H!HookPostIds, NEW s \in PostStages, H!Set(p, s),
           post[p] \in H!Underway <=> s \in H!Underway,
           worker = "locked" => p # span,
           UNCHANGED <<worker, span, inflight, inflightCf, hooked>>
    PROVE  InflightInv'
<1>1. /\ {q \in Decisions : post'[q] \in H!Underway} = {q \in Decisions : post[q] \in H!Underway}
      /\ {q \in Spans : post'[q] \in H!Underway} = {q \in Spans : post[q] \in H!Underway}
  BY StageMoves
<1>2. worker' = "locked" => post'[span'] = "new"
  <2>1. worker = "locked" => span \in H!HookPostIds
    BY DEF InflightInv, H!HookPostIds
  <2> QED BY <2>1, StageMoves DEF InflightInv
<1>3. H!InflightExact'
  BY <1>1 DEF InflightInv, H!InflightExact
<1> QED BY <1>2, <1>3, StageMoves DEF InflightInv

(* The fields of InflightExact, with this module's cardinality. *)
LEMMA ExactIs ==
    H!InflightExact <=>
        /\ inflight = {p \in Decisions : post[p] \in H!Underway}
        /\ inflightCf = {p \in Spans : post[p] \in H!Underway}
        /\ Cardinality(inflight) <= MaxInflight /\ Cardinality(inflightCf) <= MaxInflight
BY PostsCount DEF H!InflightExact

LEMMA ExactIsNext ==
    H!InflightExact' <=>
        /\ inflight' = {p \in Decisions : post'[p] \in H!Underway}
        /\ inflightCf' = {p \in Spans : post'[p] \in H!Underway}
        /\ Cardinality(inflight') <= MaxInflight /\ Cardinality(inflightCf') <= MaxInflight
BY PostsCount DEF H!InflightExact

LEMMA SchedulePostKeeps ==
    ASSUME InflightInv, NEW p \in H!HookPostIds, H!SchedulePost(p)
    PROVE  InflightInv'
<1>1. /\ p \in Decisions /\ p \notin Spans /\ post[p] = "new"
      /\ UNCHANGED <<worker, span, inflightCf, hooked>>
  BY HookFacts DEF H!SchedulePost
<1>2. worker = "locked" => p # span
  BY <1>1 DEF InflightInv
<1>3. CASE H!Set(p, "shed") /\ UNCHANGED inflight
  <2>1. "shed" \in PostStages /\ "shed" \notin H!Underway /\ "new" \notin H!Underway
    BY DEF PostStages, H!Underway
  <2> QED BY <1>1, <1>2, <1>3, <2>1, StageKeeps
<1>4. CASE ~H!OverCap /\ H!Set(p, "ready") /\ inflight' = inflight \cup {p}
  <2>1. "ready" \in PostStages /\ "ready" \in H!Underway /\ "new" \notin H!Underway
    BY DEF PostStages, H!Underway
  <2>2. /\ {q \in Decisions : post'[q] \in H!Underway} =
              {q \in Decisions : post[q] \in H!Underway} \cup {p}
        /\ {q \in Spans : post'[q] \in H!Underway} = {q \in Spans : post[q] \in H!Underway}
    BY <1>1, <1>4, <2>1, StageMoves
  <2>3. p \notin inflight
    BY <1>1, <2>1, ExactIs DEF InflightInv
  <2>4. /\ IsFiniteSet(inflight') /\ Cardinality(inflight') = Cardinality(inflight) + 1
        /\ Cardinality(inflight) \in Nat
    BY <1>4, <2>3, FS_AddElement, FS_CardinalityType DEF InflightInv
  <2>5. Cardinality(inflight') <= MaxInflight
    BY <1>4, <2>4, PostsCount, HookFacts DEF H!OverCap
  <2>6. H!InflightExact'
    BY <1>1, <1>4, <2>2, <2>5, ExactIs, ExactIsNext DEF InflightInv
  <2>7. worker' = "locked" => post'[span'] = "new"
    BY <1>1, <1>2, <1>4, <2>1, StageMoves, HookPostKinds DEF InflightInv
  <2> QED BY <1>1, <1>4, <2>1, <2>4, <2>6, <2>7, StageMoves DEF InflightInv
<1> QED BY <1>3, <1>4 DEF H!SchedulePost

LEMMA TaskDoneKeeps ==
    ASSUME InflightInv, NEW p \in H!HookPostIds, H!TaskDone(p)
    PROVE  InflightInv'
<1>1. /\ p \in Decisions /\ p \notin Spans /\ post[p] = "over"
      /\ H!Set(p, "gone") /\ inflight' = inflight \ {p}
      /\ UNCHANGED <<worker, span, inflightCf, hooked>>
  BY HookFacts DEF H!TaskDone, H!Done
<1>2. "gone" \in PostStages /\ "gone" \notin H!Underway
  BY DEF PostStages, H!Underway
<1>3. /\ {q \in Decisions : post'[q] \in H!Underway} =
            {q \in Decisions : post[q] \in H!Underway} \ {p}
      /\ {q \in Spans : post'[q] \in H!Underway} = {q \in Spans : post[q] \in H!Underway}
  BY <1>1, <1>2, StageMoves
<1>4. IsFiniteSet(inflight') /\ Cardinality(inflight') <= Cardinality(inflight)
  BY <1>1, FS_Subset DEF InflightInv
<1>5. Cardinality(inflight') <= MaxInflight
  <2>1. Cardinality(inflight') \in Nat /\ Cardinality(inflight) \in Nat
    BY <1>4, FS_CardinalityType DEF InflightInv
  <2> QED BY <1>4, <2>1, ExactIs, HookFacts DEF InflightInv
<1>6. H!InflightExact'
  BY <1>1, <1>3, <1>5, ExactIs, ExactIsNext DEF InflightInv
<1>7. worker' = "locked" => post'[span'] = "new"
  BY <1>1, <1>2, StageMoves, HookPostKinds DEF InflightInv
<1> QED BY <1>1, <1>2, <1>4, <1>6, <1>7, StageMoves DEF InflightInv

LEMMA FutureDoneKeeps ==
    ASSUME InflightInv, NEW p \in H!HookPostIds, H!FutureDone(p)
    PROVE  InflightInv'
<1>1. /\ p \in Spans /\ p \notin Decisions /\ post[p] = "done"
      /\ H!Set(p, "gone") /\ inflightCf' = inflightCf \ {p}
      /\ UNCHANGED <<worker, span, inflight, hooked>>
  BY HookFacts DEF H!FutureDone, InflightInv
<1>2. "gone" \in PostStages /\ "gone" \notin H!Underway
  BY DEF PostStages, H!Underway
<1>3. /\ {q \in Spans : post'[q] \in H!Underway} = {q \in Spans : post[q] \in H!Underway} \ {p}
      /\ {q \in Decisions : post'[q] \in H!Underway} =
            {q \in Decisions : post[q] \in H!Underway}
  BY <1>1, <1>2, StageMoves
<1>4. IsFiniteSet(inflightCf') /\ Cardinality(inflightCf') <= Cardinality(inflightCf)
  BY <1>1, FS_Subset DEF InflightInv
<1>5. /\ Cardinality(inflightCf') <= MaxInflight
      /\ worker = "locked" => Cardinality(inflightCf') < MaxInflight
  <2>1. Cardinality(inflightCf') \in Nat /\ Cardinality(inflightCf) \in Nat
    BY <1>4, FS_CardinalityType DEF InflightInv
  <2> QED BY <1>4, <2>1, ExactIs, HookFacts DEF InflightInv
<1>6. H!InflightExact'
  BY <1>1, <1>3, <1>5, ExactIs, ExactIsNext DEF InflightInv
<1>7. worker' = "locked" => post'[span'] = "new"
  BY <1>1, <1>2, StageMoves, HookPostKinds DEF InflightInv
<1> QED BY <1>1, <1>2, <1>4, <1>5, <1>6, <1>7, StageMoves DEF InflightInv

LEMMA WorkerLocksKeeps ==
    ASSUME InflightInv, NEW p \in H!HookPostIds, H!WorkerLocks(p)
    PROVE  InflightInv'
<1>1. /\ worker = "idle" /\ p \in Spans /\ post[p] = "new"
      /\ UNCHANGED <<inflight, inflightCf, hooked>>
  BY DEF H!WorkerLocks, H!SpanEnds
<1>2. CASE H!Set(p, "shed") /\ UNCHANGED <<worker, span>>
  <2>1. "shed" \in PostStages /\ "shed" \notin H!Underway /\ "new" \notin H!Underway
    BY DEF PostStages, H!Underway
  <2> QED BY <1>1, <1>2, <2>1, StageKeeps
<1>3. CASE /\ Cardinality(inflight) + Cardinality(inflightCf) < MaxInflight
           /\ worker' = "locked" /\ span' = p /\ UNCHANGED post
  <2>1. Cardinality(inflightCf) < MaxInflight
    BY <1>3, FS_CardinalityType, HookFacts DEF InflightInv
  <2>2. H!InflightExact'
    BY <1>1, <1>3, ExactIs, ExactIsNext DEF InflightInv
  <2> QED BY <1>1, <1>3, <2>1, <2>2 DEF InflightInv
<1> QED BY <1>2, <1>3, PostsCount DEF H!WorkerLocks

LEMMA WorkerSubmitsKeeps ==
    ASSUME InflightInv, H!WorkerSubmits
    PROVE  InflightInv'
<1>1. /\ span \in Spans /\ span \notin Decisions /\ post[span] = "new"
      /\ span \in H!HookPostIds /\ Cardinality(inflightCf) < MaxInflight
      /\ H!Set(span, "ready") /\ inflightCf' = inflightCf \cup {span} /\ worker' = "submitted"
      /\ UNCHANGED <<span, inflight, hooked>>
  BY HookFacts, HookPostKinds DEF H!WorkerSubmits, InflightInv
<1>2. "ready" \in PostStages /\ "ready" \in H!Underway /\ "new" \notin H!Underway
  BY DEF PostStages, H!Underway
<1>3. /\ {q \in Spans : post'[q] \in H!Underway} =
            {q \in Spans : post[q] \in H!Underway} \cup {span}
      /\ {q \in Decisions : post'[q] \in H!Underway} =
            {q \in Decisions : post[q] \in H!Underway}
  BY <1>1, <1>2, StageMoves
<1>4. span \notin inflightCf
  BY <1>1, <1>2, ExactIs DEF InflightInv
<1>5. /\ IsFiniteSet(inflightCf') /\ Cardinality(inflightCf') = Cardinality(inflightCf) + 1
      /\ Cardinality(inflightCf) \in Nat
  BY <1>1, <1>4, FS_AddElement, FS_CardinalityType DEF InflightInv
<1>6. H!InflightExact'
  BY <1>1, <1>3, <1>5, ExactIs, ExactIsNext, HookFacts DEF InflightInv
<1> QED BY <1>1, <1>2, <1>5, <1>6, StageMoves DEF InflightInv

LEMMA WorkerRegistersKeeps ==
    ASSUME InflightInv, H!WorkerRegisters
    PROVE  InflightInv'
<1>1. /\ worker = "submitted" /\ worker' \in {"stuck", "idle"}
      /\ hooked' \in {hooked, hooked \cup {span}}
      /\ UNCHANGED <<inflight, inflightCf, post>>
  BY DEF H!WorkerRegisters
<1>2. H!InflightExact'
  BY <1>1, ExactIs, ExactIsNext DEF InflightInv
<1> QED BY <1>1, <1>2 DEF InflightInv

(* The steps of a post under way: where they start and where they lead. *)
Posting(p) ==
    \/ H!PostStarts(p) \/ H!NoToken(p) \/ H!Answered(p) \/ H!AnswerLost(p) \/ H!Resend(p)
    \/ H!FutureSet(p)

LEMMA PostingSteps ==
    ASSUME NEW p, Posting(p)
    PROVE  /\ \/ post[p] = "ready" /\ (H!Set(p, "sending") \/ H!Set(p, "over"))
              \/ post[p] = "sending" /\ (H!Set(p, "pausing") \/ H!Set(p, "over"))
              \/ post[p] = "pausing" /\ H!Set(p, "resending")
              \/ post[p] = "resending" /\ H!Set(p, "over")
              \/ post[p] = "over" /\ p \in Spans /\ H!Set(p, "done")
           /\ UNCHANGED <<worker, span, inflight, inflightCf, hooked>>
           /\ \/ UNCHANGED <<hqueue, accepted, dispatched, lostFull>>
              \/ /\ post[p] \in {"sending", "resending"} /\ p \in Decisions /\ H!Accept(p)
                 /\ post[p] = "sending" => H!Set(p, "pausing") \/ H!Set(p, "over")
<1>1. CASE H!PostStarts(p) \/ H!NoToken(p) \/ H!Resend(p) \/ H!FutureSet(p)
  BY <1>1 DEF H!PostStarts, H!NoToken, H!Resend, H!FutureSet, H!threads, H!harness
<1>2. CASE H!Answered(p)
  BY <1>2 DEF H!Answered, H!Attempting, H!Served, H!threads, H!harness
<1>3. CASE H!AnswerLost(p)
  BY <1>3 DEF H!AnswerLost, H!Attempting, H!Served, H!AfterLost, H!threads, H!harness
<1> QED BY <1>1, <1>2, <1>3 DEF Posting

LEMMA PostingKeeps ==
    ASSUME InflightInv, NEW p \in H!HookPostIds, Posting(p)
    PROVE  InflightInv'
<1>1. PICK s \in {"sending", "over", "pausing", "resending", "done"} : H!Set(p, s)
  BY PostingSteps
<1>2. s \in PostStages /\ s \in H!Underway /\ post[p] \in H!Underway /\ post[p] # "new"
  BY PostingSteps DEF PostStages, H!Underway
<1>3. worker = "locked" => p # span
  BY <1>2 DEF InflightInv
<1> QED BY <1>1, <1>2, <1>3, PostingSteps, StageKeeps

LEMMA InflightInit == H!HPInit => InflightInv
<1> SUFFICES ASSUME H!HPInit PROVE InflightInv
  OBVIOUS
<1>1. H!InflightExact
  <2>1. /\ {p \in Decisions : post[p] \in H!Underway} = {}
        /\ {p \in Spans : post[p] \in H!Underway} = {}
    BY HookPostKinds DEF H!HPInit, H!Underway
  <2>2. Cardinality({}) <= MaxInflight
    BY FS_EmptySet, HookFacts
  <2> QED BY <2>1, <2>2, ExactIs DEF H!HPInit
<1> QED BY <1>1, FS_EmptySet DEF H!HPInit, InflightInv, PostStages

LEMMA InflightNext == InflightInv /\ [H!HPNext]_hpvars => InflightInv'
<1> SUFFICES ASSUME InflightInv, [H!HPNext]_hpvars PROVE InflightInv'
  OBVIOUS
<1>1. ASSUME UNCHANGED <<post, hooked, worker, span, inflight, inflightCf>> PROVE InflightInv'
  <2>1. H!InflightExact'
    BY <1>1, ExactIs, ExactIsNext DEF InflightInv
  <2> QED BY <1>1, <2>1 DEF InflightInv
<1>2. ASSUME NEW p \in H!HookPostIds, H!LoopStep(p) PROVE InflightInv'
  BY <1>2, SchedulePostKeeps, TaskDoneKeeps, FutureDoneKeeps, PostingKeeps DEF H!LoopStep, Posting
<1>3. ASSUME NEW p \in H!HookPostIds, H!WantLock(p) \/ H!WorkerLocks(p) PROVE InflightInv'
  <2>1. CASE H!WantLock(p)
    BY <1>1, <2>1 DEF H!WantLock
  <2> QED BY <1>3, <2>1, WorkerLocksKeeps
<1>4. CASE H!WorkerSubmits \/ H!WorkerRegisters
  BY <1>4, WorkerSubmitsKeeps, WorkerRegistersKeeps
<1>5. CASE H!CoolDown \/ H!Dispatch
  BY <1>1, <1>5 DEF H!CoolDown, H!Dispatch, H!threads
<1>6. CASE UNCHANGED hpvars
  BY <1>1, <1>6 DEF hpvars
<1> QED BY <1>2, <1>3, <1>4, <1>5, <1>6 DEF H!HPNext

-----------------------------------------------------------------------------
(* What became of the decisions the harness accepted. *)

(* The answers 202 that a post in this stage may have got: none before its *)
(* first attempt is over, one before the second is.                        *)
Attempts(stage) ==
    IF stage \in {"new", "shed", "ready", "sending"} THEN 0
    ELSE IF stage \in {"pausing", "resending"} THEN 1 ELSE 2

AccountTypes ==
    /\ hqueue \in Seq(Decisions)
    /\ accepted \in [Decisions -> Nat]
    /\ dispatched \in [Decisions -> Nat]
    /\ lostFull \in [Decisions -> Nat]

Balanced ==
    \A p \in Decisions :
        accepted[p] = dispatched[p] + lostFull[p] + Cardinality(Places(hqueue, p))

AttemptsBound == \A p \in Decisions : accepted[p] <= Attempts(post[p])

AccountInv == AccountTypes /\ Balanced /\ AttemptsBound

LEMMA AcceptKeeps ==
    ASSUME AccountInv, NEW p \in Decisions, H!Accept(p)
    PROVE  /\ AccountTypes' /\ Balanced'
           /\ accepted'[p] = accepted[p] + 1
           /\ \A q \in Decisions : q # p => accepted'[q] = accepted[q]
<1>1. /\ accepted' = [accepted EXCEPT ![p] = @ + 1] /\ dispatched' = dispatched
      /\ \/ hqueue' = Append(hqueue, p) /\ lostFull' = lostFull
         \/ lostFull' = [lostFull EXCEPT ![p] = @ + 1] /\ hqueue' = hqueue
  BY DEF H!Accept
<1>2. AccountTypes'
  <2>1. accepted' \in [Decisions -> Nat] /\ dispatched' \in [Decisions -> Nat]
    BY <1>1 DEF AccountInv, AccountTypes
  <2>2. CASE hqueue' = Append(hqueue, p) /\ lostFull' = lostFull
    <3>1. hqueue' \in Seq(Decisions) /\ lostFull' \in [Decisions -> Nat]
      BY <2>2 DEF AccountInv, AccountTypes
    <3> QED BY <2>1, <3>1 DEF AccountTypes
  <2>3. CASE lostFull' = [lostFull EXCEPT ![p] = @ + 1] /\ hqueue' = hqueue
    <3>1. hqueue' \in Seq(Decisions) /\ lostFull' \in [Decisions -> Nat]
      BY <2>3 DEF AccountInv, AccountTypes
    <3> QED BY <2>1, <3>1 DEF AccountTypes
  <2> QED BY <1>1, <2>2, <2>3
<1>3. Balanced'
  <2> SUFFICES ASSUME NEW q \in Decisions
               PROVE  accepted'[q] =
                        dispatched'[q] + lostFull'[q] + Cardinality(Places(hqueue', q))
    BY DEF Balanced
  <2>1. accepted[q] = dispatched[q] + lostFull[q] + Cardinality(Places(hqueue, q))
    BY DEF AccountInv, Balanced
  <2>2. /\ accepted[q] \in Nat /\ dispatched[q] \in Nat /\ lostFull[q] \in Nat
        /\ hqueue \in Seq(Decisions)
    BY DEF AccountInv, AccountTypes
  <2>3. Cardinality(Places(hqueue, q)) \in Nat
    BY <2>2, PlacesCounted
  <2>4. accepted'[q] = IF q = p THEN accepted[q] + 1 ELSE accepted[q]
    BY <1>1 DEF AccountInv, AccountTypes
  <2>5. CASE hqueue' = Append(hqueue, p) /\ lostFull' = lostFull
    <3>1. Cardinality(Places(hqueue', q)) =
            IF p = q THEN Cardinality(Places(hqueue, q)) + 1 ELSE Cardinality(Places(hqueue, q))
      BY <2>2, <2>5, PlacesAppend
    <3> QED BY <1>1, <2>1, <2>2, <2>3, <2>4, <2>5, <3>1
  <2>6. CASE lostFull' = [lostFull EXCEPT ![p] = @ + 1] /\ hqueue' = hqueue
    <3>1. lostFull'[q] = IF q = p THEN lostFull[q] + 1 ELSE lostFull[q]
      BY <2>6 DEF AccountInv, AccountTypes
    <3> QED BY <1>1, <2>1, <2>2, <2>3, <2>4, <2>6, <3>1
  <2> QED BY <1>1, <2>5, <2>6
<1> QED BY <1>1, <1>2, <1>3 DEF AccountInv, AccountTypes

LEMMA DispatchKeeps ==
    ASSUME AccountInv, H!Dispatch
    PROVE  AccountInv'
<1>1. /\ hqueue # <<>> /\ hqueue' = Tail(hqueue)
      /\ dispatched' = [dispatched EXCEPT ![Head(hqueue)] = @ + 1]
      /\ UNCHANGED <<post, accepted, lostFull>>
  BY DEF H!Dispatch
<1>2. Head(hqueue) \in Decisions /\ hqueue \in Seq(Decisions) /\ hqueue' \in Seq(Decisions)
  BY <1>1 DEF AccountInv, AccountTypes
<1>3. AccountTypes'
  BY <1>1, <1>2 DEF AccountInv, AccountTypes
<1>4. Balanced'
  <2> SUFFICES ASSUME NEW q \in Decisions
               PROVE  accepted[q] =
                        dispatched'[q] + lostFull[q] + Cardinality(Places(hqueue', q))
    BY <1>1 DEF Balanced
  <2>1. accepted[q] = dispatched[q] + lostFull[q] + Cardinality(Places(hqueue, q))
    BY DEF AccountInv, Balanced
  <2>2. accepted[q] \in Nat /\ dispatched[q] \in Nat /\ lostFull[q] \in Nat
    BY DEF AccountInv, AccountTypes
  <2>3. Cardinality(Places(hqueue, q)) \in Nat
    BY <1>2, PlacesCounted
  <2>4. dispatched'[q] = IF Head(hqueue) = q THEN dispatched[q] + 1 ELSE dispatched[q]
    BY <1>1 DEF AccountInv, AccountTypes
  <2>5. Cardinality(Places(hqueue', q)) =
          IF Head(hqueue) = q THEN Cardinality(Places(hqueue, q)) - 1
          ELSE Cardinality(Places(hqueue, q))
    BY <1>1, <1>2, PlacesTail
  <2> QED BY <2>1, <2>2, <2>3, <2>4, <2>5
<1>5. AttemptsBound'
  BY <1>1 DEF AccountInv, AttemptsBound
<1> QED BY <1>3, <1>4, <1>5 DEF AccountInv

(* A step of a post that the harness takes no part in. *)
LEMMA UnheardKeeps ==
    ASSUME InflightInv, AccountInv, NEW p \in H!HookPostIds, NEW s \in PostStages, H!Set(p, s),
           p \in Decisions => Attempts(post[p]) <= Attempts(s),
           UNCHANGED <<hqueue, accepted, dispatched, lostFull>>
    PROVE  AccountInv'
<1>1. AccountTypes' /\ Balanced'
  BY DEF AccountInv, AccountTypes, Balanced
<1>2. AttemptsBound'
  <2> SUFFICES ASSUME NEW q \in Decisions PROVE accepted[q] <= Attempts(post'[q])
    BY DEF AttemptsBound
  <2>1. q \in H!HookPostIds /\ accepted[q] \in Nat /\ accepted[q] <= Attempts(post[q])
    BY HookPostKinds DEF AccountInv, AccountTypes, AttemptsBound
  <2>2. Attempts(post[q]) <= Attempts(post'[q])
    <3>1. CASE q = p
      BY <3>1, StageMoves
    <3>2. CASE q # p
      BY <2>1, <3>2, StageMoves DEF Attempts
    <3> QED BY <3>1, <3>2
  <2>3. Attempts(post[q]) \in Nat /\ Attempts(post'[q]) \in Nat
    BY DEF Attempts
  <2> QED BY <2>1, <2>2, <2>3
<1> QED BY <1>1, <1>2 DEF AccountInv

LEMMA PostingAccounted ==
    ASSUME InflightInv, AccountInv, NEW p \in H!HookPostIds, Posting(p)
    PROVE  AccountInv'
<1>1. PICK s \in {"sending", "over", "pausing", "resending", "done"} :
        /\ H!Set(p, s)
        /\ Attempts(post[p]) <= Attempts(s)
        /\ post[p] \in {"sending", "resending"} => Attempts(post[p]) + 1 <= Attempts(s)
  <2>1. \/ post[p] = "ready" /\ (H!Set(p, "sending") \/ H!Set(p, "over"))
        \/ post[p] = "sending" /\ (H!Set(p, "pausing") \/ H!Set(p, "over"))
        \/ post[p] = "pausing" /\ H!Set(p, "resending")
        \/ post[p] = "resending" /\ H!Set(p, "over")
        \/ post[p] = "over" /\ H!Set(p, "done")
    BY PostingSteps
  <2> QED BY <2>1 DEF Attempts
<1>2. s \in PostStages
  BY DEF PostStages
<1>3. CASE UNCHANGED <<hqueue, accepted, dispatched, lostFull>>
  BY <1>1, <1>2, <1>3, UnheardKeeps
<1>4. CASE post[p] \in {"sending", "resending"} /\ p \in Decisions /\ H!Accept(p)
  <2>1. /\ AccountTypes' /\ Balanced'
        /\ accepted'[p] = accepted[p] + 1
        /\ \A q \in Decisions : q # p => accepted'[q] = accepted[q]
    BY <1>4, AcceptKeeps
  <2>2. /\ accepted[p] \in Nat /\ accepted[p] <= Attempts(post[p])
        /\ Attempts(post[p]) + 1 <= Attempts(s)
    BY <1>1, <1>4 DEF AccountInv, AccountTypes, AttemptsBound
  <2>3. accepted'[p] <= Attempts(s)
    <3>1. Attempts(post[p]) \in Nat /\ Attempts(s) \in Nat
      BY DEF Attempts
    <3> QED BY <2>1, <2>2, <3>1
  <2>4. AttemptsBound'
    <3> SUFFICES ASSUME NEW q \in Decisions PROVE accepted'[q] <= Attempts(post'[q])
      BY DEF AttemptsBound
    <3>1. CASE q = p
      BY <1>1, <1>2, <2>3, <3>1, StageMoves
    <3>2. CASE q # p
      <4>1. post'[q] = post[q]
        BY <1>1, <1>2, <3>2, StageMoves, HookPostKinds
      <4> QED BY <2>1, <3>2, <4>1 DEF AccountInv, AttemptsBound
    <3> QED BY <3>1, <3>2
  <2> QED BY <2>1, <2>4 DEF AccountInv
<1> QED BY <1>3, <1>4, PostingSteps

LEMMA AccountInit == H!HPInit => AccountInv
<1> SUFFICES ASSUME H!HPInit PROVE AccountInv
  OBVIOUS
<1>1. AccountTypes
  BY DEF H!HPInit, AccountTypes
<1>2. Balanced
  <2> SUFFICES ASSUME NEW p \in Decisions
               PROVE  accepted[p] = dispatched[p] + lostFull[p] + Cardinality(Places(hqueue, p))
    BY DEF Balanced
  <2>1. accepted[p] = 0 /\ dispatched[p] = 0 /\ lostFull[p] = 0 /\ hqueue = <<>>
    BY DEF H!HPInit
  <2> QED BY <2>1, PlacesEmpty
<1>3. AttemptsBound
  BY HookPostKinds DEF H!HPInit, AttemptsBound, Attempts
<1> QED BY <1>1, <1>2, <1>3 DEF AccountInv

LEMMA AccountNext == InflightInv /\ AccountInv /\ [H!HPNext]_hpvars => AccountInv'
<1> SUFFICES ASSUME InflightInv, AccountInv, [H!HPNext]_hpvars PROVE AccountInv'
  OBVIOUS
<1>1. ASSUME UNCHANGED <<post, hqueue, accepted, dispatched, lostFull>> PROVE AccountInv'
  BY <1>1 DEF AccountInv, AccountTypes, Balanced, AttemptsBound
<1>2. ASSUME NEW p \in H!HookPostIds, Posting(p) PROVE AccountInv'
  BY <1>2, PostingAccounted
<1>3. ASSUME NEW p \in H!HookPostIds,
             H!SchedulePost(p) \/ H!TaskDone(p) \/ H!FutureDone(p) \/ H!WorkerLocks(p)
      PROVE  AccountInv'
  <2>1. UNCHANGED <<hqueue, accepted, dispatched, lostFull>>
    BY <1>3 DEF H!SchedulePost, H!TaskDone, H!FutureDone, H!WorkerLocks, H!harness
  <2>2. \/ UNCHANGED post
        \/ \E s \in {"shed", "ready", "gone"} :
              H!Set(p, s) /\ (p \in Decisions => s = "gone" \/ post[p] = "new")
    BY <1>3 DEF H!SchedulePost, H!TaskDone, H!Done, H!FutureDone, H!WorkerLocks, H!SpanEnds
  <2>3. ASSUME NEW s \in {"shed", "ready", "gone"}, H!Set(p, s),
               p \in Decisions => s = "gone" \/ post[p] = "new"
        PROVE  AccountInv'
    <3>1. s \in PostStages
      BY DEF PostStages
    <3>2. p \in Decisions => Attempts(post[p]) <= Attempts(s)
      BY <2>3 DEF Attempts
    <3> QED BY <2>1, <2>3, <3>1, <3>2, UnheardKeeps
  <2> QED BY <1>1, <2>1, <2>2, <2>3
<1>4. CASE H!WorkerSubmits
  <2>1. /\ span \in Spans /\ span \notin Decisions /\ span \in H!HookPostIds
        /\ H!Set(span, "ready") /\ UNCHANGED <<hqueue, accepted, dispatched, lostFull>>
    BY <1>4, HookFacts, HookPostKinds DEF H!WorkerSubmits, InflightInv, H!harness
  <2>2. "ready" \in PostStages
    BY DEF PostStages
  <2> QED BY <2>1, <2>2, UnheardKeeps
<1>5. CASE H!Dispatch
  BY <1>5, DispatchKeeps
<1>6. CASE (\E p \in H!HookPostIds : H!WantLock(p)) \/ H!WorkerRegisters \/ H!CoolDown
  BY <1>1, <1>6 DEF H!WantLock, H!WorkerRegisters, H!CoolDown, H!harness
<1>7. CASE UNCHANGED hpvars
  BY <1>1, <1>7 DEF hpvars
<1> QED BY <1>2, <1>3, <1>4, <1>5, <1>6, <1>7 DEF H!HPNext, H!LoopStep, Posting

LEMMA AccountIs == InflightInv /\ AccountInv => PostsAccounted
<1> SUFFICES ASSUME InflightInv, AccountInv PROVE H!AcceptedIsAccounted
  BY DEF PostsAccounted, InflightInv
<1> SUFFICES ASSUME NEW p \in Decisions
             PROVE  /\ accepted[p] = dispatched[p] + lostFull[p] +
                          Cardinality({n \in DOMAIN hqueue : hqueue[n] = p})
                    /\ post[p] \in {"new", "shed", "ready"} => accepted[p] = 0
                    /\ accepted[p] <= 2
  BY PostsCount DEF H!AcceptedIsAccounted
<1>1. DOMAIN hqueue = 1..Len(hqueue)
  BY DEF AccountInv, AccountTypes
<1>2. {n \in DOMAIN hqueue : hqueue[n] = p} = Places(hqueue, p)
  BY <1>1 DEF Places
<1>3. accepted[p] = dispatched[p] + lostFull[p] + Cardinality(Places(hqueue, p))
  BY DEF AccountInv, Balanced
<1>4. accepted[p] \in Nat /\ accepted[p] <= Attempts(post[p])
  BY DEF AccountInv, AccountTypes, AttemptsBound
<1> QED BY <1>2, <1>3, <1>4 DEF Attempts

(* For every number of decisions and spans and every cap: however the two  *)
(* threads interleave, the in-flight sets hold exactly the posts under way *)
(* and never more than HOOK_POST_MAX_INFLIGHT of a kind; a decision the    *)
(* harness accepted is queued, handed on or counted as dropped, and the    *)
(* one retry delivers it at most twice (hook_events.py, schedule_post,     *)
(* schedule_event_post and _post_once_to; bus.py, publish_hook_decision).  *)
THEOREM PostsAccountedHolds == H!HPInit /\ [][H!HPNext]_hpvars => []PostsAccounted
BY InflightInit, InflightNext, AccountInit, AccountNext, AccountIs, PTL

-----------------------------------------------------------------------------
(* Webhooks: the byte budgets of retries and the bounds of a chain.        *)

Size(cs) == [c \in W!ChainIds |-> IF cs[c] = None THEN 0 ELSE cs[c].sub.size]
Retrying(cs) == {c \in W!ChainIds : cs[c] # None /\ cs[c].retry # "none"}
Held(cs, n) == {c \in Retrying(cs) : cs[c].sub.name = n}

(* The stages of a chain tell how often it has posted.                     *)
StagesOK(ch) ==
    /\ ch.posts <= 1 + ch.sub.retries
    /\ ch.hook => ch.retry = "none"
    /\ ch.task = "prepare" => ch.retry = "none" /\ ch.posts = 0
    /\ ch.task = "post" => ch.retry = "none" /\ ch.posts = 1
    /\ ch.retry = "sleep" => ch.posts < 1 + ch.sub.retries

HookKeys == \A p \in Paths : items[p] # None <=> \E i \in 1..Len(order) : order[i] = p

BudgetsOK(cs, b, sb) ==
    Budget > 0 =>
      /\ \A n \in W!Names : sb[n] = SumFunctionOnSet(Size(cs), Held(cs, n))
      /\ b = SumFunctionOnSet(Size(cs), Retrying(cs))
      /\ b <= Budget
      /\ SubBudget > 0 => \A n \in W!Names : sb[n] <= SubBudget

WebInv ==
    /\ items \in [Paths -> W!Subs \cup {None}]
    /\ order \in Seq(Paths) /\ KeysApart(order) /\ HookKeys
    /\ chains \in [W!ChainIds -> W!Chain \cup {None}]
    /\ bytes \in Nat /\ subBytes \in [W!Names -> Nat]
    /\ closing \in {"no", "draining", "closed"}
    /\ awaited \in SUBSET (W!ChainIds \X {"task", "retry"})
    /\ \A c \in W!ChainIds : chains[c] # None => StagesOK(chains[c])
    /\ BudgetsOK(chains, bytes, subBytes)

LEMMA WebFacts ==
    /\ GlobalCap \in Nat \ {0} /\ DefaultCap \in Nat \ {0} /\ Budget \in Nat /\ SubBudget \in Nat
    /\ \A f \in HookFiles : f.size \in Nat
    /\ None \notin W!Chain
BY ChannelsAssumption DEF W!WebhookAssumption

LEMMA ChainIdsFinite == IsFiniteSet(W!ChainIds) /\ Cardinality(W!ChainIds) = GlobalCap
BY WebFacts, FS_Interval DEF W!ChainIds

(* The larger of zero and a number.                                        *)
LEMMA AtLeastZero ==
    ASSUME NEW x \in Int
    PROVE  W!Max({0, x}) \in Nat /\ (x >= 0 => W!Max({0, x}) = x)
<1>1. CASE x >= 0
  <2>1. \E m \in {0, x} : \A y \in {0, x} : m >= y
    BY <1>1
  <2>2. W!Max({0, x}) \in {0, x} /\ \A y \in {0, x} : W!Max({0, x}) >= y
    BY <2>1 DEF W!Max
  <2> QED BY <1>1, <2>2
<1>2. CASE x < 0
  <2>1. \E m \in {0, x} : \A y \in {0, x} : m >= y
    BY <1>2
  <2>2. W!Max({0, x}) \in {0, x} /\ \A y \in {0, x} : W!Max({0, x}) >= y
    BY <2>1 DEF W!Max
  <2> QED BY <1>2, <2>2
<1> QED BY <1>1, <1>2

(* What a parsed subscription has.                                         *)
LEMMA SubFacts ==
    ASSUME NEW sub \in W!Subs
    PROVE  sub.name \in W!Names /\ sub.size \in Nat /\ sub.retries \in Nat /\ sub # None
<1>1. PICK f \in HookFiles, dns \in W!DnsAnswers : sub = W!Parse(f, dns) /\ sub # None
  BY DEF W!Subs
<1>2. sub.name = f.name /\ sub.size = f.size
  BY <1>1 DEF W!Parse
<1>3. sub.retries = 0 \/ (f.retries \in Int /\ sub.retries = W!Max({0, f.retries}))
  BY <1>1 DEF W!Parse
<1> QED BY <1>1, <1>2, <1>3, AtLeastZero, WebFacts DEF W!Names

LEMMA ChainFacts ==
    ASSUME NEW ch \in W!Chain
    PROVE  /\ ch.sub \in W!Subs /\ ch.sub.name \in W!Names /\ ch.sub.size \in Nat
           /\ ch.sub.retries \in Nat /\ ch.posts \in Nat /\ ch # None
BY SubFacts, WebFacts DEF W!Chain

LEMMA SizeType ==
    ASSUME NEW cs \in [W!ChainIds -> W!Chain \cup {None}]
    PROVE  Size(cs) \in [W!ChainIds -> Nat]
BY ChainFacts DEF Size

LEMMA WebInit == W!Init => WebInv
<1> SUFFICES ASSUME W!Init PROVE WebInv
  OBVIOUS
<1>1. /\ items = [p \in Paths |-> None] /\ order = <<>>
      /\ chains = [c \in W!ChainIds |-> None] /\ bytes = 0
      /\ subBytes = [n \in W!Names |-> 0] /\ closing = "no" /\ awaited = {}
  BY DEF W!Init
<1>2. order \in Seq(Paths) /\ KeysApart(order) /\ HookKeys
  BY <1>1 DEF KeysApart, HookKeys
<1>3. Retrying(chains) = {} /\ \A n \in W!Names : Held(chains, n) = {}
  BY <1>1 DEF Retrying, Held
<1>4. Size(chains) \in [W!ChainIds -> Nat]
  BY <1>1, SizeType
<1>5. SumFunctionOnSet(Size(chains), {}) = 0
  BY <1>4, SumType, ChainIdsFinite
<1>6. BudgetsOK(chains, bytes, subBytes)
  <2>1. PICK w : w = Size(chains)
    OBVIOUS
  <2>2. bytes = SumFunctionOnSet(w, Retrying(chains)) /\ bytes = 0
    BY <1>1, <1>3, <1>5, <2>1
  <2>3. \A n \in W!Names : subBytes[n] = SumFunctionOnSet(w, Held(chains, n)) /\ subBytes[n] = 0
    BY <1>1, <1>3, <1>5, <2>1
  <2>4. 0 <= Budget /\ 0 <= SubBudget
    BY WebFacts
  <2> QED BY <2>1, <2>2, <2>3, <2>4 DEF BudgetsOK
<1> QED BY <1>1, <1>2, <1>6 DEF WebInv

SameSubs(cs, ds, s) == \A c \in s : cs[c] # None /\ ds[c] # None /\ ds[c].sub = cs[c].sub

(* Sums over chains that keep their subscription.                          *)
LEMMA SumSame ==
    ASSUME NEW cs \in [W!ChainIds -> W!Chain \cup {None}], NEW ds \in [W!ChainIds -> W!Chain \cup {None}],
           NEW s \in SUBSET W!ChainIds, SameSubs(cs, ds, s)
    PROVE  SumFunctionOnSet(Size(ds), s) = SumFunctionOnSet(Size(cs), s)
<1>1. PICK v \in [W!ChainIds -> Nat] : v = Size(ds)
  BY SizeType
<1>2. PICK w \in [W!ChainIds -> Nat] : w = Size(cs)
  BY SizeType
<1>3. \A c \in s : v[c] = w[c]
  BY <1>1, <1>2 DEF Size, SameSubs
<1>4. SumFunctionOnSet(v, s) = SumFunctionOnSet(w, s)
  BY <1>3, ChainIdsFinite, SumAgree
<1> QED BY <1>1, <1>2, <1>4

(* One more chain in a sum.                                                *)
LEMMA SumOneMore ==
    ASSUME NEW cs \in [W!ChainIds -> W!Chain \cup {None}], NEW s \in SUBSET W!ChainIds,
           NEW c \in s, cs[c] # None
    PROVE  /\ SumFunctionOnSet(Size(cs), s) = cs[c].sub.size + SumFunctionOnSet(Size(cs), s \ {c})
           /\ SumFunctionOnSet(Size(cs), s \ {c}) \in Nat
<1>1. PICK w \in [W!ChainIds -> Nat] : w = Size(cs)
  BY SizeType
<1>2. w[c] = cs[c].sub.size
  BY <1>1 DEF Size
<1>3. /\ SumFunctionOnSet(w, s) = w[c] + SumFunctionOnSet(w, s \ {c})
      /\ SumFunctionOnSet(w, s \ {c}) \in Nat
  BY ChainIdsFinite, SumAdd
<1> QED BY <1>1, <1>2, <1>3

(* A step that touches no retrying chain keeps the budgets exact.          *)
LEMMA BudgetSame ==
    ASSUME NEW cs \in [W!ChainIds -> W!Chain \cup {None}], NEW ds \in [W!ChainIds -> W!Chain \cup {None}],
           NEW b, NEW sb, BudgetsOK(cs, b, sb),
           Retrying(ds) = Retrying(cs), SameSubs(cs, ds, Retrying(cs))
    PROVE  BudgetsOK(ds, b, sb)
<1>1. Retrying(cs) \in SUBSET W!ChainIds
  BY DEF Retrying
<1>2. SumFunctionOnSet(Size(ds), Retrying(ds)) = SumFunctionOnSet(Size(cs), Retrying(cs))
  BY <1>1, SumSame
<1>3. ASSUME NEW n \in W!Names
      PROVE  SumFunctionOnSet(Size(ds), Held(ds, n)) = SumFunctionOnSet(Size(cs), Held(cs, n))
  <2>1. Held(ds, n) = Held(cs, n)
    BY DEF Held, SameSubs
  <2>2. Held(cs, n) \in SUBSET W!ChainIds /\ SameSubs(cs, ds, Held(cs, n))
    BY <1>1 DEF Held, SameSubs
  <2>3. PICK s \in SUBSET W!ChainIds : s = Held(cs, n)
    BY <2>2
  <2> QED BY <2>1, <2>2, <2>3, SumSame
<1> QED BY <1>2, <1>3 DEF BudgetsOK

(* A chain starts retrying with its bytes granted.                         *)
LEMMA BudgetTaken ==
    ASSUME NEW cs \in [W!ChainIds -> W!Chain \cup {None}], NEW ds \in [W!ChainIds -> W!Chain \cup {None}],
           NEW b \in Nat, NEW sb \in [W!Names -> Nat], BudgetsOK(cs, b, sb), NEW c \in W!ChainIds,
           c \notin Retrying(cs), Retrying(ds) = Retrying(cs) \cup {c}, SameSubs(cs, ds, Retrying(ds)),
           Budget > 0,
           b + cs[c].sub.size <= Budget,
           SubBudget > 0 => sb[cs[c].sub.name] + cs[c].sub.size <= SubBudget
    PROVE  BudgetsOK(ds, b + cs[c].sub.size, [sb EXCEPT ![cs[c].sub.name] = @ + cs[c].sub.size])
<1>1. PICK R \in SUBSET W!ChainIds : R = Retrying(ds)
  BY DEF Retrying
<1>2. c \in R /\ R \ {c} = Retrying(cs) /\ cs[c] # None /\ cs[c] \in W!Chain
  BY <1>1 DEF SameSubs
<1>3. cs[c].sub.size \in Nat /\ cs[c].sub.name \in W!Names
  BY <1>2, ChainFacts
<1>4. SumFunctionOnSet(Size(ds), R) = SumFunctionOnSet(Size(cs), R)
  BY <1>1, SumSame
<1>5. SumFunctionOnSet(Size(cs), R) = cs[c].sub.size + SumFunctionOnSet(Size(cs), R \ {c})
  BY <1>2, SumOneMore
<1>6. b = SumFunctionOnSet(Size(cs), R \ {c})
  BY <1>2 DEF BudgetsOK
<1>7. b + cs[c].sub.size = SumFunctionOnSet(Size(ds), Retrying(ds))
  BY <1>1, <1>3, <1>4, <1>5, <1>6
<1>8. PICK tb : tb = [sb EXCEPT ![cs[c].sub.name] = @ + cs[c].sub.size]
  OBVIOUS
<1>9. ASSUME NEW n \in W!Names
      PROVE  tb[n] = SumFunctionOnSet(Size(ds), Held(ds, n)) /\ (SubBudget > 0 => tb[n] <= SubBudget)
  <2>1. PICK s \in SUBSET W!ChainIds : s = Held(ds, n)
    BY DEF Held, Retrying
  <2>2. SameSubs(cs, ds, s)
    BY <2>1 DEF Held, SameSubs
  <2>3. SumFunctionOnSet(Size(ds), s) = SumFunctionOnSet(Size(cs), s)
    BY <2>2, SumSame
  <2>4. s \ {c} = Held(cs, n)
    BY <1>1, <1>2, <2>1 DEF Held, SameSubs
  <2>5. sb[n] = SumFunctionOnSet(Size(cs), s \ {c}) /\ (SubBudget > 0 => sb[n] <= SubBudget)
    BY <2>4 DEF BudgetsOK
  <2>6. CASE cs[c].sub.name = n
    <3>1. c \in s
      BY <1>1, <1>2, <2>1, <2>6 DEF Held, SameSubs
    <3>2. SumFunctionOnSet(Size(cs), s) = cs[c].sub.size + SumFunctionOnSet(Size(cs), s \ {c})
      BY <1>2, <3>1, SumOneMore
    <3>3. tb[n] = sb[n] + cs[c].sub.size
      BY <1>8, <2>6
    <3>4. sb[n] \in Nat
      OBVIOUS
    <3> QED BY <1>3, <2>1, <2>3, <2>5, <2>6, <3>2, <3>3, <3>4
  <2>7. CASE cs[c].sub.name # n
    <3>1. c \notin s
      BY <1>1, <1>2, <2>1, <2>7 DEF Held, SameSubs
    <3>2. s \ {c} = s
      BY <3>1
    <3>3. tb[n] = sb[n]
      BY <1>3, <1>8, <2>7
    <3> QED BY <2>1, <2>3, <2>5, <3>2, <3>3
  <2> QED BY <2>6, <2>7
<1> QED BY <1>7, <1>8, <1>9 DEF BudgetsOK

(* A chain stops retrying and gives its bytes back.                        *)
LEMMA BudgetGiven ==
    ASSUME NEW cs \in [W!ChainIds -> W!Chain \cup {None}], NEW ds \in [W!ChainIds -> W!Chain \cup {None}],
           NEW b \in Nat, NEW sb \in [W!Names -> Nat], BudgetsOK(cs, b, sb), NEW c \in Retrying(cs),
           Retrying(ds) = Retrying(cs) \ {c}, SameSubs(cs, ds, Retrying(ds)), Budget > 0
    PROVE  /\ b - cs[c].sub.size \in Nat /\ sb[cs[c].sub.name] - cs[c].sub.size \in Nat
           /\ BudgetsOK(ds, b - cs[c].sub.size, [sb EXCEPT ![cs[c].sub.name] = @ - cs[c].sub.size])
<1>1. PICK R \in SUBSET W!ChainIds : R = Retrying(cs)
  BY DEF Retrying
<1>2. c \in R /\ R \ {c} = Retrying(ds) /\ cs[c] # None /\ cs[c] \in W!Chain /\ c \in W!ChainIds
  BY <1>1 DEF Retrying
<1>3. cs[c].sub.size \in Nat /\ cs[c].sub.name \in W!Names
  BY <1>2, ChainFacts
<1>4. SumFunctionOnSet(Size(ds), R \ {c}) = SumFunctionOnSet(Size(cs), R \ {c})
  BY <1>2, SumSame
<1>5. /\ SumFunctionOnSet(Size(cs), R) = cs[c].sub.size + SumFunctionOnSet(Size(cs), R \ {c})
      /\ SumFunctionOnSet(Size(cs), R \ {c}) \in Nat
  BY <1>2, SumOneMore
<1>6. b = SumFunctionOnSet(Size(cs), R) /\ b <= Budget
  BY <1>1 DEF BudgetsOK
<1>7. b - cs[c].sub.size = SumFunctionOnSet(Size(ds), Retrying(ds)) /\ b - cs[c].sub.size \in Nat
  <2>1. PICK k \in Nat : k = SumFunctionOnSet(Size(cs), R \ {c})
    BY <1>5
  <2>2. b = cs[c].sub.size + k
    BY <1>5, <1>6, <2>1
  <2>3. b - cs[c].sub.size = k
    BY <1>3, <2>2
  <2> QED BY <1>2, <1>4, <2>1, <2>3
<1>7a. b - cs[c].sub.size <= Budget
  BY <1>3, <1>6, WebFacts
<1>8. PICK tb : tb = [sb EXCEPT ![cs[c].sub.name] = @ - cs[c].sub.size]
  OBVIOUS
<1>9. ASSUME NEW n \in W!Names
      PROVE  /\ tb[n] = SumFunctionOnSet(Size(ds), Held(ds, n)) /\ (SubBudget > 0 => tb[n] <= SubBudget)
             /\ (cs[c].sub.name = n => sb[n] - cs[c].sub.size \in Nat)
  <2>1. PICK s \in SUBSET W!ChainIds : s = Held(cs, n)
    BY DEF Held, Retrying
  <2>2. SameSubs(cs, ds, s \ {c})
    BY <1>1, <1>2, <2>1 DEF Held, SameSubs
  <2>3. SumFunctionOnSet(Size(ds), s \ {c}) = SumFunctionOnSet(Size(cs), s \ {c})
    BY <2>2, SumSame
  <2>4. s \ {c} = Held(ds, n)
    BY <1>1, <1>2, <2>1 DEF Held, SameSubs
  <2>5. sb[n] = SumFunctionOnSet(Size(cs), s) /\ (SubBudget > 0 => sb[n] <= SubBudget)
    BY <2>1 DEF BudgetsOK
  <2>5a. sb[n] \in Nat
    OBVIOUS
  <2>6. CASE cs[c].sub.name = n
    <3>1. c \in s
      BY <1>1, <1>2, <2>1, <2>6 DEF Held
    <3>2. /\ SumFunctionOnSet(Size(cs), s) = cs[c].sub.size + SumFunctionOnSet(Size(cs), s \ {c})
          /\ SumFunctionOnSet(Size(cs), s \ {c}) \in Nat
      BY <1>2, <3>1, SumOneMore
    <3>3. tb[n] = sb[n] - cs[c].sub.size
      BY <1>8, <2>6
    <3>4. tb[n] = SumFunctionOnSet(Size(cs), s \ {c}) /\ tb[n] \in Nat /\ tb[n] <= sb[n]
      BY <1>3, <2>5, <2>5a, <3>2, <3>3
    <3>5. SubBudget > 0 => tb[n] <= SubBudget
      BY <2>5, <2>5a, <3>4, WebFacts
    <3> QED BY <2>3, <2>4, <3>3, <3>4, <3>5
  <2>7. CASE cs[c].sub.name # n
    <3>1. c \notin s
      BY <2>1, <2>7 DEF Held
    <3>2. s \ {c} = s
      BY <3>1
    <3>3. tb[n] = sb[n]
      BY <1>3, <1>8, <2>7
    <3> QED BY <2>3, <2>4, <2>5, <2>7, <3>2, <3>3
  <2> QED BY <2>6, <2>7
<1>10. sb[cs[c].sub.name] - cs[c].sub.size \in Nat
  BY <1>3, <1>9
<1>11. BudgetsOK(ds, b - cs[c].sub.size, tb)
  BY <1>7, <1>7a, <1>9 DEF BudgetsOK
<1> QED BY <1>7, <1>8, <1>10, <1>11

(* A step of one chain.                                                    *)
LEMMA ChainMoves ==
    ASSUME WebInv, NEW c \in W!ChainIds,
           chains' \in [W!ChainIds -> W!Chain \cup {None}],
           \A d \in W!ChainIds : d # c => chains'[d] = chains[d],
           chains'[c] # None => StagesOK(chains'[c]),
           bytes' \in Nat, subBytes' \in [W!Names -> Nat], BudgetsOK(chains', bytes', subBytes'),
           UNCHANGED <<items, order, closing, awaited>>
    PROVE  WebInv'
<1>1. BudgetsOK(chains, bytes, subBytes)'
  BY DEF BudgetsOK, Size, Held, Retrying
<1>2. \A d \in W!ChainIds : chains'[d] # None => StagesOK(chains'[d])
  BY DEF WebInv
<1>3. HookKeys' /\ KeysApart(order)'
  BY DEF WebInv, HookKeys
<1> QED BY <1>1, <1>2, <1>3 DEF WebInv, StagesOK

(* A step of one chain that does not touch the budgets.                    *)
LEMMA ChainMovesOn ==
    ASSUME WebInv, NEW c \in W!ChainIds, chains[c] # None, NEW x \in W!Chain \cup {None},
           chains' = [chains EXCEPT ![c] = x],
           x # None => StagesOK(x) /\ x.sub = chains[c].sub,
           chains[c].retry # "none" <=> x # None /\ x.retry # "none",
           UNCHANGED <<items, order, bytes, subBytes, closing, awaited>>
    PROVE  WebInv'
<1>1. chains \in [W!ChainIds -> W!Chain \cup {None}]
  BY DEF WebInv
<1>2. chains' \in [W!ChainIds -> W!Chain \cup {None}] /\ chains'[c] = x
  BY <1>1
<1>3. \A d \in W!ChainIds : d # c => chains'[d] = chains[d]
  BY <1>1
<1>4. PICK ds \in [W!ChainIds -> W!Chain \cup {None}] : ds = chains'
  BY <1>2
<1>5. PICK cs \in [W!ChainIds -> W!Chain \cup {None}] : cs = chains
  BY <1>1
<1>6. Retrying(ds) = Retrying(cs)
  BY <1>2, <1>3, <1>4, <1>5 DEF Retrying
<1>7. SameSubs(cs, ds, Retrying(cs))
  BY <1>2, <1>3, <1>4, <1>5 DEF SameSubs, Retrying
<1>8. BudgetsOK(cs, bytes, subBytes)
  BY <1>5 DEF WebInv
<1>9. BudgetsOK(ds, bytes, subBytes)
  BY <1>6, <1>7, <1>8, BudgetSame
<1>10. BudgetsOK(chains', bytes', subBytes')
  BY <1>4, <1>9
<1>11. bytes' \in Nat /\ subBytes' \in [W!Names -> Nat]
  BY DEF WebInv
<1> QED BY <1>2, <1>3, <1>10, <1>11, ChainMoves

(* A delivery ends without a retry, or its callback has run.               *)
LEMMA LeaveKeeps ==
    ASSUME WebInv, NEW c \in W!ChainIds, chains[c] # None, W!Leave(c)
    PROVE  WebInv'
<1>1. chains[c] \in W!Chain /\ StagesOK(chains[c]) /\ chains \in [W!ChainIds -> W!Chain \cup {None}]
  BY DEF WebInv
<1>2. PICK ch \in W!Chain : ch = chains[c]
  BY <1>1
<1>3. PICK y : y = [ch EXCEPT !.task = "gone"]
  OBVIOUS
<1>4. y \in W!Chain /\ y.task = "gone" /\ y.retry = ch.retry /\ y.posts = ch.posts /\ y.sub = ch.sub /\ y.hook = ch.hook
  BY <1>3 DEF W!Chain, W!TaskStates
<1>5. PICK x \in W!Chain \cup {None} : x = IF y.retry = "none" THEN None ELSE y
  BY <1>4
<1>6. chains' = [chains EXCEPT ![c] = x]
  BY <1>2, <1>3, <1>4, <1>5 DEF W!Leave, W!Put
<1>7. x # None => StagesOK(x) /\ x.sub = chains[c].sub
  BY <1>1, <1>2, <1>4, <1>5 DEF StagesOK
<1>8. chains[c].retry # "none" <=> x # None /\ x.retry # "none"
  BY <1>2, <1>4, <1>5, WebFacts
<1> QED BY <1>6, <1>7, <1>8, ChainMovesOn DEF W!Leave

LEMMA DeliverKeeps ==
    ASSUME WebInv, NEW c \in W!ChainIds,
           W!Rejected(c) \/ W!Prepared(c) \/ W!DeliveryEnds(c) \/ W!DeliveryDone(c)
    PROVE  WebInv'
<1>1. CASE W!Rejected(c) \/ W!DeliveryEnds(c) \/ W!DeliveryDone(c)
  <2>1. chains[c] # None /\ W!Leave(c)
    BY <1>1 DEF W!Rejected, W!DeliveryEnds, W!DeliveryDone
  <2> QED BY <2>1, LeaveKeeps
<1>2. CASE W!Prepared(c)
  <2>1. /\ chains[c] \in W!Chain /\ StagesOK(chains[c]) /\ chains[c].task = "prepare" /\ chains[c] # None
        /\ chains \in [W!ChainIds -> W!Chain \cup {None}]
    BY <1>2 DEF WebInv, W!Prepared
  <2>2. PICK ch \in W!Chain : ch = chains[c]
    BY <2>1
  <2>3. PICK y : y = [ch EXCEPT !.task = "post", !.posts = 1]
    OBVIOUS
  <2>4. y \in W!Chain /\ y.task = "post" /\ y.retry = ch.retry /\ y.posts = 1 /\ y.sub = ch.sub /\ y.hook = ch.hook
    BY <2>3 DEF W!Chain, W!TaskStates
  <2>5. chains' = [chains EXCEPT ![c] = y]
    BY <1>2, <2>1, <2>2, <2>3 DEF W!Prepared
  <2>6. ch.sub.retries \in Nat
    BY ChainFacts
  <2>7. StagesOK(y)
    BY <2>1, <2>2, <2>4, <2>6 DEF StagesOK
  <2>8. PICK x \in W!Chain \cup {None} : x = y
    BY <2>4
  <2>8a. x # None
    BY <2>4, <2>8, WebFacts
  <2>9. chains[c].retry # "none" <=> x # None /\ x.retry # "none"
    BY <2>2, <2>4, <2>8, <2>8a
  <2> QED BY <1>2, <2>1, <2>2, <2>4, <2>5, <2>7, <2>8, <2>9, ChainMovesOn DEF W!Prepared
<1> QED BY <1>1, <1>2

(* The first attempt leaves a retry behind, whose bytes were granted.      *)
LEMMA RetryScheduledKeeps ==
    ASSUME WebInv, NEW c \in W!ChainIds, W!RetryScheduled(c)
    PROVE  WebInv'
<1>1. /\ chains[c] \in W!Chain /\ StagesOK(chains[c]) /\ chains[c].task = "post" /\ chains[c] # None
      /\ chains \in [W!ChainIds -> W!Chain \cup {None}] /\ bytes \in Nat /\ subBytes \in [W!Names -> Nat]
  BY DEF WebInv, W!RetryScheduled
<1>2. PICK ch \in W!Chain : ch = chains[c]
  BY <1>1
<1>3. PICK y : y = [ch EXCEPT !.task = "leaving", !.retry = "sleep"]
  OBVIOUS
<1>4. y \in W!Chain /\ y.task = "leaving" /\ y.retry = "sleep" /\ y.posts = ch.posts /\ y.sub = ch.sub /\ y.hook = ch.hook
  BY <1>3 DEF W!Chain, W!TaskStates, W!RetryStates
<1>5. PICK ds : ds = chains'
  OBVIOUS
<1>6. ds = [chains EXCEPT ![c] = y]
  BY <1>1, <1>2, <1>3, <1>5 DEF W!RetryScheduled
<1>7. ch.sub.retries \in Nat /\ ch.sub.size \in Nat /\ ch.sub.name \in W!Names /\ y # None
  BY <1>4, ChainFacts
<1>8. ~ch.hook /\ ch.sub.retries > 0
  BY <1>2 DEF W!RetryScheduled, W!Wants
<1>9. StagesOK(y)
  BY <1>1, <1>2, <1>4, <1>7, <1>8 DEF StagesOK
<1>10. ds \in [W!ChainIds -> W!Chain \cup {None}] /\ ds[c] = y
  BY <1>1, <1>4, <1>6
<1>11. \A d \in W!ChainIds : d # c => ds[d] = chains[d]
  BY <1>1, <1>6
<1>12. PICK cs \in [W!ChainIds -> W!Chain \cup {None}] : cs = chains
  BY <1>1
<1>13. c \notin Retrying(cs)
  BY <1>1, <1>12 DEF Retrying, StagesOK
<1>14. Retrying(ds) = Retrying(cs) \cup {c}
  BY <1>4, <1>7, <1>10, <1>11, <1>12 DEF Retrying
<1>15. SameSubs(cs, ds, Retrying(ds))
  <2>1. ASSUME NEW d \in Retrying(ds) PROVE cs[d] # None /\ ds[d] # None /\ ds[d].sub = cs[d].sub
    <3>1. CASE d = c
      BY <1>1, <1>2, <1>4, <1>7, <1>10, <1>12, <3>1
    <3>2. CASE d # c
      BY <1>11, <1>12, <3>2 DEF Retrying
    <3> QED BY <3>1, <3>2
  <2> QED BY <2>1 DEF SameSubs
<1>16. BudgetsOK(cs, bytes, subBytes)
  BY <1>12 DEF WebInv
<1>17. bytes' \in Nat /\ subBytes' \in [W!Names -> Nat] /\ BudgetsOK(ds, bytes', subBytes')
  <2>1. CASE Budget = 0
    <3>1. UNCHANGED <<bytes, subBytes>>
      BY <2>1 DEF W!RetryScheduled
    <3> QED BY <1>1, <2>1, <3>1 DEF BudgetsOK
  <2>2. CASE Budget > 0
    <3>1. /\ bytes' = bytes + ch.sub.size
          /\ subBytes' = [subBytes EXCEPT ![ch.sub.name] = @ + ch.sub.size]
      BY <1>2, <2>2, WebFacts DEF W!RetryScheduled
    <3>2. /\ bytes + ch.sub.size <= Budget
          /\ SubBudget > 0 => subBytes[ch.sub.name] + ch.sub.size <= SubBudget
      BY <1>2, <2>2, WebFacts DEF W!RetryScheduled, W!Granted
    <3>3. bytes' \in Nat /\ subBytes' \in [W!Names -> Nat]
      BY <1>1, <1>7, <3>1
    <3>4. ch = cs[c]
      BY <1>2, <1>12
    <3>5. BudgetsOK(ds, bytes + cs[c].sub.size, [subBytes EXCEPT ![cs[c].sub.name] = @ + cs[c].sub.size])
      <4>1. PICK b \in Nat : b = bytes
        BY <1>1
      <4>2. PICK sb \in [W!Names -> Nat] : sb = subBytes
        BY <1>1
      <4>3. /\ b + cs[c].sub.size <= Budget
            /\ SubBudget > 0 => sb[cs[c].sub.name] + cs[c].sub.size <= SubBudget
        BY <3>2, <3>4, <4>1, <4>2
      <4>4. BudgetsOK(ds, b + cs[c].sub.size, [sb EXCEPT ![cs[c].sub.name] = @ + cs[c].sub.size])
        BY <1>10, <1>13, <1>14, <1>15, <1>16, <2>2, <4>1, <4>2, <4>3, BudgetTaken
      <4> QED BY <4>1, <4>2, <4>4
    <3> QED BY <3>1, <3>3, <3>4, <3>5
  <2> QED BY <2>1, <2>2, WebFacts
<1>18. UNCHANGED <<items, order, closing, awaited>>
  BY DEF W!RetryScheduled
<1> QED BY <1>5, <1>9, <1>10, <1>11, <1>17, <1>18, ChainMoves

(* A chain of retries ends and gives its bytes back.                       *)
LEMMA EndRetryKeeps ==
    ASSUME WebInv, NEW c \in W!ChainIds, chains[c] # None, chains[c].retry # "none", W!EndRetry(c)
    PROVE  WebInv'
<1>1. /\ chains[c] \in W!Chain /\ StagesOK(chains[c])
      /\ chains \in [W!ChainIds -> W!Chain \cup {None}] /\ bytes \in Nat /\ subBytes \in [W!Names -> Nat]
  BY DEF WebInv
<1>2. PICK ch \in W!Chain : ch = chains[c]
  BY <1>1
<1>3. PICK y : y = [ch EXCEPT !.retry = "none"]
  OBVIOUS
<1>4. y \in W!Chain /\ y.task = ch.task /\ y.retry = "none" /\ y.posts = ch.posts /\ y.sub = ch.sub /\ y.hook = ch.hook
  BY <1>3 DEF W!Chain, W!RetryStates
<1>5. PICK x \in W!Chain \cup {None} : x = IF y.task = "gone" THEN None ELSE y
  BY <1>4
<1>5a. ch.sub.retries \in Nat /\ ch.sub.size \in Nat /\ ch.sub.name \in W!Names /\ y # None
  BY <1>4, ChainFacts
<1>6. PICK ds : ds = chains'
  OBVIOUS
<1>7. ds = [chains EXCEPT ![c] = x]
  BY <1>2, <1>3, <1>4, <1>5, <1>6 DEF W!EndRetry, W!Put
<1>8. x # None => StagesOK(x)
  BY <1>1, <1>2, <1>4, <1>5 DEF StagesOK
<1>9. x # None => x.retry = "none"
  BY <1>4, <1>5
<1>10. ds \in [W!ChainIds -> W!Chain \cup {None}] /\ ds[c] = x
  BY <1>1, <1>7
<1>11. \A d \in W!ChainIds : d # c => ds[d] = chains[d]
  BY <1>1, <1>7
<1>12. PICK cs \in [W!ChainIds -> W!Chain \cup {None}] : cs = chains
  BY <1>1
<1>13. c \in Retrying(cs)
  BY <1>12 DEF Retrying
<1>14. Retrying(ds) = Retrying(cs) \ {c}
  BY <1>9, <1>10, <1>11, <1>12 DEF Retrying
<1>15. SameSubs(cs, ds, Retrying(ds))
  <2>1. ASSUME NEW d \in Retrying(ds) PROVE cs[d] # None /\ ds[d] # None /\ ds[d].sub = cs[d].sub
    <3>1. d \in W!ChainIds /\ d # c /\ ds[d] # None
      BY <1>14 DEF Retrying
    <3> QED BY <1>11, <1>12, <3>1
  <2> QED BY <2>1 DEF SameSubs
<1>16. BudgetsOK(cs, bytes, subBytes)
  BY <1>12 DEF WebInv
<1>17. bytes' \in Nat /\ subBytes' \in [W!Names -> Nat] /\ BudgetsOK(ds, bytes', subBytes')
  <2>1. CASE Budget = 0
    <3>1. UNCHANGED <<bytes, subBytes>>
      BY <2>1 DEF W!EndRetry, W!Release
    <3> QED BY <1>1, <2>1, <3>1 DEF BudgetsOK
  <2>2. CASE Budget > 0
    <3>1. PICK b \in Nat : b = bytes
      BY <1>1
    <3>2. PICK sb \in [W!Names -> Nat] : sb = subBytes
      BY <1>1
    <3>3. /\ bytes' = W!Max({0, b - ch.sub.size})
          /\ subBytes' = [sb EXCEPT ![ch.sub.name] = W!Max({0, @ - ch.sub.size})]
      BY <1>2, <2>2, <3>1, <3>2, WebFacts DEF W!EndRetry, W!Release
    <3>4. BudgetsOK(cs, b, sb)
      BY <1>16, <3>1, <3>2
    <3>5. /\ b - cs[c].sub.size \in Nat /\ sb[cs[c].sub.name] - cs[c].sub.size \in Nat
          /\ BudgetsOK(ds, b - cs[c].sub.size, [sb EXCEPT ![cs[c].sub.name] = @ - cs[c].sub.size])
      BY <1>10, <1>13, <1>14, <1>15, <2>2, <3>4, BudgetGiven
    <3>6. ch = cs[c]
      BY <1>2, <1>12
    <3>7. W!Max({0, b - ch.sub.size}) = b - ch.sub.size
      BY <3>5, <3>6, AtLeastZero
    <3>8. W!Max({0, sb[ch.sub.name] - ch.sub.size}) = sb[ch.sub.name] - ch.sub.size
      BY <3>5, <3>6, AtLeastZero
    <3>9. subBytes' = [sb EXCEPT ![ch.sub.name] = @ - ch.sub.size]
      BY <3>3, <3>8
    <3>10. bytes' \in Nat /\ subBytes' \in [W!Names -> Nat]
      BY <3>3, <3>5, <3>6, <3>7, <3>9
    <3> QED BY <3>3, <3>5, <3>6, <3>7, <3>9, <3>10
  <2> QED BY <2>1, <2>2, WebFacts
<1>18. UNCHANGED <<items, order, closing, awaited>>
  BY DEF W!EndRetry
<1> QED BY <1>6, <1>8, <1>10, <1>11, <1>17, <1>18, ChainMoves

LEMMA RetryKeeps ==
    ASSUME WebInv, NEW c \in W!ChainIds, W!Retry(c)
    PROVE  WebInv'
<1>1. CASE W!RetryRejected(c) \/ W!RetryEnds(c) \/ W!TotalTimeout(c)
  <2>1. chains[c] # None /\ chains[c].retry # "none" /\ W!EndRetry(c)
    BY <1>1 DEF W!RetryRejected, W!RetryEnds, W!TotalTimeout
  <2> QED BY <2>1, EndRetryKeeps
<1>2. ASSUME NEW retry \in {"post", "sleep"}, NEW n \in Nat,
             chains[c] # None, chains[c].retry # "none",
             chains' = [chains EXCEPT ![c] = [chains[c] EXCEPT !.retry = retry, !.posts = n]],
             n <= 1 + chains[c].sub.retries, retry = "sleep" => n < 1 + chains[c].sub.retries,
             UNCHANGED <<items, order, bytes, subBytes, closing, awaited>>
      PROVE  WebInv'
  <2>1. chains[c] \in W!Chain /\ StagesOK(chains[c])
    BY <1>2 DEF WebInv
  <2>2. PICK ch \in W!Chain : ch = chains[c]
    BY <2>1
  <2>3. PICK y : y = [ch EXCEPT !.retry = retry, !.posts = n]
    OBVIOUS
  <2>4. y \in W!Chain /\ y.task = ch.task /\ y.retry = retry /\ y.posts = n /\ y.sub = ch.sub /\ y.hook = ch.hook
    BY <2>3 DEF W!Chain, W!RetryStates
  <2>5. StagesOK(y)
    BY <1>2, <2>1, <2>2, <2>4 DEF StagesOK
  <2>6. PICK x \in W!Chain \cup {None} : x = y
    BY <2>4
  <2>7. x # None
    BY <2>4, <2>6, WebFacts
  <2>8. chains[c].retry # "none" <=> x # None /\ x.retry # "none"
    BY <1>2, <2>4, <2>6, <2>7
  <2>9. chains' = [chains EXCEPT ![c] = x]
    BY <1>2, <2>2, <2>3, <2>6
  <2>10. x # None => StagesOK(x) /\ x.sub = chains[c].sub
    BY <2>2, <2>4, <2>5, <2>6
  <2> QED BY <1>2, <2>8, <2>9, <2>10, ChainMovesOn
<1>3. CASE W!RetryPosts(c)
  <2>1. /\ chains[c] \in W!Chain /\ StagesOK(chains[c]) /\ chains[c].retry = "sleep" /\ chains[c] # None
        /\ chains \in [W!ChainIds -> W!Chain \cup {None}]
    BY <1>3 DEF WebInv, W!RetryPosts
  <2>2. PICK n : n = chains[c].posts + 1
    OBVIOUS
  <2>3. chains[c].posts \in Nat /\ chains[c].sub.retries \in Nat
    BY <2>1, ChainFacts
  <2>4. n \in Nat /\ n <= 1 + chains[c].sub.retries
    BY <2>1, <2>2, <2>3 DEF StagesOK
  <2>5. chains' = [chains EXCEPT ![c] = [chains[c] EXCEPT !.retry = "post", !.posts = n]]
    BY <1>3, <2>1, <2>2 DEF W!RetryPosts, W!Chain
  <2> QED BY <1>2, <1>3, <2>1, <2>4, <2>5 DEF W!RetryPosts
<1>4. CASE W!RetryFails(c)
  <2>1. /\ chains[c] \in W!Chain /\ StagesOK(chains[c]) /\ chains[c].retry = "post" /\ chains[c] # None
        /\ chains \in [W!ChainIds -> W!Chain \cup {None}]
    BY <1>4 DEF WebInv, W!RetryFails
  <2>2. PICK n : n = chains[c].posts
    OBVIOUS
  <2>3. chains[c].posts \in Nat /\ chains[c].sub.retries \in Nat
    BY <2>1, ChainFacts
  <2>4. n \in Nat /\ n < 1 + chains[c].sub.retries
    BY <1>4, <2>2, <2>3 DEF W!RetryFails, W!Exhausted
  <2>5. chains' = [chains EXCEPT ![c] = [chains[c] EXCEPT !.retry = "sleep", !.posts = n]]
    BY <1>4, <2>1, <2>2 DEF W!RetryFails, W!Chain
  <2>6. n <= 1 + chains[c].sub.retries
    BY <2>3, <2>4
  <2> QED BY <1>2, <1>4, <2>1, <2>4, <2>5, <2>6 DEF W!RetryFails
<1> QED BY <1>1, <1>3, <1>4 DEF W!Retry

(* One subscription is visited by fire.                                    *)
Visits ==
    {cs \in [W!ChainIds -> W!Chain \cup {None}] :
        /\ Retrying(cs) = Retrying(chains) /\ SameSubs(chains, cs, Retrying(chains))
        /\ \A c \in W!ChainIds : cs[c] # None => StagesOK(cs[c])}

LEMMA VisitKeeps ==
    ASSUME NEW cs \in Visits, NEW sub \in W!Subs, NEW hook \in BOOLEAN, NEW hit
    PROVE  W!VisitSub(cs, sub, hook, hit) \in Visits
<1>1. CASE W!VisitSub(cs, sub, hook, hit) = cs
  BY <1>1
<1>2. CASE W!VisitSub(cs, sub, hook, hit) = W!Started(cs, sub, hook) /\ W!Free(cs) # {}
  <2>1. W!Free(cs) \subseteq Nat
    BY DEF W!Free, W!ChainIds
  <2>2. PICK a \in W!Free(cs) : \A y \in W!Free(cs) : a <= y
    BY <1>2, <2>1, LeastNumber
  <2>3. W!Min(W!Free(cs)) \in W!Free(cs)
    BY <2>2 DEF W!Min
  <2>4. PICK c \in W!ChainIds : c = W!Min(W!Free(cs)) /\ cs[c] = None
    BY <2>3 DEF W!Free
  <2>5. PICK ch : ch = [sub |-> sub, hook |-> hook, task |-> "prepare", retry |-> "none", posts |-> 0]
    OBVIOUS
  <2>6. ch \in W!Chain /\ ch # None
    BY <2>5, WebFacts DEF W!Chain, W!TaskStates, W!RetryStates
  <2>7. StagesOK(ch)
    <3>1. sub.retries \in Nat
      BY SubFacts
    <3> QED BY <2>5, <3>1 DEF StagesOK
  <2>8. PICK ds : ds = [cs EXCEPT ![c] = ch]
    OBVIOUS
  <2>9. cs \in [W!ChainIds -> W!Chain \cup {None}]
    BY DEF Visits
  <2>10. ds \in [W!ChainIds -> W!Chain \cup {None}] /\ ds[c] = ch
    BY <2>6, <2>8, <2>9
  <2>11. \A d \in W!ChainIds : d # c => ds[d] = cs[d]
    BY <2>8, <2>9
  <2>12. Retrying(ds) = Retrying(cs)
    BY <2>4, <2>5, <2>10, <2>11 DEF Retrying
  <2>13. c \notin Retrying(cs)
    BY <2>4 DEF Retrying
  <2>14. Retrying(cs) = Retrying(chains) /\ SameSubs(chains, cs, Retrying(chains))
    BY DEF Visits
  <2>15. SameSubs(chains, ds, Retrying(chains))
    <3>1. \A d \in Retrying(chains) : d \in W!ChainIds /\ ds[d] = cs[d]
      BY <2>11, <2>13, <2>14 DEF Retrying
    <3> QED BY <2>14, <3>1 DEF SameSubs
  <2>16. \A d \in W!ChainIds : ds[d] # None => StagesOK(ds[d])
    BY <2>7, <2>10, <2>11 DEF Visits
  <2>17. ds \in Visits
    BY <2>10, <2>12, <2>14, <2>15, <2>16 DEF Visits
  <2>18. W!Started(cs, sub, hook) = ds
    BY <2>4, <2>5, <2>8 DEF W!Started
  <2> QED BY <1>2, <2>17, <2>18
<1> QED BY <1>1, <1>2 DEF W!VisitSub

(* The pass of fire over the subscriptions.                                *)
LEMMA FiredKeeps ==
    ASSUME WebInv, NEW hits, NEW hook \in BOOLEAN
    PROVE  W!Fired(hits, hook) \in Visits
<1> DEFINE Step(v, n) == W!VisitSub(v, items[order[n]], hook, order[n] \in hits)
<1>0. order \in Seq(Paths)
  BY DEF WebInv
<1>1. PICK N \in Nat : N = Len(order) /\ DOMAIN order = 1..N
  BY <1>0
<1>2. PICK F : F = [n \in 1..N |-> [v \in Visits |-> Step(v, n)]]
  OBVIOUS
<1>3. \A n \in 1..N, v \in Visits : F[n][v] = Step(v, n)
  BY <1>2
<1>4. \A n \in 1..N, v \in Visits : F[n][v] \in Visits
  <2>1. ASSUME NEW n \in 1..N PROVE items[order[n]] \in W!Subs
    <3>1. order[n] \in Paths
      BY <1>0, <1>1
    <3>2. items[order[n]] # None
      BY <1>1, <3>1 DEF WebInv, HookKeys
    <3> QED BY <3>1, <3>2 DEF WebInv
  <2>2. ASSUME NEW n \in 1..N, NEW v \in Visits PROVE Step(v, n) \in Visits
    <3>1. PICK hit : hit = (order[n] \in hits)
      OBVIOUS
    <3>2. PICK sub \in W!Subs : sub = items[order[n]]
      BY <2>1
    <3>3. W!VisitSub(v, sub, hook, hit) \in Visits
      BY VisitKeeps
    <3> QED BY <3>1, <3>2, <3>3
  <2> QED BY <1>3, <2>2
<1>5. chains \in Visits
  BY DEF Visits, WebInv, SameSubs, Retrying
<1>6. PICK g \in [SUBSET (1..N) -> Visits] : FoldsLeft(g, N, Visits, F, chains)
  BY <1>4, <1>5, FoldLeftExists
<1> DEFINE iter[s \in SUBSET (1..N)] == IF s = {} THEN chains ELSE Step(iter[s \ {Max(s)}], Max(s))
<1>7. g = [s \in SUBSET (1..N) |-> IF s = {} THEN chains ELSE Step(g[s \ {Max(s)}], Max(s))]
  <2>1. \A s \in SUBSET (1..N) : s # {} => Max(s) \in 1..N /\ g[s \ {Max(s)}] \in Visits
    BY GreatestUpTo
  <2> HIDE DEF Step
  <2>2. \A s \in SUBSET (1..N) : g[s] = IF s = {} THEN chains ELSE Step(g[s \ {Max(s)}], Max(s))
    BY <1>3, <1>6, <2>1 DEF FoldsLeft
  <2> QED BY <2>2
<1>8. iter = [s \in SUBSET (1..N) |-> IF s = {} THEN chains ELSE Step(iter[s \ {Max(s)}], Max(s))]
  BY <1>7
<1>9. W!Fired(hits, hook) = iter[1..N]
  BY <1>1 DEF W!Fired, W!FoldLeft, W!MapThenFoldSet, W!Max, Max
<1> HIDE DEF iter, Step
<1>10. FoldsLeft(iter, N, Visits, F, chains)
  <2>1. \A s \in SUBSET (1..N) : s # {} => Max(s) \in 1..N
    BY GreatestUpTo
  <2> QED BY <1>8, <1>3, <2>1 DEF FoldsLeft
<1>11. PICK it : it = iter
  OBVIOUS
<1>12. FoldsLeft(it, N, Visits, F, chains)
  BY <1>10, <1>11
<1>13. PICK st \in [0..N -> Visits] : Ladder(st, N, F, chains) /\ st[N] = it[1..N]
  BY <1>4, <1>5, <1>12, FoldLadder
<1>14. N \in 0..N
  OBVIOUS
<1> QED BY <1>9, <1>11, <1>13, <1>14

LEMMA FireKeeps ==
    ASSUME WebInv, chains' \in Visits, UNCHANGED <<items, order, bytes, subBytes, closing, awaited>>
    PROVE  WebInv'
<1>1. PICK cs \in [W!ChainIds -> W!Chain \cup {None}] : cs = chains
  BY DEF WebInv
<1>2. PICK ds : ds = chains'
  OBVIOUS
<1>3. /\ ds \in [W!ChainIds -> W!Chain \cup {None}]
      /\ Retrying(ds) = Retrying(cs) /\ SameSubs(cs, ds, Retrying(cs))
      /\ \A c \in W!ChainIds : ds[c] # None => StagesOK(ds[c])
  BY <1>1, <1>2 DEF Visits
<1>4. BudgetsOK(cs, bytes, subBytes)
  BY <1>1 DEF WebInv
<1>5. BudgetsOK(ds, bytes, subBytes)
  BY <1>3, <1>4, BudgetSame
<1>6. BudgetsOK(chains', bytes', subBytes')
  BY <1>2, <1>5
<1>7. BudgetsOK(chains, bytes, subBytes)'
  BY <1>6 DEF BudgetsOK, Size, Held, Retrying
<1>8. HookKeys' /\ KeysApart(order)'
  BY DEF WebInv, HookKeys
<1> QED BY <1>2, <1>3, <1>7, <1>8 DEF WebInv, StagesOK

LEMMA HookFileKeeps ==
    ASSUME WebInv, NEW p \in Paths,
           W!Unregister(p) \/ \E f \in HookFiles, dns \in W!DnsAnswers : W!Register(p, f, dns)
    PROVE  WebInv'
<1>0. order \in Seq(Paths) /\ KeysApart(order) /\ items \in [Paths -> W!Subs \cup {None}]
  BY DEF WebInv
<1>1. RemoveFirst(order, p) = W!RemoveFirst(order, p)
  BY DEF RemoveFirst, W!RemoveFirst, RemoveAt, W!RemoveAt, SelectInSeq, W!SelectInSeq, Min, W!Min
<1> DEFINE KeptAsIs ==
      /\ items' \in [Paths -> W!Subs \cup {None}] /\ order' \in Seq(Paths) /\ KeysApart(order')
      /\ \A q \in Paths : items'[q] # None <=> \E i \in 1..Len(order') : order'[i] = q
      /\ UNCHANGED <<chains, bytes, subBytes, closing, awaited>>
<1>2. KeptAsIs
  <2>1. CASE W!Unregister(p)
    <3>1. items' = [items EXCEPT ![p] = None]
      BY <2>1 DEF W!Unregister
    <3>2. PICK r : r = RemoveFirst(order, p)
      OBVIOUS
    <3>3. r \in Seq(Paths) /\ KeysApart(r) /\ OnlyLost(r, order, p)
      BY <1>0, <3>2, KeyRemoved
    <3>4. order' = r
      BY <1>1, <2>1, <3>2 DEF W!Unregister
    <3>5. ASSUME NEW q \in Paths PROVE items'[q] # None <=> \E i \in 1..Len(r) : r[i] = q
      <4>1. (\E i \in 1..Len(r) : r[i] = q) <=> q # p /\ \E i \in 1..Len(order) : order[i] = q
        BY <3>3 DEF OnlyLost
      <4>2. items[q] # None <=> \E i \in 1..Len(order) : order[i] = q
        BY DEF WebInv, HookKeys
      <4> QED BY <1>0, <3>1, <4>1, <4>2
    <3>6. items' \in [Paths -> W!Subs \cup {None}]
      BY <1>0, <3>1
    <3>7. UNCHANGED <<chains, bytes, subBytes, closing, awaited>>
      BY <2>1 DEF W!Unregister
    <3> QED BY <3>3, <3>4, <3>5, <3>6, <3>7
  <2>2. ASSUME NEW f \in HookFiles, NEW dns \in W!DnsAnswers, W!Register(p, f, dns)
        PROVE  KeptAsIs
    <3>0. PICK sub : sub = W!Parse(f, dns)
      OBVIOUS
    <3>1. items' = [items EXCEPT ![p] = sub] /\ sub \in W!Subs /\ sub # None
      BY <2>2, <3>0 DEF W!Register, W!Subs
    <3>2. PICK r : r = Append(RemoveFirst(order, p), p)
      OBVIOUS
    <3>3. r \in Seq(Paths) /\ KeysApart(r) /\ OneMore(r, order, p)
      BY <1>0, <3>2, KeyToEnd
    <3>4. order' = r
      BY <1>1, <2>2, <3>2 DEF W!Register
    <3>5. ASSUME NEW q \in Paths PROVE items'[q] # None <=> \E i \in 1..Len(r) : r[i] = q
      <4>1. (\E i \in 1..Len(r) : r[i] = q) <=> q = p \/ \E i \in 1..Len(order) : order[i] = q
        BY <3>3 DEF OneMore
      <4>2. items[q] # None <=> \E i \in 1..Len(order) : order[i] = q
        BY DEF WebInv, HookKeys
      <4> QED BY <1>0, <3>1, <4>1, <4>2
    <3>6. items' \in [Paths -> W!Subs \cup {None}]
      BY <1>0, <3>1
    <3>7. UNCHANGED <<chains, bytes, subBytes, closing, awaited>>
      BY <2>2 DEF W!Register
    <3> QED BY <3>3, <3>4, <3>5, <3>6, <3>7
  <2> QED BY <2>1, <2>2
<1>3. HookKeys'
  BY <1>2 DEF HookKeys
<1>4. KeysApart(order)'
  BY <1>2 DEF KeysApart
<1>5. BudgetsOK(chains, bytes, subBytes)'
  BY <1>2 DEF WebInv, BudgetsOK, Size, Held, Retrying
<1>6. \A c \in W!ChainIds : chains'[c] # None => StagesOK(chains[c])'
  BY <1>2 DEF WebInv, StagesOK
<1> QED BY <1>2, <1>3, <1>4, <1>5, <1>6 DEF WebInv

LEMMA WebNext == WebInv /\ [W!Next]_whvars => WebInv'
<1> SUFFICES ASSUME WebInv, [W!Next]_whvars PROVE WebInv'
  OBVIOUS
<1>1. CASE UNCHANGED whvars
  BY <1>1 DEF whvars, WebInv, HookKeys, KeysApart, BudgetsOK, Size, Held, Retrying, StagesOK
<1>2. ASSUME NEW kind \in Kinds, NEW success \in BOOLEAN, W!Fire(kind, success) PROVE WebInv'
  BY <1>2, FiredKeeps, FireKeeps DEF W!Fire
<1>3. ASSUME NEW d \in {"deny", "other"}, W!FireHookDecision(d) PROVE WebInv'
  BY <1>3, FiredKeeps, FireKeeps DEF W!FireHookDecision
<1>4. ASSUME NEW c \in W!ChainIds, W!Deliver(c) \/ W!Retry(c) PROVE WebInv'
  BY <1>4, DeliverKeeps, RetryScheduledKeeps, RetryKeeps DEF W!Deliver
<1>5. CASE W!Close \/ W!Drained
  <2>1. UNCHANGED <<items, order, chains, bytes, subBytes>> /\ closing' \in {"no", "draining", "closed"}
    BY <1>5 DEF W!Close, W!Drained
  <2>2. awaited' \in SUBSET (W!ChainIds \X {"task", "retry"})
    BY <1>5 DEF W!Close, W!Drained, W!Tasks
  <2> QED BY <2>1, <2>2 DEF WebInv, HookKeys, KeysApart, BudgetsOK, Size, Held, Retrying, StagesOK
<1> QED BY <1>1, <1>2, <1>3, <1>4, <1>5, HookFileKeeps DEF W!Next

(* The invariant gives the budgets and the bounds.                         *)
LEMMA WebIs == WebInv => DeliveriesBounded /\ W!TypeOK
<1> SUFFICES ASSUME WebInv PROVE DeliveriesBounded /\ W!TypeOK
  OBVIOUS
<1>1. W!TypeOK
  BY DEF WebInv, HookKeys, W!TypeOK, W!Contains
<1>2. W!BudgetExact
  <2>1. \A w, s : W!SumFunctionOnSet(w, s) = SumFunctionOnSet(w, s)
    BY DEF W!SumFunctionOnSet, SumFunctionOnSet, W!FoldFunctionOnSet, FoldFunctionOnSet, W!MapThenFoldSet, MapThenFoldSet
  <2>2. BudgetsOK(chains, bytes, subBytes)
    BY DEF WebInv
  <2>3. PICK w : w = Size(chains)
    OBVIOUS
  <2>4. PICK R : R = Retrying(chains)
    OBVIOUS
  <2> QED BY <2>1, <2>2, <2>3, <2>4 DEF W!BudgetExact, BudgetsOK, Size, Held, Retrying
<1>3. W!Cardinality(W!Tasks(chains)) <= 2 * GlobalCap
  <2>1. IsFiniteSet({"task", "retry"}) /\ Cardinality({"task", "retry"}) <= 2
    <3>1. PICK one : one = {"task"}
      OBVIOUS
    <3>2. IsFiniteSet(one) /\ Cardinality(one) = 1
      BY <3>1, FS_Singleton
    <3>3. /\ IsFiniteSet(one \cup {"retry"})
          /\ Cardinality(one \cup {"retry"}) = 1 \/ Cardinality(one \cup {"retry"}) = 1 + 1
      BY <3>2, FS_AddElement
    <3>4. one \cup {"retry"} = {"task", "retry"}
      BY <3>1
    <3> QED BY <3>3, <3>4
  <2>2. W!Tasks(chains) \subseteq W!ChainIds \X {"task", "retry"}
    BY DEF W!Tasks
  <2>3. PICK P : P = W!ChainIds \X {"task", "retry"}
    OBVIOUS
  <2>4. IsFiniteSet(P) /\ Cardinality(P) = Cardinality(W!ChainIds) * Cardinality({"task", "retry"})
    BY <2>1, <2>3, ChainIdsFinite, FS_Product
  <2>5. Cardinality(W!Tasks(chains)) <= Cardinality(P) /\ IsFiniteSet(W!Tasks(chains))
    BY <2>2, <2>3, <2>4, FS_Subset
  <2>6. Cardinality({"task", "retry"}) \in Nat /\ Cardinality(W!Tasks(chains)) \in Nat
    BY <2>1, <2>5, FS_CardinalityType
  <2>7. PICK k \in Nat : k = Cardinality({"task", "retry"}) /\ k <= 2
    BY <2>1, <2>6
  <2>8. GlobalCap * k <= 2 * GlobalCap
    <3>1. k = 0 \/ k = 1 \/ k = 2
      BY <2>7
    <3> QED BY <3>1, WebFacts
  <2>9. \A s : W!Cardinality(s) = Cardinality(s)
    BY DEF W!Cardinality, Cardinality
  <2>10. Cardinality(P) = GlobalCap * k /\ GlobalCap * k \in Nat
    BY <2>4, <2>7, ChainIdsFinite, WebFacts
  <2> QED BY <2>5, <2>6, <2>8, <2>9, <2>10, WebFacts
<1>4. W!ChainsBounded
  BY <1>3 DEF W!ChainsBounded, WebInv, StagesOK
<1> QED BY <1>1, <1>2, <1>4 DEF DeliveriesBounded

(* Webhooks: the byte budgets of retries are exact and never exceeded, and *)
(* chains of retries bounded, through every outcome of an attempt, every   *)
(* change of a file and close(), for any files, caps and budgets.          *)
THEOREM DeliveriesBoundedHolds == W!Init /\ [][W!Next]_whvars => []DeliveriesBounded
<1> QED BY WebInit, WebNext, WebIs, PTL

-----------------------------------------------------------------------------
(* The event stream.                                                       *)

(* The ring holds the last ids given out.                                  *)
RingRuns ==
    Len(ring) <= nextId /\ \A k \in 1..Len(ring) : ring[k] = nextId - Len(ring) + k

(* A reader without a stream has nothing queued, and only one that waits,  *)
(* fetches or streams can fail once more.                                  *)
ConnOK(c) ==
    /\ state[c] # "streaming" => queue[c] = <<>> /\ replay[c] = <<>> /\ c \notin subs
    /\ state[c] \in {"fetching", "streaming"} => aborter[c]
    /\ state[c] \in {"waiting", "fetching", "streaming"} => fails[c] <= MaxFailures

(* What a stream still has to send: ordered, and for a subscriber complete. *)
InOrder(q, over) ==
    /\ \A i, j \in 1..Len(q) :
          i < j => q[i] # Overrun /\ (q[j] # Overrun => q[i] < q[j])
    /\ (\E i \in 1..Len(q) : q[i] = Overrun) => over
UpToNow(q) == \A i \in 1..Len(q) : q[i] \in Nat /\ q[i] <= nextId
Complete(c, q) ==
    \A i \in Nat : since[c] <= i /\ i <= nextId =>
        <<epoch, i>> \in got[c] \/ \E k \in 1..Len(q) : q[k] = i
PendingOK(c) ==
    /\ InOrder(Pending(c), closed[c])
    /\ c \in subs => UpToNow(Pending(c)) /\ Complete(c, Pending(c))

FeedInv ==
    TypeOK /\ RingRuns /\ \A c \in Clients : ConnOK(c) /\ PendingOK(c)

LEMMA FeedFacts ==
    /\ RingMax \in Nat \ {0} /\ QueueMax \in Nat \ {0} /\ MaxFailures \in Nat
    /\ MaxId \in Nat /\ MaxEpoch \in Nat /\ Overrun \notin Nat /\ Overrun \notin Ids
BY StreamAssumption DEF Ids

LEMMA FeedReader ==
    ASSUME FeedInv, NEW c \in Clients
    PROVE  /\ replay[c] \in Seq(Ids) /\ queue[c] \in Seq(Ids \cup {Overrun})
           /\ replay[c] \in Seq(Ids \cup {Overrun}) /\ Pending(c) \in Seq(Ids \cup {Overrun})
           /\ Len(queue[c]) <= QueueMax /\ Len(queue[c]) \in Nat /\ Len(replay[c]) \in Nat
           /\ since[c] \in 1..MaxId + 1 /\ since[c] \in Nat /\ nextId \in Nat
           /\ ConnOK(c) /\ PendingOK(c)
<1>1. PICK T, q, u : T = Ids \cup {Overrun} /\ q = queue[c] /\ u = replay[c]
  OBVIOUS
<1>2. u \in Seq(Ids) /\ q \in Seq(T) /\ Len(q) <= QueueMax
  BY <1>1 DEF FeedInv, TypeOK
<1>3. u \in Seq(T)
  <2>1. Len(u) \in Nat /\ DOMAIN u = 1..Len(u) /\ \A i \in 1..Len(u) : u[i] \in Ids
    BY <1>2
  <2>2. \A i \in 1..Len(u) : u[i] \in T
    BY <1>1, <2>1
  <2>3. u = [i \in 1..Len(u) |-> u[i]]
    BY <1>2
  <2> QED BY <2>1, <2>2, <2>3
<1>4. u \o q \in Seq(T) /\ Len(q) \in Nat /\ Len(u) \in Nat
  BY <1>2, <1>3
<1>5. since[c] \in 1..MaxId + 1 /\ nextId \in 0..MaxId
  BY DEF FeedInv, TypeOK
<1>6. since[c] \in Nat /\ nextId \in Nat
  BY <1>5, FeedFacts
<1> QED BY <1>1, <1>2, <1>3, <1>4, <1>5, <1>6 DEF FeedInv, Pending

LEMMA FeedStarts == Init => FeedInv
<1> SUFFICES ASSUME Init PROVE FeedInv
  OBVIOUS
<1>1. Len(<<>>) = 0 /\ \A i : i \notin 1..Len(<<>>)
  OBVIOUS
<1>2. TypeOK
  <2>1. epoch \in 0..MaxEpoch /\ nextId \in 0..MaxId /\ ring \in Seq(Ids) /\ Len(ring) <= RingMax
    BY <1>1, FeedFacts DEF Init
  <2>2. queue \in [Clients -> Seq(Ids \cup {Overrun})] /\ replay \in [Clients -> Seq(Ids)]
    BY DEF Init
  <2>3. \A c \in Clients : Len(queue[c]) <= QueueMax
    BY <1>1, FeedFacts DEF Init
  <2>4. /\ closed \in [Clients -> BOOLEAN] /\ aborter \in [Clients -> BOOLEAN]
        /\ state \in [Clients -> {"idle", "fetching", "streaming", "waiting", "failed"}]
    BY DEF Init
  <2>5. /\ lastId \in [Clients -> Ids \cup {Overrun, None}]
        /\ got \in [Clients -> SUBSET ((0..MaxEpoch) \X Ids)] /\ subs \in SUBSET Clients
    BY DEF Init
  <2>6. fails \in [Clients -> 0..MaxFailures + 1] /\ since \in [Clients -> 1..MaxId + 1]
    BY FeedFacts DEF Init
  <2> QED BY <2>1, <2>2, <2>3, <2>4, <2>5, <2>6 DEF TypeOK
<1>3. RingRuns
  BY <1>1 DEF Init, RingRuns
<1>4. ASSUME NEW c \in Clients PROVE ConnOK(c) /\ PendingOK(c)
  <2>1. Pending(c) = <<>>
    BY DEF Init, Pending
  <2>2. ConnOK(c)
    BY DEF Init, ConnOK
  <2>3. c \notin subs
    BY DEF Init
  <2> QED BY <1>1, <2>1, <2>2, <2>3 DEF PendingOK, InOrder
<1> QED BY <1>2, <1>3, <1>4 DEF FeedInv

(* Steps that leave what is pending as it was.                             *)
LEMMA ReaderStays ==
    ASSUME FeedInv, NEW c \in Clients, queue'[c] = queue[c], replay'[c] = replay[c], closed'[c] = closed[c],
           subs' \subseteq subs, since'[c] = since[c], nextId' = nextId, epoch' = epoch, got'[c] = got[c]
    PROVE  PendingOK(c)'
<1>1. Pending(c)' = Pending(c)
  BY DEF Pending
<1>2. PendingOK(c)
  BY DEF FeedInv
<1> QED BY <1>1, <1>2 DEF PendingOK, InOrder, UpToNow, Complete

LEMMA NothingPending ==
    ASSUME NEW c \in Clients, queue'[c] = <<>>, replay'[c] = <<>>, c \notin subs'
    PROVE  PendingOK(c)'
<1>1. Pending(c)' = <<>>
  BY DEF Pending
<1>2. \A i : i \notin 1..Len(<<>>)
  OBVIOUS
<1> QED BY <1>1, <1>2 DEF PendingOK, InOrder

(* The snapshot of the ring that a new stream replays.                     *)
LEMMA ReplayIs ==
    ASSUME FeedInv, NEW last, NEW r, r = ReplayFrom(last)
    PROVE  /\ r \in Seq(Ids) /\ Ascending(r)
           /\ \A j \in 1..Len(r) : r[j] \in Nat /\ r[j] <= nextId
           /\ r # <<>> => \A i \in Nat : r[1] <= i /\ i <= nextId => \E k \in 1..Len(r) : r[k] = i
<1>1. /\ ring \in Seq(Ids) /\ Len(ring) \in Nat /\ nextId \in Nat /\ nextId <= MaxId /\ Len(ring) <= nextId
      /\ \A k \in 1..Len(ring) : ring[k] = nextId - Len(ring) + k
  BY FeedFacts DEF FeedInv, TypeOK, RingRuns
<1>2. \A k \in 1..Len(ring) : ring[k] \in Nat /\ ring[k] <= nextId /\ ring[k] \in Ids
  <2>1. PICK l : l = Len(ring)
    OBVIOUS
  <2>2. \A k \in 1..l : ring[k] = nextId - l + k
    BY <1>1, <2>1
  <2>3. \A k \in 1..l : nextId - l + k \in Nat /\ nextId - l + k <= nextId /\ nextId - l + k >= 1
    BY <1>1, <2>1
  <2> QED BY <1>1, <2>1, <2>2, <2>3, FeedFacts DEF Ids
<1>3. Ascending(ring)
  <2>1. SUFFICES ASSUME NEW i \in 1..Len(ring), NEW j \in 1..Len(ring), i < j PROVE ring[i] < ring[j]
    BY DEF Ascending
  <2>2. PICK l : l = Len(ring)
    OBVIOUS
  <2>3. ring[i] = nextId - l + i /\ ring[j] = nextId - l + j
    BY <1>1, <2>2
  <2> QED BY <1>1, <2>1, <2>2, <2>3
<1>4. ASSUME NEW k \in 1..Len(ring), NEW i \in Nat, ring[k] <= i, i <= nextId
      PROVE  \E h \in 1..Len(ring) : ring[h] = i
  <2>1. PICK l : l = Len(ring)
    OBVIOUS
  <2>2. PICK h : h = i - (nextId - l)
    OBVIOUS
  <2>3. ring[k] = nextId - l + k /\ l \in Nat /\ l <= nextId /\ k \in 1..l
    BY <1>1, <2>1
  <2>4. h \in 1..l /\ nextId - l + h = i
    BY <1>1, <1>4, <2>2, <2>3
  <2>5. ring[h] = i
    BY <1>1, <2>1, <2>4
  <2> QED BY <2>1, <2>4, <2>5
<1>5. CASE last \notin Nat
  <2>1. r = ring
    BY <1>5 DEF ReplayFrom
  <2>2. ring # <<>> => 1 \in 1..Len(ring)
    BY <1>1
  <2> QED BY <1>1, <1>2, <1>3, <1>4, <2>1, <2>2
<1>6. CASE last \in Nat
  <2>1. PICK T : T = {i \in Nat : i > last}
    OBVIOUS
  <2>2. r = CopyOf(ring, T)
    <3>1. r = Kept(ring, T)
      BY <1>6, <2>1 DEF ReplayFrom
    <3>2. Kept(ring, T) = CopyOf(ring, T)
      BY DEF Kept, CopyOf
    <3> QED BY <3>1, <3>2
  <2>3. ring \in Seq(Nat)
    <3>1. ring = [k \in 1..Len(ring) |-> ring[k]]
      BY <1>1
    <3> QED BY <1>1, <1>2, <3>1
  <2>4. r \in Seq(Nat) /\ Copied(r, ring, T, Len(ring))
    BY <2>2, <2>3, CopyIs
  <2>5. \A j \in 1..Len(r) : \E k \in 1..Len(ring) : r[j] = ring[k] /\ ring[k] \in T
    BY <2>4 DEF Copied
  <2>6. \A j \in 1..Len(r) : r[j] \in Ids /\ r[j] \in Nat /\ r[j] <= nextId
    BY <1>2, <2>5
  <2>7. r \in Seq(Ids)
    <3>1. r = [j \in 1..Len(r) |-> r[j]] /\ Len(r) \in Nat
      BY <2>4
    <3> QED BY <2>6, <3>1
  <2>8. ASSUME r # <<>>, NEW i \in Nat, r[1] <= i, i <= nextId PROVE \E k \in 1..Len(r) : r[k] = i
    <3>1. 1 \in 1..Len(r)
      BY <2>4, <2>8
    <3>2. PICK k \in 1..Len(ring) : r[1] = ring[k] /\ ring[k] \in T
      BY <2>5, <3>1
    <3>3. PICK h \in 1..Len(ring) : ring[h] = i
      BY <1>4, <2>8, <3>2
    <3>4. i \in T
      BY <1>2, <1>6, <2>1, <2>8, <3>2
    <3> QED BY <2>4, <3>3, <3>4 DEF Copied
  <2> QED BY <1>3, <2>4, <2>6, <2>7, <2>8 DEF Copied
<1> QED BY <1>5, <1>6

LEMMA ConnectKeeps ==
    ASSUME FeedInv, NEW c \in Clients, Connect(c)
    PROVE  FeedInv'
<1>1. PICK r : r = ReplayFrom(lastId[c])
  OBVIOUS
<1>2. PICK f : f = IF r = <<>> THEN nextId + 1 ELSE r[1]
  OBVIOUS
<1>3. TypeOK /\ nextId \in 0..MaxId /\ nextId \in Nat
  BY FeedFacts DEF FeedInv, TypeOK
<1>4. /\ r \in Seq(Ids) /\ Ascending(r)
      /\ \A j \in 1..Len(r) : r[j] \in Nat /\ r[j] <= nextId
      /\ r # <<>> => \A i \in Nat : r[1] <= i /\ i <= nextId => \E k \in 1..Len(r) : r[k] = i
  BY <1>1, ReplayIs
<1>5. f \in 1..MaxId + 1
  <2>1. CASE r = <<>>
    BY <1>2, <1>3, <2>1, FeedFacts
  <2>2. CASE r # <<>>
    <3>1. 1 \in 1..Len(r)
      BY <1>4, <2>2
    <3>2. r[1] \in Ids
      BY <1>4, <3>1
    <3> QED BY <1>2, <2>2, <3>2, FeedFacts DEF Ids
  <2> QED BY <2>1, <2>2
<1>6. replay' = [replay EXCEPT ![c] = r]
  BY <1>1 DEF Connect
<1>7. replay'[c] = r /\ \A x \in Clients : x # c => replay'[x] = replay[x]
  BY <1>3, <1>6 DEF TypeOK
<1>8. since' = [since EXCEPT ![c] = f]
  <2>1. since' = [since EXCEPT ![c] = IF r = <<>> THEN nextId + 1 ELSE Head(r)]
    <3>1. since' = [since EXCEPT ![c] = IF replay'[c] = <<>> THEN nextId + 1 ELSE Head(replay'[c])]
      BY DEF Connect
    <3> QED BY <1>7, <3>1
  <2>2. r # <<>> => Head(r) = r[1]
    BY <1>4
  <2> QED BY <1>2, <2>1, <2>2
<1>9. /\ subs' = subs \cup {c} /\ queue' = [queue EXCEPT ![c] = <<>>] /\ closed' = [closed EXCEPT ![c] = FALSE]
      /\ state' = [state EXCEPT ![c] = "streaming"] /\ fails' = [fails EXCEPT ![c] = 0]
      /\ epoch' = epoch /\ nextId' = nextId /\ ring' = ring /\ aborter' = aborter /\ lastId' = lastId
      /\ got' = got /\ state[c] = "fetching"
  BY DEF Connect, broker
<1>10. TypeOK'
  <2>1. replay' \in [Clients -> Seq(Ids)]
    BY <1>3, <1>4, <1>6 DEF TypeOK
  <2>2. since' \in [Clients -> 1..MaxId + 1]
    BY <1>3, <1>5, <1>8 DEF TypeOK
  <2>3. queue' \in [Clients -> Seq(Ids \cup {Overrun})]
    BY <1>3, <1>9 DEF TypeOK
  <2>4. \A x \in Clients : Len(queue'[x]) <= QueueMax
    BY <1>3, <1>9, FeedFacts DEF TypeOK
  <2>5. closed' \in [Clients -> BOOLEAN] /\ subs' \in SUBSET Clients
    BY <1>3, <1>9, Zenon DEF TypeOK
  <2>6. state' \in [Clients -> {"idle", "fetching", "streaming", "waiting", "failed"}]
    BY <1>3, <1>9 DEF TypeOK
  <2>7. fails' \in [Clients -> 0..MaxFailures + 1]
    BY <1>3, <1>9, FeedFacts DEF TypeOK
  <2> QED BY <1>3, <1>9, <2>1, <2>2, <2>3, <2>4, <2>5, <2>6, <2>7 DEF TypeOK
<1>11. RingRuns'
  BY <1>9 DEF FeedInv, RingRuns
<1>12. ASSUME NEW x \in Clients, x # c PROVE ConnOK(x)' /\ PendingOK(x)'
  <2>1. /\ queue'[x] = queue[x] /\ replay'[x] = replay[x] /\ closed'[x] = closed[x] /\ state'[x] = state[x]
        /\ fails'[x] = fails[x] /\ since'[x] = since[x] /\ aborter'[x] = aborter[x] /\ got'[x] = got[x]
        /\ (x \in subs' <=> x \in subs)
    BY <1>3, <1>7, <1>8, <1>9, <1>12 DEF TypeOK
  <2>2. ConnOK(x) /\ PendingOK(x)
    BY DEF FeedInv
  <2>3. ConnOK(x)'
    BY <2>1, <2>2 DEF ConnOK
  <2>4. Pending(x)' = Pending(x)
    BY <2>1 DEF Pending
  <2> QED BY <1>9, <2>1, <2>2, <2>3, <2>4 DEF PendingOK, InOrder, UpToNow, Complete
<1>13. ConnOK(c)'
  <2>1. aborter[c] /\ state'[c] = "streaming" /\ fails'[c] = 0
    BY <1>3, <1>9 DEF FeedInv, ConnOK, TypeOK
  <2> QED BY <1>9, <2>1, FeedFacts DEF ConnOK
<1>14. PendingOK(c)'
  <2>1. queue'[c] = <<>> /\ since'[c] = f
    BY <1>3, <1>8, <1>9 DEF TypeOK
  <2>2. Pending(c)' = r
    BY <1>4, <1>7, <2>1 DEF Pending
  <2>3. InOrder(r, closed'[c])
    BY <1>4, FeedFacts DEF InOrder, Ascending
  <2>4. UpToNow(r)'
    BY <1>4, <1>9 DEF UpToNow
  <2>5. Complete(c, r)'
    <3>1. ASSUME NEW i \in Nat, f <= i, i <= nextId PROVE \E k \in 1..Len(r) : r[k] = i
      BY <1>2, <1>3, <1>4, <3>1
    <3> QED BY <1>9, <2>1, <3>1 DEF Complete
  <2> QED BY <2>2, <2>3, <2>4, <2>5 DEF PendingOK, InOrder, UpToNow, Complete
<1> QED BY <1>10, <1>11, <1>12, <1>13, <1>14 DEF FeedInv

(* The first of two joined sequences is empty or gives the first element.  *)
LEMMA JoinedTail ==
    ASSUME NEW T, NEW u \in Seq(T), NEW v \in Seq(T), NEW w, w = u \o v, w # <<>>,
           NEW u2, NEW v2, u2 = (IF u # <<>> THEN Tail(u) ELSE u), v2 = (IF u # <<>> THEN v ELSE Tail(v))
    PROVE  /\ w \in Seq(T) /\ Len(w) \in Nat /\ 1 \in 1..Len(w)
           /\ u2 \in Seq(T) /\ v2 \in Seq(T)
           /\ u2 \o v2 = Tail(w) /\ Head(w) = w[1]
<1>1. w \in Seq(T) /\ Len(w) \in Nat /\ 1 \in 1..Len(w) /\ Head(w) = w[1]
  OBVIOUS
<1>2. CASE u = <<>>
  <2>1. w = v /\ v # <<>>
    BY <1>2
  <2>2. Tail(v) \in Seq(T)
    BY <2>1
  <2>3. u2 = <<>> /\ v2 = Tail(v)
    BY <1>2
  <2> QED BY <1>1, <2>1, <2>2, <2>3
<1>3. CASE u # <<>>
  <2>1. Tail(u) \in Seq(T) /\ u2 = Tail(u) /\ v2 = v
    BY <1>3
  <2>2. Tail(u) \o v = Tail(u \o v)
    BY <1>3
  <2> QED BY <1>1, <2>1, <2>2
<1> QED BY <1>2, <1>3

LEMMA TailIs ==
    ASSUME NEW T, NEW w \in Seq(T), w # <<>>, NEW z, z = Tail(w)
    PROVE  /\ z \in Seq(T) /\ Len(z) = Len(w) - 1 /\ Len(z) \in Nat
           /\ \A i \in 1..Len(z) : z[i] = w[i + 1] /\ i + 1 \in 1..Len(w)
<1>1. z \in Seq(T) /\ Len(z) = Len(w) - 1 /\ Len(z) \in Nat /\ Len(w) \in Nat
  OBVIOUS
<1>2. \A i \in 1..Len(z) : z[i] = w[i + 1]
  OBVIOUS
<1>3. \A i \in 1..Len(z) : i + 1 \in 1..Len(w)
  BY <1>1
<1> QED BY <1>1, <1>2, <1>3

LEMMA FrameKeeps ==
    ASSUME FeedInv, NEW c \in Clients, Deliver(c)
    PROVE  FeedInv'
<1>1. PICK w, u, q : w = Pending(c) /\ u = replay[c] /\ q = queue[c]
  OBVIOUS
<1>2. PICK T : T = Ids \cup {Overrun}
  OBVIOUS
<1>3. TypeOK /\ state[c] = "streaming" /\ w # <<>> /\ ConnOK(c) /\ PendingOK(c)
  BY <1>1 DEF Deliver, FeedInv
<1>4. u \in Seq(Ids) /\ u \in Seq(T) /\ q \in Seq(T) /\ Len(q) <= QueueMax /\ Len(q) \in Nat /\ w = u \o q
  BY <1>1, <1>2, FeedReader DEF Pending
<1>5. PICK u2, q2 : u2 = (IF u # <<>> THEN Tail(u) ELSE u) /\ q2 = (IF u # <<>> THEN q ELSE Tail(q))
  OBVIOUS
<1>6. /\ w \in Seq(T) /\ Len(w) \in Nat /\ 1 \in 1..Len(w) /\ u2 \in Seq(T) /\ q2 \in Seq(T)
      /\ u2 \o q2 = Tail(w) /\ Head(w) = w[1]
  <2>1. u \in Seq(T) /\ q \in Seq(T) /\ w = u \o q /\ w # <<>>
    BY <1>3, <1>4
  <2>2. u2 = (IF u # <<>> THEN Tail(u) ELSE u) /\ q2 = (IF u # <<>> THEN q ELSE Tail(q))
    BY <1>5
  <2> QED BY <2>1, <2>2, JoinedTail
<1>7. PICK z, frame : z = Tail(w) /\ frame = w[1]
  OBVIOUS
<1>8. /\ z \in Seq(T) /\ Len(z) = Len(w) - 1 /\ Len(z) \in Nat
      /\ \A i \in 1..Len(z) : z[i] = w[i + 1] /\ i + 1 \in 1..Len(w)
  BY <1>3, <1>6, <1>7, TailIs
<1>9. frame \in T
  BY <1>6, <1>7
<1>10. replay' = [replay EXCEPT ![c] = u2] /\ queue' = [queue EXCEPT ![c] = q2]
  <2>1. CASE u # <<>>
    <3>1. replay' = [replay EXCEPT ![c] = Tail(replay[c])] /\ queue' = queue
      BY <1>1, <2>1 DEF Deliver
    <3>2. [queue EXCEPT ![c] = q] = queue
      BY <1>1, <1>3 DEF TypeOK
    <3> QED BY <1>1, <1>5, <2>1, <3>1, <3>2
  <2>2. CASE u = <<>>
    <3>1. queue' = [queue EXCEPT ![c] = Tail(queue[c])] /\ replay' = replay
      BY <1>1, <2>2 DEF Deliver
    <3>2. [replay EXCEPT ![c] = u] = replay
      BY <1>1, <1>3 DEF TypeOK
    <3> QED BY <1>1, <1>5, <2>2, <3>1, <3>2
  <2> QED BY <2>1, <2>2
<1>11. /\ lastId' = [lastId EXCEPT ![c] = frame]
       /\ got' = IF frame = Overrun THEN got ELSE [got EXCEPT ![c] = got[c] \cup {<<epoch, frame>>}]
  BY <1>1, <1>6, <1>7 DEF Deliver
<1>12. /\ epoch' = epoch /\ nextId' = nextId /\ ring' = ring /\ subs' = subs /\ closed' = closed
       /\ since' = since /\ state' = state /\ aborter' = aborter /\ fails' = fails
  BY DEF Deliver, broker
<1>13. u2 \in Seq(Ids) /\ Len(q2) <= QueueMax
  <2>1. CASE u # <<>>
    BY <1>4, <1>5, <2>1
  <2>2. CASE u = <<>>
    <3>1. q # <<>>
      BY <1>3, <1>4, <2>2
    <3>2. Len(Tail(q)) = Len(q) - 1
      BY <1>4, <3>1
    <3>3. Len(q) - 1 <= QueueMax
      BY <1>4, FeedFacts
    <3> QED BY <1>4, <1>5, <2>2, <3>2, <3>3
  <2> QED BY <2>1, <2>2
<1>14. TypeOK'
  <2>1. replay' \in [Clients -> Seq(Ids)]
    BY <1>3, <1>10, <1>13 DEF TypeOK
  <2>2. queue' \in [Clients -> Seq(Ids \cup {Overrun})]
    BY <1>2, <1>3, <1>6, <1>10 DEF TypeOK
  <2>3. \A x \in Clients : Len(queue'[x]) <= QueueMax
    BY <1>3, <1>10, <1>13 DEF TypeOK
  <2>4. lastId' \in [Clients -> Ids \cup {Overrun, None}]
    BY <1>2, <1>3, <1>9, <1>11 DEF TypeOK
  <2>5. got' \in [Clients -> SUBSET ((0..MaxEpoch) \X Ids)]
    <3>1. CASE frame = Overrun
      BY <1>3, <1>11, <3>1 DEF TypeOK
    <3>2. CASE frame # Overrun
      <4>1. frame \in Ids /\ epoch \in 0..MaxEpoch
        BY <1>2, <1>3, <1>9, <3>2 DEF TypeOK
      <4>2. <<epoch, frame>> \in (0..MaxEpoch) \X Ids
        BY <4>1
      <4>3. got[c] \cup {<<epoch, frame>>} \in SUBSET ((0..MaxEpoch) \X Ids)
        BY <1>3, <4>2 DEF TypeOK
      <4> QED BY <1>3, <1>11, <3>2, <4>3 DEF TypeOK
    <3> QED BY <3>1, <3>2
  <2> QED BY <1>3, <1>12, <2>1, <2>2, <2>3, <2>4, <2>5 DEF TypeOK
<1>15. RingRuns'
  BY <1>12 DEF FeedInv, RingRuns
<1>16. ASSUME NEW x \in Clients, x # c PROVE ConnOK(x)' /\ PendingOK(x)'
  <2>1. queue'[x] = queue[x] /\ replay'[x] = replay[x] /\ got'[x] = got[x]
    BY <1>3, <1>10, <1>11, <1>16 DEF TypeOK
  <2>2. ConnOK(x)
    BY DEF FeedInv
  <2>3. ConnOK(x)'
    BY <1>12, <2>1, <2>2 DEF ConnOK
  <2> QED BY <1>12, <2>1, <2>3, ReaderStays
<1>17. ConnOK(c)'
  BY <1>3, <1>12 DEF ConnOK
<1>18. PendingOK(c)'
  <2>1. replay'[c] = u2 /\ queue'[c] = q2
    BY <1>3, <1>10 DEF TypeOK
  <2>2. Pending(c)' = z
    BY <1>6, <1>7, <2>1 DEF Pending
  <2>3. InOrder(w, closed[c]) /\ (c \in subs => UpToNow(w) /\ Complete(c, w))
    BY <1>1, <1>3 DEF PendingOK
  <2>4. \A i \in 1..Len(z) : i \in Nat
    OBVIOUS
  <2>5. InOrder(z, closed[c])
    <3>1. \A i, j \in 1..Len(z) : i < j => i + 1 < j + 1
      BY <2>4
    <3> QED BY <1>8, <2>3, <3>1 DEF InOrder
  <2>6. c \in subs => UpToNow(z)
    BY <1>8, <2>3 DEF UpToNow
  <2>7. ASSUME c \in subs PROVE Complete(c, z)'
    <3>1. w[1] \in Nat /\ frame # Overrun
      BY <1>6, <1>7, <2>3, <2>7, FeedFacts DEF UpToNow
    <3>2. got'[c] = got[c] \cup {<<epoch, frame>>}
      BY <1>3, <1>11, <3>1 DEF TypeOK
    <3>3. ASSUME NEW k \in 1..Len(w), k # 1 PROVE \E h \in 1..Len(z) : z[h] = w[k]
      <4>1. k - 1 \in 1..Len(z) /\ (k - 1) + 1 = k
        BY <1>6, <1>8, <3>3
      <4> QED BY <1>8, <4>1
    <3>4. ASSUME NEW i \in Nat, since[c] <= i, i <= nextId
          PROVE  <<epoch, i>> \in got'[c] \/ \E k \in 1..Len(z) : z[k] = i
      <4>1. CASE <<epoch, i>> \in got[c]
        BY <3>2, <4>1
      <4>2. CASE \E k \in 1..Len(w) : w[k] = i
        <5>1. PICK k \in 1..Len(w) : w[k] = i
          BY <4>2
        <5>2. CASE k = 1
          BY <1>7, <3>2, <5>1, <5>2
        <5>3. CASE k # 1
          BY <3>3, <5>1, <5>3
        <5> QED BY <5>2, <5>3
      <4> QED BY <2>3, <2>7, <3>4, <4>1, <4>2 DEF Complete
    <3> QED BY <1>12, <3>4 DEF Complete
  <2>8. c \in subs => UpToNow(z)'
    BY <1>12, <2>6 DEF UpToNow
  <2> QED BY <1>12, <2>2, <2>5, <2>7, <2>8 DEF PendingOK, InOrder, UpToNow, Complete
<1> QED BY <1>14, <1>15, <1>16, <1>17, <1>18 DEF FeedInv

(* Streams end and are opened; a stream that ends leaves nothing behind.   *)
LEMMA StreamsMove ==
    ASSUME FeedInv, TypeOK', nextId' \in Nat, RingRuns', \A c \in Clients : ConnOK(c)',
           \A c \in Clients :
              \/ queue'[c] = <<>> /\ replay'[c] = <<>> /\ c \notin subs'
              \/ /\ queue'[c] = queue[c] /\ replay'[c] = replay[c] /\ closed'[c] = closed[c]
                 /\ subs' \subseteq subs /\ since'[c] = since[c] /\ got'[c] = got[c]
                 /\ nextId' = nextId /\ epoch' = epoch
    PROVE  FeedInv'
<1>1. \A c \in Clients : PendingOK(c)'
  BY ReaderStays, NothingPending
<1> QED BY <1>1 DEF FeedInv

(* Readers that reconnect have waited, fetched or streamed before.         *)
LEMMA DisconnectKeeps ==
    ASSUME FeedInv, NEW cs \in SUBSET Clients, \A c \in cs : state[c] = "streaming",
           Disconnect(cs), Reconnect(cs), epoch' \in 0..MaxEpoch, nextId' \in 0..MaxId,
           ring' \in Seq(Ids), Len(ring') <= RingMax, RingRuns',
           \/ epoch' = epoch /\ nextId' = nextId
           \/ \A c \in Clients : state[c] = "streaming" => c \in cs
    PROVE  FeedInv'
<1>1. TypeOK /\ \A c \in Clients : ConnOK(c)
  BY DEF FeedInv
<1>2. /\ subs' = subs \ cs
      /\ queue' = [c \in Clients |-> IF c \in cs THEN <<>> ELSE queue[c]]
      /\ replay' = [c \in Clients |-> IF c \in cs THEN <<>> ELSE replay[c]]
      /\ closed' = closed /\ since' = since
  BY DEF Disconnect
<1>3. /\ fails' = [c \in Clients |-> IF c \in cs THEN fails[c] + 1 ELSE fails[c]]
      /\ state' = [c \in Clients |-> IF c \notin cs THEN state[c]
                                     ELSE IF fails'[c] > MaxFailures THEN "failed" ELSE "waiting"]
      /\ aborter' = aborter /\ lastId' = lastId /\ got' = got
  BY DEF Reconnect
<1>4. \A c \in cs : fails[c] \in Nat /\ fails[c] <= MaxFailures
  BY <1>1, FeedFacts DEF TypeOK, ConnOK
<1>5. TypeOK'
  <2>1. queue' \in [Clients -> Seq(Ids \cup {Overrun})] /\ replay' \in [Clients -> Seq(Ids)]
    BY <1>1, <1>2 DEF TypeOK
  <2>2. \A c \in Clients : Len(queue'[c]) <= QueueMax
    BY <1>1, <1>2, FeedFacts DEF TypeOK
  <2>3. fails' \in [Clients -> 0..MaxFailures + 1]
    <3>1. \A c \in Clients : fails'[c] \in 0..MaxFailures + 1
      BY <1>1, <1>3, <1>4, FeedFacts DEF TypeOK
    <3> QED BY <1>3, <3>1
  <2>4. state' \in [Clients -> {"idle", "fetching", "streaming", "waiting", "failed"}]
    BY <1>1, <1>3 DEF TypeOK
  <2>5. subs' \in SUBSET Clients
    BY <1>1, <1>2 DEF TypeOK
  <2> QED BY <1>1, <1>2, <1>3, <2>1, <2>2, <2>3, <2>4, <2>5 DEF TypeOK
<1>6. ASSUME NEW c \in Clients PROVE ConnOK(c)'
  <2>1. CASE c \notin cs
    BY <1>1, <1>2, <1>3, <2>1 DEF ConnOK
  <2>2. CASE c \in cs
    <3>1. state'[c] \in {"failed", "waiting"} /\ (state'[c] = "waiting" => ~(fails'[c] > MaxFailures))
      BY <1>3, <2>2
    <3>2. fails'[c] \in Nat
      BY <1>3, <1>4, <2>2
    <3>3. queue'[c] = <<>> /\ replay'[c] = <<>> /\ c \notin subs'
      BY <1>2, <2>2
    <3> QED BY <3>1, <3>2, <3>3, FeedFacts DEF ConnOK
  <2> QED BY <2>1, <2>2
<1>7. ASSUME NEW c \in Clients
      PROVE  \/ queue'[c] = <<>> /\ replay'[c] = <<>> /\ c \notin subs'
             \/ /\ queue'[c] = queue[c] /\ replay'[c] = replay[c] /\ closed'[c] = closed[c]
                /\ subs' \subseteq subs /\ since'[c] = since[c] /\ got'[c] = got[c]
                /\ nextId' = nextId /\ epoch' = epoch
  <2>1. CASE c \in cs
    BY <1>2, <2>1
  <2>2. CASE c \notin cs /\ state[c] # "streaming"
    BY <1>1, <1>2, <2>2 DEF ConnOK
  <2>3. CASE c \notin cs /\ state[c] = "streaming"
    BY <1>2, <1>3, <2>3
  <2> QED BY <2>1, <2>2, <2>3
<1>8. nextId' \in Nat
  BY FeedFacts
<1> QED BY <1>5, <1>6, <1>7, <1>8, StreamsMove

LEMMA RestartKeeps ==
    ASSUME FeedInv, HarnessRestarts
    PROVE  FeedInv'
<1>1. PICK up : up = {c \in Clients : state[c] = "streaming"}
  OBVIOUS
<1>2. epoch < MaxEpoch /\ epoch' = epoch + 1 /\ nextId' = 0 /\ ring' = <<>> /\ Disconnect(up) /\ Reconnect(up)
  BY <1>1 DEF HarnessRestarts
<1>3. epoch' \in 0..MaxEpoch /\ nextId' \in 0..MaxId
  BY <1>2, FeedFacts DEF FeedInv, TypeOK
<1>4. ring' \in Seq(Ids) /\ Len(ring') = 0 /\ \A k : k \notin 1..Len(ring')
  BY <1>2
<1>5. RingRuns' /\ Len(ring') <= RingMax
  BY <1>2, <1>4, FeedFacts DEF RingRuns
<1>6. /\ up \in SUBSET Clients /\ \A c \in up : state[c] = "streaming"
      /\ \A c \in Clients : state[c] = "streaming" => c \in up
  BY <1>1
<1> QED BY <1>2, <1>3, <1>4, <1>5, <1>6, DisconnectKeeps

LEMMA StreamEndsKeeps ==
    ASSUME FeedInv, NEW c \in Clients, state[c] = "streaming", Disconnect({c}), Reconnect({c}), UNCHANGED broker
    PROVE  FeedInv'
<1>1. epoch' = epoch /\ nextId' = nextId /\ ring' = ring
  BY DEF broker
<1>2. epoch' \in 0..MaxEpoch /\ nextId' \in 0..MaxId /\ ring' \in Seq(Ids) /\ Len(ring') <= RingMax /\ RingRuns'
  BY <1>1 DEF FeedInv, TypeOK, RingRuns
<1>3. {c} \in SUBSET Clients /\ \A x \in {c} : state[x] = "streaming"
  OBVIOUS
<1> QED BY <1>1, <1>2, <1>3, DisconnectKeeps

(* A step of the readers that leaves the connections alone.                *)
LEMMA ReadersMove ==
    ASSUME FeedInv, UNCHANGED <<broker, conn>>, lastId' = lastId, got' = got,
           state' \in [Clients -> {"idle", "fetching", "streaming", "waiting", "failed"}],
           aborter' \in [Clients -> BOOLEAN], fails' \in [Clients -> 0..MaxFailures + 1],
           \A c \in Clients : ConnOK(c)'
    PROVE  FeedInv'
<1>1. /\ epoch' = epoch /\ nextId' = nextId /\ ring' = ring /\ subs' = subs /\ queue' = queue
      /\ closed' = closed /\ replay' = replay /\ since' = since
  BY DEF broker, conn
<1>2. TypeOK'
  BY <1>1 DEF FeedInv, TypeOK
<1>3. RingRuns' /\ nextId' \in Nat
  BY <1>1, FeedFacts DEF FeedInv, RingRuns, TypeOK
<1> QED BY <1>1, <1>2, <1>3, StreamsMove

LEMMA FetchFailsKeeps ==
    ASSUME FeedInv, NEW c \in Clients, FetchFails(c)
    PROVE  FeedInv'
<1>1. TypeOK /\ \A x \in Clients : ConnOK(x)
  BY DEF FeedInv
<1>2. /\ state[c] = "fetching"
      /\ fails' = [x \in Clients |-> IF x \in {c} THEN fails[x] + 1 ELSE fails[x]]
      /\ state' = [x \in Clients |-> IF x \notin {c} THEN state[x]
                                     ELSE IF fails'[x] > MaxFailures THEN "failed" ELSE "waiting"]
      /\ aborter' = aborter /\ lastId' = lastId /\ got' = got /\ UNCHANGED <<broker, conn>>
  BY DEF FetchFails, Reconnect
<1>3. fails[c] \in Nat /\ fails[c] <= MaxFailures
  BY <1>1, <1>2, FeedFacts DEF TypeOK, ConnOK
<1>4. fails' \in [Clients -> 0..MaxFailures + 1]
  <2>1. \A x \in Clients : fails'[x] \in 0..MaxFailures + 1
    BY <1>1, <1>2, <1>3, FeedFacts DEF TypeOK
  <2> QED BY <1>2, <2>1
<1>5. state' \in [Clients -> {"idle", "fetching", "streaming", "waiting", "failed"}]
  BY <1>1, <1>2 DEF TypeOK
<1>6. subs' = subs /\ queue' = queue /\ replay' = replay
  BY <1>2 DEF conn
<1>7. ASSUME NEW x \in Clients PROVE ConnOK(x)'
  <2>1. CASE x # c
    <3>1. fails'[x] = fails[x] /\ state'[x] = state[x]
      BY <1>2, <2>1
    <3> QED BY <1>1, <1>2, <1>6, <3>1 DEF ConnOK
  <2>2. CASE x = c
    <3>1. fails'[c] \in Nat /\ state'[c] = IF fails'[c] > MaxFailures THEN "failed" ELSE "waiting"
      BY <1>2, <1>3
    <3> QED BY <1>1, <1>2, <1>6, <2>2, <3>1, FeedFacts DEF ConnOK
  <2> QED BY <2>1, <2>2
<1>8. aborter' \in [Clients -> BOOLEAN]
  BY <1>1, <1>2 DEF TypeOK
<1> QED BY <1>2, <1>4, <1>5, <1>7, <1>8, ReadersMove

LEMMA TimerKeeps ==
    ASSUME FeedInv, NEW c \in Clients, TimerFires(c)
    PROVE  FeedInv'
<1>1. TypeOK /\ \A x \in Clients : ConnOK(x)
  BY DEF FeedInv
<1>2. /\ state[c] = "waiting" /\ state' = [state EXCEPT ![c] = "fetching"]
      /\ aborter' = [aborter EXCEPT ![c] = TRUE]
      /\ fails' = fails /\ lastId' = lastId /\ got' = got /\ UNCHANGED <<broker, conn>>
  BY DEF TimerFires
<1>3. subs' = subs /\ queue' = queue /\ replay' = replay
  BY <1>2 DEF conn
<1>4. /\ state' \in [Clients -> {"idle", "fetching", "streaming", "waiting", "failed"}]
      /\ fails' \in [Clients -> 0..MaxFailures + 1]
  BY <1>1, <1>2 DEF TypeOK
<1>5. aborter' \in [Clients -> BOOLEAN]
  BY <1>1, <1>2, Zenon DEF TypeOK
<1>6. ASSUME NEW x \in Clients PROVE ConnOK(x)'
  <2>1. CASE x # c
    <3>1. aborter'[x] = aborter[x] /\ state'[x] = state[x]
      BY <1>1, <1>2, <2>1 DEF TypeOK
    <3> QED BY <1>1, <1>2, <1>3, <3>1 DEF ConnOK
  <2>2. CASE x = c
    <3>1. aborter'[c] = TRUE /\ state'[c] = "fetching"
      BY <1>1, <1>2 DEF TypeOK
    <3> QED BY <1>1, <1>2, <1>3, <2>2, <3>1 DEF ConnOK
  <2> QED BY <2>1, <2>2
<1> QED BY <1>2, <1>4, <1>5, <1>6, ReadersMove

LEMMA OpenKeeps ==
    ASSUME FeedInv, NEW c \in Clients, Open(c)
    PROVE  FeedInv'
<1>1. TypeOK /\ \A x \in Clients : ConnOK(x)
  BY DEF FeedInv
<1>2. /\ fails' = [fails EXCEPT ![c] = 0]
      /\ lastId' = lastId /\ got' = got /\ UNCHANGED <<broker, conn>>
  BY DEF Open
<1>3. subs' = subs /\ queue' = queue /\ replay' = replay
  BY <1>2 DEF conn
<1>4. fails' \in [Clients -> 0..MaxFailures + 1]
  BY <1>1, <1>2, FeedFacts DEF TypeOK
<1>5. fails'[c] = 0 /\ \A x \in Clients : x # c => fails'[x] = fails[x]
  BY <1>1, <1>2 DEF TypeOK
<1>6. CASE aborter[c] \/ state[c] = "waiting"
  <2>1. state' = state /\ aborter' = aborter
    BY <1>6 DEF Open
  <2>2. /\ state' \in [Clients -> {"idle", "fetching", "streaming", "waiting", "failed"}]
        /\ aborter' \in [Clients -> BOOLEAN]
    BY <1>1, <2>1 DEF TypeOK
  <2>3. \A x \in Clients : ConnOK(x)'
    BY <1>1, <1>3, <1>5, <2>1, FeedFacts DEF ConnOK
  <2> QED BY <1>2, <1>4, <2>2, <2>3, ReadersMove
<1>7. CASE ~(aborter[c] \/ state[c] = "waiting")
  <2>1. state' = [state EXCEPT ![c] = "fetching"] /\ aborter' = [aborter EXCEPT ![c] = TRUE]
    BY <1>7 DEF Open
  <2>2. state' \in [Clients -> {"idle", "fetching", "streaming", "waiting", "failed"}]
    BY <1>1, <2>1 DEF TypeOK
  <2>3. aborter' \in [Clients -> BOOLEAN]
    BY <1>1, <2>1, Zenon DEF TypeOK
  <2>4. ASSUME NEW x \in Clients PROVE ConnOK(x)'
    <3>1. CASE x # c
      <4>1. aborter'[x] = aborter[x] /\ state'[x] = state[x]
        BY <1>1, <2>1, <3>1 DEF TypeOK
      <4> QED BY <1>1, <1>3, <1>5, <3>1, <4>1 DEF ConnOK
    <3>2. CASE x = c
      <4>1. aborter'[c] = TRUE /\ state'[c] = "fetching"
        BY <1>1, <2>1 DEF TypeOK
      <4>2. state[c] # "streaming"
        BY <1>1, <1>7 DEF ConnOK
      <4> QED BY <1>1, <1>3, <1>5, <3>2, <4>1, <4>2, FeedFacts DEF ConnOK
    <3> QED BY <3>1, <3>2
  <2> QED BY <1>2, <1>4, <2>2, <2>3, <2>4, ReadersMove
<1> QED BY <1>6, <1>7

LEMMA CloseKeeps ==
    ASSUME FeedInv, NEW c \in Clients, Close(c)
    PROVE  FeedInv'
<1>1. TypeOK /\ \A x \in Clients : ConnOK(x)
  BY DEF FeedInv
<1>2. /\ state' = [state EXCEPT ![c] = "idle"] /\ aborter' = [aborter EXCEPT ![c] = FALSE]
      /\ epoch' = epoch /\ nextId' = nextId /\ ring' = ring /\ fails' = fails /\ lastId' = lastId /\ got' = got
      /\ subs' = subs \ {c}
      /\ queue' = [x \in Clients |-> IF x \in {c} THEN <<>> ELSE queue[x]]
      /\ replay' = [x \in Clients |-> IF x \in {c} THEN <<>> ELSE replay[x]]
      /\ closed' = closed /\ since' = since
  BY DEF Close, Disconnect, broker
<1>3. TypeOK'
  <2>1. queue' \in [Clients -> Seq(Ids \cup {Overrun})] /\ replay' \in [Clients -> Seq(Ids)]
    BY <1>1, <1>2 DEF TypeOK
  <2>2. \A x \in Clients : Len(queue'[x]) <= QueueMax
    BY <1>1, <1>2, FeedFacts DEF TypeOK
  <2>3. state' \in [Clients -> {"idle", "fetching", "streaming", "waiting", "failed"}]
    BY <1>1, <1>2 DEF TypeOK
  <2>4. aborter' \in [Clients -> BOOLEAN] /\ subs' \in SUBSET Clients
    BY <1>1, <1>2, Zenon DEF TypeOK
  <2> QED BY <1>1, <1>2, <2>1, <2>2, <2>3, <2>4 DEF TypeOK
<1>4. ASSUME NEW x \in Clients PROVE ConnOK(x)'
  <2>1. CASE x # c
    <3>1. aborter'[x] = aborter[x] /\ state'[x] = state[x]
      BY <1>1, <1>2, <2>1 DEF TypeOK
    <3>2. queue'[x] = queue[x] /\ replay'[x] = replay[x] /\ (x \in subs' <=> x \in subs)
      BY <1>2, <2>1
    <3> QED BY <1>1, <1>2, <3>1, <3>2 DEF ConnOK
  <2>2. CASE x = c
    <3>1. state'[c] = "idle" /\ queue'[c] = <<>> /\ replay'[c] = <<>> /\ c \notin subs'
      BY <1>1, <1>2 DEF TypeOK
    <3> QED BY <2>2, <3>1 DEF ConnOK
  <2> QED BY <2>1, <2>2
<1>5. RingRuns' /\ nextId' \in Nat
  BY <1>2, FeedFacts DEF FeedInv, RingRuns, TypeOK
<1> QED BY <1>2, <1>3, <1>4, <1>5, StreamsMove

LEMMA AppendIs ==
    ASSUME NEW T, NEW w \in Seq(T), NEW x \in T, NEW z, z = Append(w, x)
    PROVE  /\ z \in Seq(T) /\ Len(z) = Len(w) + 1 /\ Len(w) \in Nat /\ Len(w) + 1 \in 1..Len(z)
           /\ z[Len(w) + 1] = x
           /\ \A i \in 1..Len(w) : z[i] = w[i] /\ i \in 1..Len(z)
           /\ \A i \in 1..Len(z) : i = Len(w) + 1 \/ i \in 1..Len(w)
<1>1. z \in Seq(T) /\ Len(z) = Len(w) + 1 /\ Len(w) \in Nat /\ z[Len(w) + 1] = x
  OBVIOUS
<1>2. \A i \in 1..Len(w) : z[i] = w[i]
  OBVIOUS
<1>3. \A i \in 1..Len(w) : i \in 1..Len(z)
  BY <1>1
<1>4. \A i \in 1..Len(z) : i = Len(w) + 1 \/ i \in 1..Len(w)
  BY <1>1
<1>5. Len(w) + 1 \in 1..Len(z)
  BY <1>1
<1> QED BY <1>1, <1>2, <1>3, <1>4, <1>5

(* A new event at the end of what a subscriber is still to be sent.        *)
LEMMA NewEventLast ==
    ASSUME NEW T, NEW w \in Seq(T), NEW n \in Nat, n + 1 \in T, Overrun \notin Nat, NEW over,
           InOrder(w, over), \A i \in 1..Len(w) : w[i] \in Nat /\ w[i] <= n, NEW z, z = Append(w, n + 1)
    PROVE  InOrder(z, over) /\ \A i \in 1..Len(z) : z[i] \in Nat /\ z[i] <= n + 1
<1>1. PICK x : x = n + 1
  OBVIOUS
<1>2. x \in T /\ z = Append(w, x) /\ x \in Nat /\ n < x /\ x # Overrun
  BY <1>1
<1>3. /\ Len(w) \in Nat /\ Len(z) = Len(w) + 1 /\ z[Len(w) + 1] = x
      /\ \A i \in 1..Len(w) : z[i] = w[i]
      /\ \A i \in 1..Len(z) : i = Len(w) + 1 \/ i \in 1..Len(w)
  BY <1>2, AppendIs
<1>4. \A i \in 1..Len(w) : z[i] \in Nat /\ z[i] <= n /\ z[i] < x
  BY <1>2, <1>3
<1>5. \A i \in 1..Len(z) : z[i] \in Nat /\ z[i] <= x
  BY <1>2, <1>3, <1>4
<1>6. ASSUME NEW i \in 1..Len(z), NEW j \in 1..Len(z), i < j PROVE z[i] < z[j]
  <2>1. i \in 1..Len(w)
    BY <1>3, <1>6
  <2>2. CASE j = Len(w) + 1
    BY <1>3, <1>4, <2>1, <2>2
  <2>3. CASE j \in 1..Len(w)
    <3>1. w[i] < w[j]
      BY <1>6, <2>1, <2>3 DEF InOrder
    <3> QED BY <1>3, <2>1, <2>3, <3>1
  <2> QED BY <1>3, <2>2, <2>3
<1> QED BY <1>1, <1>5, <1>6 DEF InOrder

LEMMA OverrunEnds ==
    ASSUME NEW T, NEW v \in Seq(T), Overrun \in T, Overrun \notin Nat, \A i \in 1..Len(v) : v[i] \in Nat,
           \A i, j \in 1..Len(v) : i < j => v[i] < v[j], NEW z, z = Append(v, Overrun)
    PROVE  InOrder(z, TRUE)
<1>1. /\ Len(v) \in Nat /\ Len(z) = Len(v) + 1 /\ z[Len(v) + 1] = Overrun
      /\ \A i \in 1..Len(v) : z[i] = v[i]
      /\ \A i \in 1..Len(z) : i = Len(v) + 1 \/ i \in 1..Len(v)
  BY AppendIs
<1>2. ASSUME NEW i \in 1..Len(z), NEW j \in 1..Len(z), i < j
      PROVE  z[i] # Overrun /\ (z[j] # Overrun => z[i] < z[j])
  <2>1. i \in 1..Len(v)
    BY <1>1, <1>2
  <2>2. z[i] = v[i] /\ v[i] \in Nat
    BY <1>1, <2>1
  <2>3. CASE j = Len(v) + 1
    BY <1>1, <2>2, <2>3
  <2>4. CASE j \in 1..Len(v)
    BY <1>1, <1>2, <2>1, <2>2, <2>4
  <2> QED BY <1>1, <2>2, <2>3, <2>4
<1> QED BY <1>2 DEF InOrder

(* The queue of a reader that is evicted.                                  *)
LEMMA OverrunLast ==
    ASSUME NEW T, NEW u \in Seq(T), NEW q \in Seq(T), q # <<>>, Overrun \in T, Overrun \notin Nat,
           NEW w, w = u \o q, InOrder(w, FALSE), \A i \in 1..Len(w) : w[i] \in Nat,
           NEW z, z = u \o Append(Tail(q), Overrun)
    PROVE  InOrder(z, TRUE)
<1>1. PICK t : t = Tail(q)
  OBVIOUS
<1>2. /\ t \in Seq(T) /\ Len(t) = Len(q) - 1 /\ Len(t) \in Nat
      /\ \A i \in 1..Len(t) : t[i] = q[i + 1] /\ i + 1 \in 1..Len(q)
  BY <1>1, TailIs
<1>3. PICK v : v = u \o t
  OBVIOUS
<1>4. v \in Seq(T) /\ Len(v) = Len(u) + Len(t) /\ Len(u) \in Nat /\ Len(q) \in Nat /\ Len(w) = Len(u) + Len(q)
  <2>1. t \in Seq(T)
    BY <1>2
  <2>2. v \in Seq(T) /\ Len(v) = Len(u) + Len(t)
    BY <1>3, <2>1
  <2>3. Len(w) = Len(u) + Len(q) /\ Len(u) \in Nat /\ Len(q) \in Nat
    OBVIOUS
  <2> QED BY <2>2, <2>3
<1>5. z = Append(v, Overrun)
  <2>1. t \in Seq(T)
    BY <1>2
  <2>2. u \o Append(t, Overrun) = Append(u \o t, Overrun)
    BY <2>1
  <2> QED BY <1>1, <1>3, <2>2
<1>6. \A i \in 1..Len(v) : v[i] = w[IF i <= Len(u) THEN i ELSE i + 1]
  <2> TAKE i \in 1..Len(v)
  <2>1. CASE i <= Len(u)
    BY <1>2, <1>3, <1>4, <2>1
  <2>2. CASE ~(i <= Len(u))
    <3>1. i - Len(u) \in 1..Len(t) /\ i + 1 \in 1..Len(w) /\ i + 1 - Len(u) = (i - Len(u)) + 1 /\ ~(i + 1 <= Len(u))
      BY <1>2, <1>4, <2>2
    <3>2. v[i] = t[i - Len(u)]
      BY <1>2, <1>3, <1>4, <2>2
    <3>3. w[i + 1] = q[i + 1 - Len(u)]
      BY <1>4, <3>1
    <3>4. t[i - Len(u)] = q[(i - Len(u)) + 1]
      BY <1>2, <3>1
    <3> QED BY <2>2, <3>1, <3>2, <3>3, <3>4
  <2> QED BY <2>1, <2>2
<1>7. \A i \in 1..Len(v) : (IF i <= Len(u) THEN i ELSE i + 1) \in 1..Len(w)
  BY <1>2, <1>4
<1>8. \A i \in 1..Len(v) : v[i] \in Nat
  BY <1>6, <1>7
<1>9. ASSUME NEW i \in 1..Len(v), NEW j \in 1..Len(v), i < j PROVE v[i] < v[j]
  <2>1. PICK a, b : a = (IF i <= Len(u) THEN i ELSE i + 1) /\ b = (IF j <= Len(u) THEN j ELSE j + 1)
    OBVIOUS
  <2>2. a \in 1..Len(w) /\ b \in 1..Len(w) /\ v[i] = w[a] /\ v[j] = w[b]
    BY <1>6, <1>7, <2>1
  <2>3. a < b
    BY <1>4, <1>9, <2>1
  <2> QED BY <2>2, <2>3 DEF InOrder
<1>10. v \in Seq(T)
  BY <1>4
<1> QED BY <1>5, <1>8, <1>9, <1>10, OverrunEnds

LEMMA PublishKeeps ==
    ASSUME FeedInv, Publish
    PROVE  FeedInv'
<1>1. TypeOK /\ nextId \in Nat /\ nextId < MaxId /\ nextId' = nextId + 1 /\ nextId + 1 \in Ids
  BY FeedFacts DEF FeedInv, TypeOK, Publish, Ids
<1>2. PICK n, T : n = nextId + 1 /\ T = Ids \cup {Overrun}
  OBVIOUS
<1>3. n \in Ids /\ n \in T /\ n \in Nat /\ Overrun \in T /\ nextId' = n
  BY <1>1, <1>2
<1>4. /\ epoch' = epoch /\ replay' = replay /\ since' = since /\ state' = state /\ aborter' = aborter
      /\ fails' = fails /\ lastId' = lastId /\ got' = got /\ subs' = subs \ Slow
  BY DEF Publish, reader
<1>5. ring' \in Seq(Ids) /\ Len(ring') <= RingMax /\ RingRuns'
  <2>1. ring \in Seq(Ids) /\ Len(ring) \in Nat /\ Len(ring) <= RingMax /\ RingRuns
    BY <1>1 DEF FeedInv, TypeOK
  <2>2. CASE Len(ring) = RingMax
    <3>1. ring # <<>>
      BY <2>2, FeedFacts
    <3>2. PICK t : t = Tail(ring)
      OBVIOUS
    <3>3. /\ t \in Seq(Ids) /\ Len(t) = Len(ring) - 1 /\ Len(t) \in Nat
          /\ \A i \in 1..Len(t) : t[i] = ring[i + 1] /\ i + 1 \in 1..Len(ring)
      BY <2>1, <3>1, <3>2, TailIs
    <3>4. ring' = Append(t, n)
      BY <1>2, <2>2, <3>2 DEF Publish
    <3>5. /\ ring' \in Seq(Ids) /\ Len(ring') = Len(t) + 1 /\ ring'[Len(t) + 1] = n
          /\ \A i \in 1..Len(t) : ring'[i] = t[i]
          /\ \A i \in 1..Len(ring') : i = Len(t) + 1 \/ i \in 1..Len(t)
      BY <1>3, <3>3, <3>4, AppendIs
    <3>6. PICK l : l = Len(ring)
      OBVIOUS
    <3>7. Len(ring') = l /\ Len(t) = l - 1 /\ l \in Nat /\ l <= nextId /\ l >= 1
      BY <2>1, <2>2, <3>3, <3>5, <3>6, FeedFacts DEF RingRuns
    <3>8. ASSUME NEW i \in 1..l PROVE ring'[i] = n - l + i
      <4>1. CASE i = l
        BY <1>3, <3>5, <3>7, <4>1
      <4>2. CASE i # l
        <5>1. i \in 1..Len(t)
          BY <3>7, <4>2
        <5>2. ring'[i] = ring[i + 1] /\ i + 1 \in 1..l
          BY <3>3, <3>5, <3>6, <5>1
        <5>3. ring[i + 1] = nextId - l + (i + 1)
          BY <2>1, <3>6, <5>2 DEF RingRuns
        <5> QED BY <1>1, <1>2, <3>7, <5>2, <5>3
      <4> QED BY <4>1, <4>2
    <3> QED BY <1>1, <1>2, <1>3, <2>1, <3>5, <3>6, <3>7, <3>8 DEF RingRuns
  <2>3. CASE Len(ring) # RingMax
    <3>4. ring' = Append(ring, n)
      BY <1>2, <2>3 DEF Publish
    <3>5. /\ ring' \in Seq(Ids) /\ Len(ring') = Len(ring) + 1 /\ ring'[Len(ring) + 1] = n
          /\ \A i \in 1..Len(ring) : ring'[i] = ring[i]
          /\ \A i \in 1..Len(ring') : i = Len(ring) + 1 \/ i \in 1..Len(ring)
      BY <1>3, <2>1, <3>4, AppendIs
    <3>6. PICK l : l = Len(ring)
      OBVIOUS
    <3>7. Len(ring') = l + 1 /\ l \in Nat /\ l <= nextId /\ l + 1 <= n /\ l + 1 <= RingMax
      BY <1>1, <1>2, <2>1, <2>3, <3>5, <3>6, FeedFacts DEF RingRuns
    <3>8. ASSUME NEW i \in 1..l + 1 PROVE ring'[i] = n - (l + 1) + i
      <4>1. CASE i = l + 1
        BY <1>3, <3>5, <3>6, <3>7, <4>1
      <4>2. CASE i # l + 1
        <5>1. i \in 1..l
          BY <3>7, <4>2
        <5>2. ring'[i] = ring[i]
          BY <3>5, <3>6, <5>1
        <5>3. ring[i] = nextId - l + i
          BY <2>1, <3>6, <5>1 DEF RingRuns
        <5> QED BY <1>1, <1>2, <3>7, <5>2, <5>3
      <4> QED BY <4>1, <4>2
    <3> QED BY <1>3, <2>1, <3>5, <3>7, <3>8 DEF RingRuns
  <2> QED BY <2>2, <2>3
<1>6. ASSUME NEW c \in Clients
      PROVE  /\ queue'[c] \in Seq(Ids \cup {Overrun}) /\ Len(queue'[c]) <= QueueMax /\ closed'[c] \in BOOLEAN
             /\ ConnOK(c)' /\ PendingOK(c)'
  <2>1. PICK q, u : q = queue[c] /\ u = replay[c]
    OBVIOUS
  <2>2. /\ q \in Seq(T) /\ u \in Seq(T) /\ u \o q \in Seq(T) /\ Len(q) \in Nat /\ Len(q) <= QueueMax
        /\ Pending(c) = u \o q /\ ConnOK(c) /\ PendingOK(c) /\ since[c] \in Nat
    BY <1>2, <2>1, FeedReader DEF Pending
  <2>3. /\ queue'[c] = (IF c \notin subs THEN q ELSE IF Full(c) THEN Evicted(q) ELSE Append(q, n))
        /\ closed'[c] = (closed[c] \/ c \in Slow)
    BY <1>2, <2>1 DEF Publish
  <2>4. replay'[c] = u /\ since'[c] = since[c] /\ got'[c] = got[c] /\ state'[c] = state[c] /\ aborter'[c] = aborter[c] /\ fails'[c] = fails[c]
    BY <1>4, <2>1
  <2>5. closed'[c] \in BOOLEAN
    BY <2>3
  <2>6. CASE c \notin subs
    <3>1. queue'[c] = q /\ c \notin subs' /\ (closed[c] => closed'[c])
      BY <1>4, <2>3, <2>6
    <3>2. ConnOK(c)'
      BY <2>1, <2>2, <2>4, <3>1 DEF ConnOK
    <3>3. Pending(c)' = Pending(c)
      BY <2>2, <2>4, <3>1 DEF Pending
    <3>4. InOrder(Pending(c), closed'[c])
      BY <2>2, <3>1 DEF PendingOK, InOrder
    <3>5. InOrder(Pending(c), closed[c])'
      BY <3>3, <3>4 DEF InOrder
    <3> QED BY <1>2, <2>2, <2>5, <3>1, <3>2, <3>5 DEF PendingOK
  <2>7. CASE c \in subs /\ ~Full(c)
    <3>1. queue'[c] = Append(q, n) /\ Len(q) + 1 <= QueueMax
      BY <2>1, <2>2, <2>3, <2>7, FeedFacts DEF Full
    <3>2. c \notin Slow
      BY <2>7 DEF Slow
    <3>3. closed'[c] = closed[c] \/ (closed'[c] <=> closed[c])
      BY <2>3, <3>2
    <3>4. queue'[c] \in Seq(T) /\ Len(queue'[c]) = Len(q) + 1
      BY <1>3, <2>2, <3>1
    <3>5. ConnOK(c)'
      BY <1>4, <2>2, <2>4, <2>7 DEF ConnOK
    <3>6. PICK w : w = u \o q
      OBVIOUS
    <3>7. Pending(c)' = Append(w, n)
      <4>1. u \o Append(q, n) = Append(u \o q, n)
        BY <1>3, <2>2
      <4> QED BY <2>4, <3>1, <3>6, <4>1 DEF Pending
    <3>8. /\ w \in Seq(T) /\ InOrder(w, closed[c]) /\ UpToNow(w) /\ Complete(c, w)
      BY <2>2, <2>7, <3>6 DEF PendingOK
    <3>9. \A i \in 1..Len(w) : w[i] \in Nat /\ w[i] <= nextId
      BY <3>8 DEF UpToNow
    <3>10. PICK z : z = Append(w, n)
      OBVIOUS
    <3>11. InOrder(z, closed[c]) /\ \A i \in 1..Len(z) : z[i] \in Nat /\ z[i] <= nextId + 1
      <4>1. z = Append(w, nextId + 1) /\ nextId + 1 \in T
        BY <1>2, <1>3, <3>10
      <4> QED BY <1>1, <3>8, <3>9, <4>1, FeedFacts, NewEventLast
    <3>12. InOrder(z, closed'[c])
      BY <3>3, <3>11 DEF InOrder
    <3>13. /\ Len(w) \in Nat /\ Len(w) + 1 \in 1..Len(z) /\ z[Len(w) + 1] = n
           /\ \A i \in 1..Len(w) : z[i] = w[i] /\ i \in 1..Len(z)
      BY <1>3, <3>8, <3>10, AppendIs
    <3>14. ASSUME NEW i \in Nat, since[c] <= i, i <= n
           PROVE  <<epoch, i>> \in got[c] \/ \E k \in 1..Len(z) : z[k] = i
      <4>1. CASE i = n
        BY <3>13, <4>1
      <4>2. CASE i # n
        <5>1. i <= nextId
          BY <1>1, <1>2, <3>14, <4>2
        <5> QED BY <3>8, <3>13, <3>14, <5>1 DEF Complete
      <4> QED BY <4>1, <4>2
    <3>15. UpToNow(z)' /\ Complete(c, z)' /\ InOrder(z, closed[c])'
      <4>1. UpToNow(z)'
        BY <1>1, <3>11 DEF UpToNow
      <4>2. Complete(c, z)'
        BY <1>3, <1>4, <2>4, <3>14 DEF Complete
      <4>3. InOrder(z, closed[c])'
        BY <3>12 DEF InOrder
      <4> QED BY <4>1, <4>2, <4>3
    <3>16. Pending(c)' = z
      BY <3>7, <3>10
    <3>17. PendingOK(c)'
      BY <3>15, <3>16 DEF PendingOK, UpToNow, Complete, InOrder
    <3> QED BY <1>2, <2>5, <3>1, <3>4, <3>5, <3>17
  <2>8. CASE c \in subs /\ Full(c)
    <3>1. c \in Slow /\ queue'[c] = Append(Tail(q), Overrun) /\ closed'[c] /\ c \notin subs'
      BY <1>4, <2>3, <2>8 DEF Slow, Evicted
    <3>2. q # <<>>
      BY <2>1, <2>2, <2>8, FeedFacts DEF Full
    <3>3. Tail(q) \in Seq(T) /\ Len(Tail(q)) = Len(q) - 1
      BY <2>2, <3>2
    <3>4. queue'[c] \in Seq(T) /\ Len(queue'[c]) <= QueueMax
      <4>1. PICK t : t = Tail(q)
        OBVIOUS
      <4>2. Append(t, Overrun) \in Seq(T) /\ Len(Append(t, Overrun)) = Len(t) + 1
        BY <1>3, <3>3, <4>1
      <4>3. Len(t) + 1 = Len(q)
        BY <2>2, <3>3, <4>1
      <4> QED BY <2>2, <3>1, <4>1, <4>2, <4>3
    <3>5. ConnOK(c)'
      BY <1>4, <2>2, <2>4, <2>8 DEF ConnOK
    <3>6. PICK w, z : w = u \o q /\ z = u \o Append(Tail(q), Overrun)
      OBVIOUS
    <3>7. InOrder(w, closed[c]) /\ UpToNow(w)
      BY <2>2, <2>8, <3>6 DEF PendingOK
    <3>8. \A i \in 1..Len(w) : w[i] \in Nat
      BY <3>7 DEF UpToNow
    <3>9. InOrder(w, FALSE)
      BY <3>7, <3>8, FeedFacts DEF InOrder
    <3>10. InOrder(z, TRUE)
      BY <1>3, <2>2, <3>2, <3>6, <3>8, <3>9, FeedFacts, OverrunLast
    <3>11. Pending(c)' = z
      BY <2>4, <3>1, <3>6 DEF Pending
    <3>12. InOrder(Pending(c), closed[c])'
      BY <3>1, <3>10, <3>11 DEF InOrder
    <3> QED BY <1>2, <2>5, <3>1, <3>4, <3>5, <3>12 DEF PendingOK
  <2> QED BY <2>6, <2>7, <2>8
<1>7. TypeOK'
  <2>1. queue' \in [Clients -> Seq(Ids \cup {Overrun})]
    <3>1. queue' = [c \in Clients |-> queue'[c]]
      BY DEF Publish
    <3> QED BY <1>6, <3>1
  <2>2. closed' \in [Clients -> BOOLEAN]
    <3>1. closed' = [c \in Clients |-> closed'[c]]
      BY DEF Publish
    <3> QED BY <1>6, <3>1, Zenon
  <2>3. nextId' \in 0..MaxId /\ subs' \in SUBSET Clients
    BY <1>1, <1>4, FeedFacts DEF TypeOK
  <2>4. \A c \in Clients : Len(queue'[c]) <= QueueMax
    BY <1>6
  <2> QED BY <1>1, <1>4, <1>5, <2>1, <2>2, <2>3, <2>4 DEF TypeOK
<1> QED BY <1>5, <1>6, <1>7 DEF FeedInv

LEMMA FeedNext ==
    ASSUME FeedInv, [Next]_vars
    PROVE  FeedInv'
<1>1. CASE UNCHANGED vars
  <2>1. TypeOK' /\ RingRuns'
    BY <1>1 DEF FeedInv, TypeOK, RingRuns, vars, broker, conn, reader
  <2>2. ASSUME NEW c \in Clients PROVE ConnOK(c)' /\ PendingOK(c)'
    <3>1. /\ queue'[c] = queue[c] /\ replay'[c] = replay[c] /\ closed'[c] = closed[c] /\ subs' = subs /\ since'[c] = since[c]
          /\ nextId' = nextId /\ epoch' = epoch /\ got'[c] = got[c] /\ state'[c] = state[c] /\ aborter'[c] = aborter[c]
          /\ fails'[c] = fails[c]
      BY <1>1 DEF vars, broker, conn, reader
    <3>2. ConnOK(c)'
      BY <3>1 DEF FeedInv, ConnOK
    <3> QED BY <3>1, <3>2, ReaderStays
  <2> QED BY <2>1, <2>2 DEF FeedInv
<1>2. CASE Publish
  BY <1>2, PublishKeeps
<1>3. CASE HarnessRestarts
  BY <1>3, RestartKeeps
<1>4. ASSUME NEW c \in Clients,
             Connect(c) \/ Deliver(c) \/ StreamEnds(c) \/ ConnectionLost(c)
             \/ FetchFails(c) \/ TimerFires(c) \/ Open(c) \/ Close(c)
      PROVE  FeedInv'
  <2>1. CASE StreamEnds(c) \/ ConnectionLost(c)
    BY <2>1, StreamEndsKeeps DEF StreamEnds, ConnectionLost
  <2>2. CASE Connect(c) \/ Deliver(c)
    BY <2>2, ConnectKeeps, FrameKeeps
  <2>3. CASE FetchFails(c) \/ TimerFires(c)
    BY <2>3, FetchFailsKeeps, TimerKeeps
  <2>4. CASE Open(c) \/ Close(c)
    BY <2>4, OpenKeeps, CloseKeeps
  <2> QED BY <1>4, <2>1, <2>2, <2>3, <2>4
<1> QED BY <1>1, <1>2, <1>3, <1>4 DEF Next

LEMMA FeedIs == FeedInv => PendingOrdered /\ ConnectedLosesNothing
<1> SUFFICES ASSUME FeedInv PROVE PendingOrdered /\ ConnectedLosesNothing
  OBVIOUS
<1>1. ASSUME NEW c \in Clients
      PROVE  /\ \A x : x \in Range(Pending(c)) <=> \E i \in 1..Len(Pending(c)) : Pending(c)[i] = x
             /\ Len(Pending(c)) \in Nat
  <2>1. PICK w, T : w = Pending(c) /\ T = Ids \cup {Overrun}
    OBVIOUS
  <2>2. w \in Seq(T)
    BY <2>1, FeedReader
  <2>3. DOMAIN w = 1..Len(w) /\ Len(w) \in Nat
    BY <2>2
  <2> QED BY <2>1, <2>3 DEF Range
<1>2. PendingOrdered
  <2>1. ASSUME NEW c \in Clients PROVE InOrder(Pending(c), closed[c])
    BY FeedReader DEF PendingOK
  <2> QED BY <1>1, <2>1 DEF PendingOrdered, InOrder
<1>3. ConnectedLosesNothing
  <2>1. SUFFICES ASSUME NEW c \in subs, NEW i \in since[c]..nextId
                 PROVE  <<epoch, i>> \in got[c] \/ i \in Range(Pending(c))
    BY DEF ConnectedLosesNothing
  <2>2. c \in Clients
    BY DEF FeedInv, TypeOK
  <2>3. since[c] \in Nat /\ nextId \in Nat /\ Complete(c, Pending(c))
    BY <2>2, FeedReader DEF PendingOK
  <2>4. i \in Nat /\ since[c] <= i /\ i <= nextId
    BY <2>3
  <2> QED BY <1>1, <2>2, <2>3, <2>4 DEF Complete
<1> QED BY <1>2, <1>3

-----------------------------------------------------------------------------
(* The session stream.                                                     *)

LEMMA SessionCount == \A T : S!Cardinality(T) = Cardinality(T)
BY Zenon DEF S!Cardinality, Cardinality

LEMMA SessionFinite == \A T : S!IsFiniteSet(T) <=> IsFiniteSet(T)
BY Zenon DEF S!IsFiniteSet, IsFiniteSet

LEMMA SessionFacts ==
    /\ RegistryMax \in Nat \ {0} /\ SQueueMax \in Nat \ {0} /\ SRingMax \in Nat \ {0}
    /\ PerCaller \in Nat /\ MaxStreams \in Nat /\ IsFiniteSet(Readers)
BY ChannelsAssumption, SessionFinite DEF S!SessionAssumption

FrameItems == [kind : {"chunk", "overrun", "sentinel"}, id : Nat]

(* The broadcasters: numbered from 1, rings that ascend up to the last id. *)
RingOK(q, top) == Ascending(q) /\ \A k \in 1..Len(q) : q[k] <= top
BroadcastsOK ==
    /\ IsFiniteSet(S!Created) /\ S!Created = 1..Cardinality(S!Created)
    /\ registry \in Seq(S!Created)
    /\ snext \in [S!Created -> Nat] /\ sring \in [S!Created -> Seq(Nat)]
    /\ attached \in [S!Created -> SUBSET Readers]
    /\ publisher \in [StreamSessions -> S!Created \cup {0}]
    /\ \A i \in S!Created : RingOK(sring[i], snext[i])

OpenStreams == {r \in Readers : rpc[r] # "off"}
ConnTypes ==
    /\ rpc \in [Readers -> {"off", "opened", "live", "sending", "kept"}]
    /\ on \in [Readers -> Nat] /\ box \in [Readers -> Seq(FrameItems)]
    /\ backlog \in [Readers -> Seq(Nat)] /\ resumeAt \in [Readers -> Nat]
    /\ written \in [Readers -> FrameItems]
    /\ slots = Cardinality(OpenStreams)

(* The queue of a reader that was last sent id w: it ascends from there,   *)
(* and while the reader is attached it stays within the ids given out.     *)
Framed(q, w) ==
    \A n \in 1..Len(q) : q[n] # S!Sentinel =>
        /\ w < q[n].id
        /\ \A m \in 1..n - 1 : q[m] # S!Sentinel => q[m].id < q[n].id
Within(q, top) == \A n \in 1..Len(q) : q[n] # S!Sentinel /\ q[n].id <= top
Replayed(q, w, top) == Ascending(q) /\ \A n \in 1..Len(q) : w < q[n] /\ q[n] <= top

ConnKept(r) ==
    /\ rpc[r] # "off" => on[r] \in S!Created
    /\ rpc[r] # "opened" => backlog[r] = <<>>
    /\ rpc[r] \in {"off", "opened", "kept"} => box[r] = <<>>
    /\ rpc[r] = "off" => written[r] = S!Sentinel
    /\ \A i \in S!Created : r \in attached[i] => on[r] = i /\ rpc[r] \in {"live", "sending"}
    /\ rpc[r] = "opened" => /\ written[r].id <= snext[on[r]]
                            /\ Replayed(backlog[r], written[r].id, snext[on[r]])
    /\ Framed(box[r], written[r].id)
    /\ \A i \in S!Created : r \in attached[i] =>
          written[r].id <= snext[i] /\ Within(box[r], snext[i])

SessionInv == BroadcastsOK /\ ConnTypes /\ \A r \in Readers : ConnKept(r)

(* Subscribers are numbered from 1 in the order they are visited.          *)
LEMMA RankIs ==
    ASSUME NEW R, IsFiniteSet(R), NEW r \in R
    PROVE  S!Rank(r, R) \in Nat /\ S!Rank(r, R) >= 1
<1>1. PICK k : k = Cardinality(R)
  OBVIOUS
<1>2. k \in Nat /\ ExistsBijection(1..k, R)
  BY <1>1, FS_CardinalityType
<1>3. PICK g : g \in Bijection(1..k, R)
  BY <1>2 DEF ExistsBijection
<1>4. g \in [1..k -> R] /\ S!IsInjective(g)
  BY <1>3 DEF Bijection, Injection, IsInjective, S!IsInjective
<1>5. PICK f : f = S!SetToSeq(R)
  OBVIOUS
<1>6. f = CHOOSE h \in [1..k -> R] : S!IsInjective(h)
  <2>1. S!Cardinality(R) = k
    BY <1>1, SessionCount
  <2> QED BY <1>5, <2>1 DEF S!SetToSeq
<1>7. f \in [1..k -> R] /\ S!IsInjective(f)
  BY <1>4, <1>6
<1>8. f \in Injection(1..k, R)
  BY <1>7 DEF Injection, IsInjective, S!IsInjective
<1>9. IsFiniteSet(1..k) /\ Cardinality(1..k) = k
  BY <1>2, FS_Interval
<1>10. f \in Surjection(1..k, R)
  BY <1>1, <1>8, <1>9, FS_Injection
<1>11. \E n \in 1..k : f[n] = r
  BY <1>10 DEF Surjection
<1>12. S!Rank(r, R) = CHOOSE n \in 1..k : f[n] = r
  <2>1. S!Cardinality(R) = k
    BY <1>1, SessionCount
  <2> QED BY <1>5, <2>1 DEF S!Rank
<1>13. S!Rank(r, R) \in 1..k
  BY <1>11, <1>12
<1> QED BY <1>2, <1>13

LEMMA FrameKinds ==
    /\ S!Sentinel \in FrameItems /\ S!Sentinel.id = 0
    /\ \A n \in Nat : /\ S!Chunk(n) \in FrameItems /\ S!Chunk(n).id = n /\ S!Chunk(n) # S!Sentinel
                      /\ S!OverrunAt(n) \in FrameItems /\ S!OverrunAt(n).id = n /\ S!OverrunAt(n) # S!Sentinel
BY DEF S!Sentinel, S!Chunk, S!OverrunAt, FrameItems

LEMMA FrameId == ASSUME NEW x \in FrameItems PROVE x.id \in Nat
BY DEF FrameItems

(* A frame above all ids given out so far, at the end of a queue.          *)
LEMMA FrameLast ==
    ASSUME NEW q \in Seq(FrameItems), NEW w \in Nat, NEW top \in Nat, w <= top, Framed(q, w), Within(q, top),
           NEW x \in FrameItems, x # S!Sentinel, x.id > top, NEW z, z = Append(q, x)
    PROVE  z \in Seq(FrameItems) /\ Framed(z, w) /\ Within(z, x.id)
<1>1. PICK T, k : T = FrameItems /\ k = x.id
  OBVIOUS
<1>2. q \in Seq(T) /\ x \in T /\ k \in Nat /\ k > top
  BY <1>1, FrameId
<1>3. /\ z \in Seq(T) /\ Len(z) = Len(q) + 1 /\ Len(q) \in Nat /\ z[Len(q) + 1] = x
      /\ \A i \in 1..Len(q) : z[i] = q[i]
      /\ \A i \in 1..Len(z) : i = Len(q) + 1 \/ i \in 1..Len(q)
  BY <1>2, AppendIs
<1>4. \A i \in 1..Len(q) : z[i] # S!Sentinel /\ z[i].id <= top
  BY <1>3 DEF Within
<1>5. \A i \in 1..Len(q) : q[i].id \in Nat
  <2>1. \A i \in 1..Len(q) : q[i] \in T
    BY <1>2
  <2> QED BY <1>1, <2>1, FrameId
<1>6. \A i \in 1..Len(q) : z[i].id \in Nat /\ z[i].id < k
  BY <1>2, <1>3, <1>4, <1>5
<1>7. Within(z, x.id)
  <2>1. ASSUME NEW n \in 1..Len(z) PROVE z[n] # S!Sentinel /\ z[n].id <= k
    <3>1. CASE n = Len(q) + 1
      BY <1>1, <1>2, <1>3, <3>1
    <3>2. CASE n \in 1..Len(q)
      BY <1>2, <1>4, <1>6, <3>2
    <3> QED BY <1>3, <3>1, <3>2
  <2> QED BY <1>1, <2>1 DEF Within
<1>8. Framed(z, w)
  <2>1. SUFFICES ASSUME NEW n \in 1..Len(z), z[n] # S!Sentinel
                 PROVE  w < z[n].id /\ \A m \in 1..n - 1 : z[m] # S!Sentinel => z[m].id < z[n].id
    BY DEF Framed
  <2>2. CASE n = Len(q) + 1
    <3>1. z[n].id = k
      BY <1>1, <1>3, <2>2
    <3>2. \A m \in 1..n - 1 : m \in 1..Len(q)
      BY <1>3, <2>2
    <3> QED BY <1>2, <1>6, <3>1, <3>2
  <2>3. CASE n \in 1..Len(q)
    <3>1. z[n] = q[n] /\ q[n] # S!Sentinel
      BY <1>3, <2>1, <2>3
    <3>2. w < q[n].id /\ \A m \in 1..n - 1 : q[m] # S!Sentinel => q[m].id < q[n].id
      BY <2>3, <3>1 DEF Framed
    <3>3. \A m \in 1..n - 1 : m \in 1..Len(q)
      BY <1>3, <2>3
    <3> QED BY <1>3, <3>1, <3>2, <3>3
  <2> QED BY <1>3, <2>2, <2>3
<1> QED BY <1>1, <1>3, <1>7, <1>8

LEMMA SentinelLast ==
    ASSUME NEW q \in Seq(FrameItems), NEW w \in Nat, Framed(q, w), NEW z, z = S!Put(q, S!Sentinel)
    PROVE  z \in Seq(FrameItems) /\ Framed(z, w)
<1>1. CASE z = q
  BY <1>1
<1>2. CASE z = Append(q, S!Sentinel)
  <2>1. PICK T, x : T = FrameItems /\ x = S!Sentinel
    OBVIOUS
  <2>2. q \in Seq(T) /\ x \in T /\ z = Append(q, x)
    BY <1>2, <2>1, FrameKinds
  <2>3. /\ z \in Seq(T) /\ Len(z) = Len(q) + 1 /\ Len(q) \in Nat /\ z[Len(q) + 1] = x
        /\ \A i \in 1..Len(q) : z[i] = q[i]
        /\ \A i \in 1..Len(z) : i = Len(q) + 1 \/ i \in 1..Len(q)
    BY <2>2, AppendIs
  <2>4. SUFFICES ASSUME NEW n \in 1..Len(z), z[n] # S!Sentinel
                 PROVE  w < z[n].id /\ \A m \in 1..n - 1 : z[m] # S!Sentinel => z[m].id < z[n].id
    BY <2>1, <2>3 DEF Framed
  <2>5. n \in 1..Len(q)
    BY <2>1, <2>3, <2>4
  <2>6. z[n] = q[n] /\ q[n] # S!Sentinel
    BY <2>3, <2>4, <2>5
  <2>7. w < q[n].id /\ \A m \in 1..n - 1 : q[m] # S!Sentinel => q[m].id < q[n].id
    BY <2>5, <2>6 DEF Framed
  <2>8. \A m \in 1..n - 1 : m \in 1..Len(q)
    BY <2>3, <2>5
  <2> QED BY <2>3, <2>6, <2>7, <2>8
<1> QED BY <1>1, <1>2 DEF S!Put

(* What a reader that is evicted finds in its queue.                       *)
LEMMA ToldLast ==
    ASSUME NEW q \in Seq(FrameItems), NEW w \in Nat, NEW top \in Nat, w <= top, Framed(q, w), Within(q, top),
           NEW k \in Nat, k > top, NEW z, z = S!Put(S!Put(q, S!OverrunAt(k)), S!Sentinel)
    PROVE  z \in Seq(FrameItems) /\ Framed(z, w)
<1>1. PICK x, y : x = S!OverrunAt(k) /\ y = S!Put(q, x)
  OBVIOUS
<1>2. x \in FrameItems /\ x # S!Sentinel /\ x.id > top
  BY <1>1, FrameKinds
<1>3. y \in Seq(FrameItems) /\ Framed(y, w)
  <2>1. CASE y = q
    BY <2>1
  <2>2. CASE y = Append(q, x)
    BY <1>2, <2>2, FrameLast
  <2> QED BY <1>1, <2>1, <2>2 DEF S!Put
<1>4. z = S!Put(y, S!Sentinel)
  BY <1>1
<1> QED BY <1>3, <1>4, SentinelLast

(* The queue after its first frame.                                        *)
LEMMA FramedTail ==
    ASSUME NEW q \in Seq(FrameItems), q # <<>>, NEW w \in Nat, Framed(q, w), NEW z, z = Tail(q)
    PROVE  /\ z \in Seq(FrameItems) /\ Framed(z, w) /\ \A top \in Nat : Within(q, top) => Within(z, top)
           /\ Head(q) = q[1] /\ q[1] \in FrameItems
           /\ Framed(z, q[1].id)
<1>1. PICK T : T = FrameItems
  OBVIOUS
<1>2. q \in Seq(T)
  BY <1>1
<1>3. /\ z \in Seq(T) /\ Len(z) = Len(q) - 1 /\ Len(z) \in Nat
      /\ \A i \in 1..Len(z) : z[i] = q[i + 1] /\ i + 1 \in 1..Len(q)
  BY <1>2, TailIs
<1>4. \A top \in Nat : Within(q, top) => Within(z, top)
  BY <1>3 DEF Within
<1>5. Head(q) = q[1] /\ q[1] \in T
  BY <1>2
<1>6. ASSUME NEW n \in 1..Len(z), z[n] # S!Sentinel
      PROVE  /\ w < z[n].id /\ (q[1] # S!Sentinel => q[1].id < z[n].id)
             /\ \A m \in 1..n - 1 : z[m] # S!Sentinel => z[m].id < z[n].id
  <2>1. z[n] = q[n + 1] /\ n + 1 \in 1..Len(q) /\ 1 \in 1..(n + 1) - 1
    BY <1>3
  <2>2. w < q[n + 1].id /\ \A m \in 1..(n + 1) - 1 : q[m] # S!Sentinel => q[m].id < q[n + 1].id
    BY <1>6, <2>1 DEF Framed
  <2>3. \A m \in 1..n - 1 : m \in 1..Len(z) /\ m + 1 \in 1..(n + 1) - 1
    BY <1>3
  <2>4. \A m \in 1..n - 1 : z[m] = q[m + 1]
    BY <1>3, <2>3
  <2> QED BY <2>1, <2>2, <2>3, <2>4
<1>7. Framed(z, w)
  BY <1>6 DEF Framed
<1>8. Framed(z, q[1].id)
  <2>1. CASE q[1] # S!Sentinel
    BY <1>6, <2>1 DEF Framed
  <2>2. CASE q[1] = S!Sentinel
    <3>1. q[1].id = 0
      BY <2>2, FrameKinds
    <3>2. ASSUME NEW n \in 1..Len(z), z[n] # S!Sentinel PROVE q[1].id < z[n].id
      <4>1. z[n] \in T
        BY <1>3
      <4>2. z[n].id \in Nat
        BY <1>1, <4>1, FrameId
      <4>3. w < z[n].id
        BY <1>6, <3>2
      <4> QED BY <3>1, <4>2, <4>3
    <3> QED BY <1>6, <3>2 DEF Framed
  <2> QED BY <2>1, <2>2
<1> QED BY <1>1, <1>3, <1>4, <1>5, <1>7, <1>8

LEMMA SessionReader ==
    ASSUME SessionInv, NEW r \in Readers
    PROVE  /\ ConnKept(r) /\ box[r] \in Seq(FrameItems) /\ backlog[r] \in Seq(Nat) /\ written[r] \in FrameItems
           /\ written[r].id \in Nat /\ on[r] \in Nat /\ resumeAt[r] \in Nat
           /\ Framed(box[r], written[r].id) /\ \A n \in 1..Len(box[r]) : box[r][n].id \in Nat
<1>1. /\ ConnKept(r) /\ box[r] \in Seq(FrameItems) /\ backlog[r] \in Seq(Nat) /\ written[r] \in FrameItems
      /\ on[r] \in Nat /\ resumeAt[r] \in Nat
  BY DEF SessionInv, ConnTypes
<1>2. written[r].id \in Nat
  BY <1>1, FrameId
<1>3. PICK T, q : T = FrameItems /\ q = box[r]
  OBVIOUS
<1>4. \A n \in 1..Len(q) : q[n] \in T
  BY <1>1, <1>3
<1>5. \A n \in 1..Len(q) : q[n].id \in Nat
  BY <1>3, <1>4, FrameId
<1>6. Framed(box[r], written[r].id)
  BY <1>1 DEF ConnKept
<1> QED BY <1>1, <1>2, <1>3, <1>5, <1>6

LEMMA SessionStarts == S!SSInit => SessionInv
<1> SUFFICES ASSUME S!SSInit PROVE SessionInv
  OBVIOUS
<1>1. DOMAIN owner = {} /\ Len(<<>>) = 0 /\ \A i : i \notin 1..Len(<<>>)
  BY DEF S!SSInit
<1>2. S!Created = {} /\ IsFiniteSet(S!Created) /\ Cardinality(S!Created) = 0
  BY <1>1, FS_EmptySet DEF S!Created
<1>3. BroadcastsOK
  <2>1. S!Created = 1..Cardinality(S!Created)
    BY <1>2
  <2>2. registry \in Seq(S!Created)
    BY DEF S!SSInit
  <2>3. snext \in [{} -> Nat] /\ sring \in [{} -> Seq(Nat)] /\ attached \in [{} -> SUBSET Readers]
    BY DEF S!SSInit
  <2>4. publisher \in [StreamSessions -> S!Created \cup {0}]
    BY DEF S!SSInit
  <2> QED BY <1>2, <2>1, <2>2, <2>3, <2>4 DEF BroadcastsOK
<1>4. ConnTypes
  <2>1. OpenStreams = {}
    BY DEF S!SSInit, OpenStreams
  <2>2. slots = Cardinality(OpenStreams)
    BY <2>1, FS_EmptySet DEF S!SSInit
  <2>3. written \in [Readers -> FrameItems]
    BY FrameKinds DEF S!SSInit
  <2>4. box \in [Readers -> Seq(FrameItems)] /\ backlog \in [Readers -> Seq(Nat)]
    BY DEF S!SSInit
  <2>5. rpc \in [Readers -> {"off", "opened", "live", "sending", "kept"}] /\ on \in [Readers -> Nat] /\ resumeAt \in [Readers -> Nat]
    BY DEF S!SSInit
  <2> QED BY <2>2, <2>3, <2>4, <2>5 DEF ConnTypes
<1>5. ASSUME NEW r \in Readers PROVE ConnKept(r)
  <2>1. rpc[r] = "off" /\ box[r] = <<>> /\ backlog[r] = <<>> /\ written[r] = S!Sentinel
    BY DEF S!SSInit
  <2>2. Framed(<<>>, written[r].id)
    BY <1>1 DEF Framed
  <2> QED BY <1>2, <2>1, <2>2 DEF ConnKept
<1> QED BY <1>3, <1>4, <1>5 DEF SessionInv

(* A reader whose connection does not move: it may be evicted meanwhile,   *)
(* and its broadcaster may give out more ids.                              *)
LEMMA ConnMoves ==
    ASSUME SessionInv, NEW r \in Readers,
           rpc'[r] = rpc[r], on'[r] = on[r], backlog'[r] = backlog[r], written'[r] = written[r],
           S!Created \subseteq S!Created', snext' \in [S!Created' -> Nat],
           \A j \in S!Created : snext[j] <= snext'[j],
           \A j \in S!Created' : r \in attached'[j] => j \in S!Created /\ r \in attached[j] /\ box'[r] = box[r],
           Framed(box'[r], written[r].id),
           box'[r] = box[r] \/ \E j \in S!Created : r \in attached[j]
    PROVE  ConnKept(r)'
<1>1. /\ ConnKept(r) /\ backlog[r] \in Seq(Nat) /\ written[r].id \in Nat
      /\ \A n \in 1..Len(box[r]) : box[r][n].id \in Nat
  BY SessionReader
<1>2. /\ rpc[r] # "off" => on[r] \in S!Created
      /\ rpc[r] # "opened" => backlog[r] = <<>>
      /\ rpc[r] \in {"off", "opened", "kept"} => box[r] = <<>>
      /\ rpc[r] = "off" => written[r] = S!Sentinel
      /\ \A i \in S!Created : r \in attached[i] => on[r] = i /\ rpc[r] \in {"live", "sending"}
      /\ rpc[r] = "opened" => written[r].id <= snext[on[r]] /\ Replayed(backlog[r], written[r].id, snext[on[r]])
      /\ \A i \in S!Created : r \in attached[i] => written[r].id <= snext[i] /\ Within(box[r], snext[i])
  BY <1>1 DEF ConnKept
<1>3. rpc[r] \in {"off", "opened", "kept"} => box'[r] = <<>>
  <2>1. rpc[r] \in {"off", "opened", "kept"} => \A j \in S!Created : r \notin attached[j]
    BY <1>2
  <2> QED BY <1>2, <2>1
<1>4. \A j \in S!Created : snext[j] \in Nat /\ snext'[j] \in Nat
  BY DEF SessionInv, BroadcastsOK
<1>5. rpc[r] = "opened" => written[r].id <= snext'[on[r]] /\ Replayed(backlog[r], written[r].id, snext'[on[r]])
  <2>1. SUFFICES ASSUME rpc[r] = "opened"
                 PROVE  written[r].id <= snext'[on[r]] /\ Replayed(backlog[r], written[r].id, snext'[on[r]])
    OBVIOUS
  <2>2. PICK a, b : a = snext[on[r]] /\ b = snext'[on[r]]
    OBVIOUS
  <2>3. a \in Nat /\ b \in Nat /\ a <= b /\ written[r].id <= a /\ Replayed(backlog[r], written[r].id, a)
    BY <1>2, <1>4, <2>1, <2>2
  <2>4. \A n \in 1..Len(backlog[r]) : backlog[r][n] \in Nat
    BY <1>1
  <2>5. Replayed(backlog[r], written[r].id, b)
    BY <2>3, <2>4 DEF Replayed
  <2> QED BY <1>1, <2>2, <2>3, <2>5
<1>6. ASSUME NEW j \in S!Created', r \in attached'[j]
      PROVE  /\ on[r] = j /\ rpc[r] \in {"live", "sending"}
             /\ written[r].id <= snext'[j] /\ Within(box'[r], snext'[j])
  <2>1. j \in S!Created /\ r \in attached[j] /\ box'[r] = box[r]
    BY <1>6
  <2>2. PICK a, b : a = snext[j] /\ b = snext'[j]
    OBVIOUS
  <2>3. a \in Nat /\ b \in Nat /\ a <= b /\ written[r].id <= a /\ Within(box[r], a)
    BY <1>2, <1>4, <2>1, <2>2
  <2>4. Within(box[r], b)
    BY <1>1, <2>3 DEF Within
  <2> QED BY <1>1, <1>2, <2>1, <2>2, <2>3, <2>4
<1>7. rpc[r] # "off" => on[r] \in S!Created'
  BY <1>2
<1>8. Framed(box'[r], written'[r].id)
  OBVIOUS
<1> QED BY <1>2, <1>3, <1>5, <1>6, <1>7, <1>8 DEF ConnKept, Framed, Within, Replayed

LEMMA BroadcastsStay ==
    ASSUME BroadcastsOK, owner' = owner, snext' = snext, sring' = sring, registry' \in Seq(S!Created),
           attached' \in [S!Created -> SUBSET Readers], publisher' \in [StreamSessions -> S!Created \cup {0}]
    PROVE  BroadcastsOK' /\ S!Created' = S!Created /\ snext' \in [S!Created -> Nat] /\ \A j \in S!Created : snext[j] <= snext'[j]
<1>1. S!Created' = S!Created
  BY DEF S!Created
<1>2. BroadcastsOK'
  BY <1>1 DEF BroadcastsOK, RingOK
<1>3. snext \in [S!Created -> Nat]
  BY DEF BroadcastsOK
<1>4. \A j \in S!Created : snext[j] <= snext'[j]
  BY <1>3
<1> QED BY <1>1, <1>2, <1>3, <1>4

(* Steps that move no connection and leave every queue alone.              *)
LEMMA NobodyMoves ==
    ASSUME SessionInv, owner' = owner, snext' = snext, sring' = sring, attached' = attached,
           registry' \in Seq(S!Created), publisher' \in [StreamSessions -> S!Created \cup {0}],
           rpc' = rpc, on' = on, box' = box, backlog' = backlog, resumeAt' = resumeAt, written' = written, slots' = slots
    PROVE  SessionInv'
<1>1. BroadcastsOK /\ attached' \in [S!Created -> SUBSET Readers]
  BY DEF SessionInv, BroadcastsOK
<1>2. BroadcastsOK' /\ S!Created' = S!Created /\ snext' \in [S!Created -> Nat] /\ \A j \in S!Created : snext[j] <= snext'[j]
  BY <1>1, BroadcastsStay
<1>3. ConnTypes'
  BY DEF SessionInv, ConnTypes, OpenStreams
<1>4. ASSUME NEW r \in Readers PROVE ConnKept(r)'
  <2>1. Framed(box'[r], written[r].id)
    BY SessionReader
  <2> QED BY <1>2, <2>1, ConnMoves
<1> QED BY <1>2, <1>3, <1>4 DEF SessionInv

LEMMA SweepKeeps ==
    ASSUME SessionInv, S!Sweep
    PROVE  SessionInv'
<1>1. /\ owner' = owner /\ snext' = snext /\ sring' = sring /\ attached' = attached /\ publisher' = publisher
      /\ rpc' = rpc /\ on' = on /\ box' = box /\ backlog' = backlog /\ resumeAt' = resumeAt /\ written' = written /\ slots' = slots
  BY DEF S!Sweep, S!readerState
<1>2. PICK T : T = {i \in S!Created : ~S!IsIdle(i)}
  OBVIOUS
<1>3. registry' = CopyOf(registry, T)
  <2>1. registry' = S!Kept(registry, T)
    BY <1>2 DEF S!Sweep
  <2>2. S!Kept(registry, T) = CopyOf(registry, T)
    BY DEF S!Kept, CopyOf, S!FoldLeft, FoldLeft, S!MapThenFoldSet, MapThenFoldSet, S!Max, Max
  <2> QED BY <2>1, <2>2
<1>4. PICK k : k = Cardinality(S!Created)
  OBVIOUS
<1>5. S!Created = 1..k /\ k \in Nat /\ registry \in Seq(S!Created)
  BY <1>4, FS_CardinalityType DEF SessionInv, BroadcastsOK
<1>6. \A n \in 1..Len(registry) : registry[n] \in S!Created /\ registry[n] \in Nat
  <2>1. \A n \in 1..Len(registry) : registry[n] \in S!Created
    BY <1>5
  <2> QED BY <1>5, <2>1
<1>7. registry \in Seq(Nat)
  <2>1. registry = [n \in 1..Len(registry) |-> registry[n]] /\ Len(registry) \in Nat
    BY <1>5
  <2> QED BY <1>6, <2>1
<1>8. PICK z : z = registry'
  OBVIOUS
<1>9. z \in Seq(Nat) /\ Copied(z, registry, T, Len(registry))
  BY <1>3, <1>7, <1>8, CopyIs
<1>10. \A j \in 1..Len(z) : \E n \in 1..Len(registry) : z[j] = registry[n]
  BY <1>9 DEF Copied
<1>11. \A j \in 1..Len(z) : z[j] \in S!Created
  BY <1>6, <1>10
<1>12. z \in Seq(S!Created)
  <2>1. z = [j \in 1..Len(z) |-> z[j]] /\ Len(z) \in Nat
    BY <1>9
  <2> QED BY <1>11, <2>1
<1>13. publisher' \in [StreamSessions -> S!Created \cup {0}]
  BY <1>1 DEF SessionInv, BroadcastsOK
<1> QED BY <1>1, <1>8, <1>12, <1>13, NobodyMoves

LEMMA SessionTickKeeps ==
    ASSUME SessionInv, S!STick
    PROVE  SessionInv'
<1>1. /\ owner' = owner /\ snext' = snext /\ sring' = sring /\ attached' = attached /\ publisher' = publisher
      /\ rpc' = rpc /\ on' = on /\ box' = box /\ backlog' = backlog /\ resumeAt' = resumeAt /\ written' = written /\ slots' = slots
      /\ registry' = registry
  BY DEF S!STick, S!readerState
<1>2. registry \in Seq(S!Created) /\ publisher \in [StreamSessions -> S!Created \cup {0}]
  BY DEF SessionInv, BroadcastsOK
<1> QED BY <1>1, <1>2, NobodyMoves

LEMMA EndTurnKeeps ==
    ASSUME SessionInv, NEW s \in StreamSessions, S!EndTurn(s)
    PROVE  SessionInv'
<1>1. /\ owner' = owner /\ snext' = snext /\ sring' = sring /\ attached' = attached /\ publisher' = [publisher EXCEPT ![s] = 0]
      /\ rpc' = rpc /\ on' = on /\ box' = box /\ backlog' = backlog /\ resumeAt' = resumeAt /\ written' = written /\ slots' = slots
      /\ registry' = registry
  BY DEF S!EndTurn, S!readerState, S!streamState
<1>2. registry \in Seq(S!Created) /\ publisher \in [StreamSessions -> S!Created \cup {0}]
  BY DEF SessionInv, BroadcastsOK
<1>3. publisher' \in [StreamSessions -> S!Created \cup {0}]
  BY <1>1, <1>2
<1> QED BY <1>1, <1>2, <1>3, NobodyMoves

LEMMA SessionStutters ==
    ASSUME SessionInv, UNCHANGED ssvars
    PROVE  SessionInv'
<1>1. /\ owner' = owner /\ snext' = snext /\ sring' = sring /\ attached' = attached /\ publisher' = publisher
      /\ rpc' = rpc /\ on' = on /\ box' = box /\ backlog' = backlog /\ resumeAt' = resumeAt /\ written' = written /\ slots' = slots
      /\ registry' = registry
  BY DEF ssvars
<1>2. registry \in Seq(S!Created) /\ publisher \in [StreamSessions -> S!Created \cup {0}]
  BY DEF SessionInv, BroadcastsOK
<1> QED BY <1>1, <1>2, NobodyMoves

(* A step of one connection.                                               *)
LEMMA OneMoves ==
    ASSUME SessionInv, NEW r \in Readers, owner' = owner, snext' = snext, sring' = sring, registry' = registry,
           publisher' = publisher, attached' \in [S!Created -> SUBSET Readers],
           \A j \in S!Created : attached'[j] \ {r} \subseteq attached[j],
           \A x \in Readers : x # r =>
              rpc'[x] = rpc[x] /\ on'[x] = on[x] /\ backlog'[x] = backlog[x] /\ written'[x] = written[x] /\ box'[x] = box[x],
           ConnTypes', ConnKept(r)'
    PROVE  SessionInv'
<1>1. BroadcastsOK /\ registry' \in Seq(S!Created) /\ publisher' \in [StreamSessions -> S!Created \cup {0}]
  BY DEF SessionInv, BroadcastsOK
<1>2. BroadcastsOK' /\ S!Created' = S!Created /\ snext' \in [S!Created -> Nat] /\ \A j \in S!Created : snext[j] <= snext'[j]
  BY <1>1, BroadcastsStay
<1>3. ASSUME NEW x \in Readers, x # r PROVE ConnKept(x)'
  <2>1. rpc'[x] = rpc[x] /\ on'[x] = on[x] /\ backlog'[x] = backlog[x] /\ written'[x] = written[x] /\ box'[x] = box[x]
    BY <1>3
  <2>2. Framed(box'[x], written[x].id)
    BY <2>1, SessionReader
  <2>3. \A j \in S!Created' : x \in attached'[j] => j \in S!Created /\ x \in attached[j] /\ box'[x] = box[x]
    BY <1>2, <1>3, <2>1
  <2> QED BY <1>2, <2>1, <2>2, <2>3, ConnMoves
<1> QED BY <1>2, <1>3 DEF SessionInv

LEMMA SessionReplayKeeps ==
    ASSUME SessionInv, NEW r \in Readers, S!Replay(r)
    PROVE  SessionInv'
<1>1. PICK q, k, x : q = backlog[r] /\ k = Head(q) /\ x = S!Chunk(k)
  OBVIOUS
<1>2. /\ owner' = owner /\ snext' = snext /\ sring' = sring /\ registry' = registry /\ publisher' = publisher /\ attached' = attached
      /\ rpc' = rpc /\ on' = on /\ box' = box /\ slots' = slots /\ rpc[r] = "opened" /\ q # <<>>
      /\ backlog' = [backlog EXCEPT ![r] = Tail(q)] /\ written' = [written EXCEPT ![r] = x]
      /\ resumeAt' = [resumeAt EXCEPT ![r] = x.id]
  BY <1>1 DEF S!Replay, S!Write, S!streamState
<1>3. /\ ConnTypes /\ ConnKept(r) /\ q \in Seq(Nat) /\ written[r].id \in Nat /\ attached \in [S!Created -> SUBSET Readers]
      /\ on[r] \in S!Created /\ snext[on[r]] \in Nat
  BY <1>1, <1>2, SessionReader DEF SessionInv, BroadcastsOK, ConnKept
<1>4. k \in Nat /\ Tail(q) \in Seq(Nat) /\ k = q[1] /\ 1 \in 1..Len(q)
  BY <1>1, <1>2, <1>3
<1>5. x \in FrameItems /\ x.id = k
  BY <1>1, <1>4, FrameKinds
<1>6. /\ backlog'[r] = Tail(q) /\ written'[r] = x
      /\ \A y \in Readers : y # r => backlog'[y] = backlog[y] /\ written'[y] = written[y]
  BY <1>2, <1>3 DEF ConnTypes
<1>7. ConnTypes'
  <2>1. backlog' \in [Readers -> Seq(Nat)] /\ written' \in [Readers -> FrameItems] /\ resumeAt' \in [Readers -> Nat]
    BY <1>2, <1>3, <1>4, <1>5 DEF ConnTypes
  <2> QED BY <1>2, <1>3, <2>1 DEF ConnTypes, OpenStreams
<1>8. ConnKept(r)'
  <2>1. PICK z, top : z = Tail(q) /\ top = snext[on[r]]
    OBVIOUS
  <2>2. Replayed(q, written[r].id, top) /\ box[r] = <<>> /\ \A i \in S!Created : r \notin attached[i]
    BY <1>1, <1>2, <1>3, <2>1 DEF ConnKept
  <2>3. /\ z \in Seq(Nat) /\ Len(z) = Len(q) - 1 /\ Len(z) \in Nat
        /\ \A i \in 1..Len(z) : z[i] = q[i + 1] /\ i + 1 \in 1..Len(q)
    BY <1>2, <1>3, <2>1, TailIs
  <2>4. k <= top
    BY <1>4, <2>2 DEF Replayed
  <2>5. Replayed(z, k, top)
    <3>1. ASSUME NEW n \in 1..Len(z) PROVE k < z[n] /\ z[n] <= top
      <4>1. z[n] = q[n + 1] /\ n + 1 \in 1..Len(q) /\ 1 < n + 1
        BY <2>3
      <4> QED BY <1>4, <2>2, <4>1 DEF Replayed, Ascending
    <3>2. ASSUME NEW i \in 1..Len(z), NEW j \in 1..Len(z), i < j PROVE z[i] < z[j]
      <4>1. z[i] = q[i + 1] /\ i + 1 \in 1..Len(q) /\ z[j] = q[j + 1] /\ j + 1 \in 1..Len(q) /\ i + 1 < j + 1
        BY <2>3, <3>2
      <4> QED BY <2>2, <4>1 DEF Replayed, Ascending
    <3> QED BY <3>1, <3>2 DEF Replayed, Ascending
  <2>6. Framed(<<>>, k)
    BY DEF Framed
  <2>7. S!Created' = S!Created
    BY <1>2 DEF S!Created
  <2>8. /\ on[r] \in S!Created' /\ rpc'[r] = "opened" /\ box'[r] = <<>> /\ on'[r] = on[r]
        /\ \A i \in S!Created' : r \notin attached'[i]
    BY <1>2, <1>3, <2>2, <2>7
  <2>9. snext'[on'[r]] = top /\ written'[r].id = k /\ backlog'[r] = z
    BY <1>2, <1>5, <1>6, <2>1
  <2> QED BY <2>4, <2>5, <2>6, <2>8, <2>9 DEF ConnKept, Framed, Replayed, Within
<1>9. \A j \in S!Created : attached'[j] \ {r} \subseteq attached[j]
  BY <1>2
<1> QED BY <1>2, <1>3, <1>6, <1>7, <1>8, <1>9, OneMoves

LEMMA SubscribeKeeps ==
    ASSUME SessionInv, NEW r \in Readers, S!Subscribe(r)
    PROVE  SessionInv'
<1>1. PICK i : i = on[r]
  OBVIOUS
<1>2. /\ owner' = owner /\ snext' = snext /\ sring' = sring /\ registry' = registry /\ publisher' = publisher
      /\ on' = on /\ box' = box /\ slots' = slots /\ backlog' = backlog /\ written' = written /\ resumeAt' = resumeAt
      /\ rpc[r] = "opened" /\ backlog[r] = <<>> /\ rpc' = [rpc EXCEPT ![r] = "live"]
      /\ attached' = [attached EXCEPT ![i] = attached[i] \cup {r}]
  BY <1>1 DEF S!Subscribe
<1>3. /\ ConnTypes /\ ConnKept(r) /\ written[r].id \in Nat /\ attached \in [S!Created -> SUBSET Readers]
      /\ i \in S!Created /\ snext[i] \in Nat
  BY <1>1, <1>2, SessionReader DEF SessionInv, BroadcastsOK, ConnKept
<1>4. rpc'[r] = "live" /\ \A y \in Readers : y # r => rpc'[y] = rpc[y]
  BY <1>2, <1>3 DEF ConnTypes
<1>5. /\ attached' \in [S!Created -> SUBSET Readers] /\ \A j \in S!Created : attached'[j] \ {r} \subseteq attached[j]
      /\ \A j \in S!Created : j # i => attached'[j] = attached[j]
  BY <1>2, <1>3
<1>6. ConnTypes'
  <2>1. rpc' \in [Readers -> {"off", "opened", "live", "sending", "kept"}]
    BY <1>2, <1>3 DEF ConnTypes
  <2>2. OpenStreams' = OpenStreams
    BY <1>2, <1>4 DEF OpenStreams
  <2> QED BY <1>2, <1>3, <2>1, <2>2 DEF ConnTypes
<1>7. ConnKept(r)'
  <2>1. /\ box[r] = <<>> /\ written[r].id <= snext[i] /\ Framed(box[r], written[r].id)
        /\ \A j \in S!Created : r \notin attached[j]
    BY <1>1, <1>2, <1>3 DEF ConnKept
  <2>2. Within(<<>>, snext[i])
    BY DEF Within
  <2>3. S!Created' = S!Created
    BY <1>2 DEF S!Created
  <2>4. \A j \in S!Created' : r \in attached'[j] => j = i
    BY <1>5, <2>1, <2>3
  <2> QED BY <1>1, <1>2, <1>3, <1>4, <2>1, <2>2, <2>3, <2>4 DEF ConnKept, Framed, Within
<1> QED BY <1>2, <1>4, <1>5, <1>6, <1>7, OneMoves

LEMMA ReceiveKeeps ==
    ASSUME SessionInv, NEW r \in Readers, S!Receive(r)
    PROVE  SessionInv'
<1>1. PICK q, x, z : q = box[r] /\ x = Head(q) /\ z = Tail(q)
  OBVIOUS
<1>2. /\ owner' = owner /\ snext' = snext /\ sring' = sring /\ registry' = registry /\ publisher' = publisher /\ attached' = attached
      /\ on' = on /\ backlog' = backlog /\ slots' = slots /\ rpc[r] = "live" /\ q # <<>>
      /\ box' = [box EXCEPT ![r] = z] /\ written' = [written EXCEPT ![r] = x]
      /\ resumeAt' = [resumeAt EXCEPT ![r] = x.id] /\ rpc' = [rpc EXCEPT ![r] = "sending"]
  BY <1>1 DEF S!Receive, S!Write, S!streamState
<1>3. /\ ConnTypes /\ ConnKept(r) /\ q \in Seq(FrameItems) /\ written[r].id \in Nat /\ attached \in [S!Created -> SUBSET Readers]
      /\ on[r] \in S!Created /\ snext \in [S!Created -> Nat] /\ Framed(q, written[r].id)
  BY <1>1, <1>2, SessionReader DEF SessionInv, BroadcastsOK, ConnKept
<1>4. /\ z \in Seq(FrameItems) /\ \A top \in Nat : Within(q, top) => Within(z, top)
      /\ x = q[1] /\ x \in FrameItems /\ Framed(z, x.id)
  BY <1>1, <1>2, <1>3, FramedTail
<1>5. x.id \in Nat
  BY <1>4, FrameId
<1>6. /\ box'[r] = z /\ written'[r] = x /\ rpc'[r] = "sending"
      /\ \A y \in Readers : y # r => box'[y] = box[y] /\ written'[y] = written[y] /\ rpc'[y] = rpc[y]
  BY <1>2, <1>3 DEF ConnTypes
<1>7. ConnTypes'
  <2>1. box' \in [Readers -> Seq(FrameItems)] /\ written' \in [Readers -> FrameItems] /\ resumeAt' \in [Readers -> Nat]
    BY <1>2, <1>3, <1>4, <1>5 DEF ConnTypes
  <2>2. rpc' \in [Readers -> {"off", "opened", "live", "sending", "kept"}]
    BY <1>2, <1>3 DEF ConnTypes
  <2>3. OpenStreams' = OpenStreams
    BY <1>2, <1>6 DEF OpenStreams
  <2> QED BY <1>2, <1>3, <2>1, <2>2, <2>3 DEF ConnTypes
<1>8. ConnKept(r)'
  <2>1. S!Created' = S!Created
    BY <1>2 DEF S!Created
  <2>2. backlog[r] = <<>>
    BY <1>2, <1>3 DEF ConnKept
  <2>3. ASSUME NEW j \in S!Created, r \in attached[j]
        PROVE  on[r] = j /\ x.id <= snext[j] /\ Within(z, snext[j])
    <3>1. on[r] = j /\ Within(q, snext[j]) /\ snext[j] \in Nat
      BY <1>1, <1>3, <2>3 DEF ConnKept
    <3>2. 1 \in 1..Len(q)
      BY <1>2, <1>3
    <3>3. q[1].id <= snext[j]
      BY <3>1, <3>2 DEF Within
    <3> QED BY <1>4, <3>1, <3>3
  <2> QED BY <1>2, <1>3, <1>4, <1>6, <2>1, <2>2, <2>3 DEF ConnKept, Framed, Within
<1>9. \A j \in S!Created : attached'[j] \ {r} \subseteq attached[j]
  BY <1>2
<1> QED BY <1>2, <1>3, <1>6, <1>7, <1>8, <1>9, OneMoves

(* The subscriber is taken off its broadcaster.                            *)
LEMMA DetachIs ==
    ASSUME SessionInv, NEW r \in Readers, rpc[r] # "off", S!Detach(r)
    PROVE  /\ owner' = owner /\ snext' = snext /\ sring' = sring /\ registry' = registry
           /\ attached' \in [S!Created -> SUBSET Readers]
           /\ \A j \in S!Created : attached'[j] \ {r} \subseteq attached[j] /\ r \notin attached'[j]
<1>1. PICK i : i = on[r]
  OBVIOUS
<1>2. /\ owner' = owner /\ snext' = snext /\ sring' = sring /\ registry' = registry
      /\ attached' = [attached EXCEPT ![i] = attached[i] \ {r}]
  BY <1>1 DEF S!Detach
<1>3. attached \in [S!Created -> SUBSET Readers] /\ \A j \in S!Created : r \in attached[j] => j = i
  BY <1>1 DEF SessionInv, BroadcastsOK, ConnKept
<1>4. attached' \in [S!Created -> SUBSET Readers]
  BY <1>2, <1>3
<1>5. \A j \in S!Created : attached'[j] = IF j = i THEN attached[j] \ {r} ELSE attached[j]
  BY <1>2, <1>3
<1> QED BY <1>2, <1>3, <1>4, <1>5

LEMMA OpenCounted == SessionInv => IsFiniteSet(OpenStreams) /\ slots \in Nat /\ slots = Cardinality(OpenStreams)
BY SessionFacts, FS_Subset, FS_CardinalityType DEF SessionInv, ConnTypes, OpenStreams

LEMMA SessionLeaveKeeps ==
    ASSUME SessionInv, NEW r \in Readers, rpc[r] # "off", S!Leave(r)
    PROVE  SessionInv'
<1>1. /\ owner' = owner /\ snext' = snext /\ sring' = sring /\ registry' = registry
      /\ attached' \in [S!Created -> SUBSET Readers]
      /\ \A j \in S!Created : attached'[j] \ {r} \subseteq attached[j] /\ r \notin attached'[j]
  <2>1. CASE rpc[r] \in {"live", "sending"}
    <3>1. S!Detach(r)
      BY <2>1 DEF S!Leave
    <3> QED BY <3>1, DetachIs
  <2>2. CASE rpc[r] \notin {"live", "sending"}
    <3>1. owner' = owner /\ snext' = snext /\ sring' = sring /\ registry' = registry /\ attached' = attached
      BY <2>2 DEF S!Leave, S!streamState
    <3>2. attached \in [S!Created -> SUBSET Readers] /\ \A j \in S!Created : r \notin attached[j]
      BY <2>2 DEF SessionInv, BroadcastsOK, ConnKept
    <3> QED BY <3>1, <3>2
  <2> QED BY <2>1, <2>2
<1>2. /\ publisher' = publisher /\ resumeAt' = resumeAt /\ rpc' = [rpc EXCEPT ![r] = "off"] /\ on' = [on EXCEPT ![r] = 0]
      /\ box' = [box EXCEPT ![r] = <<>>] /\ backlog' = [backlog EXCEPT ![r] = <<>>]
      /\ written' = [written EXCEPT ![r] = S!Sentinel] /\ slots' = (IF slots > 0 THEN slots - 1 ELSE 0)
  BY DEF S!Leave, S!ReleaseSlot
<1>3. ConnTypes
  BY DEF SessionInv
<1>4. /\ box'[r] = <<>> /\ backlog'[r] = <<>> /\ written'[r] = S!Sentinel /\ rpc'[r] = "off"
      /\ \A x \in Readers : x # r =>
           rpc'[x] = rpc[x] /\ on'[x] = on[x] /\ backlog'[x] = backlog[x] /\ written'[x] = written[x] /\ box'[x] = box[x]
  BY <1>2, <1>3 DEF ConnTypes
<1>5. ConnTypes'
  <2>1. OpenStreams' = OpenStreams \ {r}
    BY <1>4 DEF OpenStreams
  <2>2. r \in OpenStreams /\ IsFiniteSet(OpenStreams) /\ slots \in Nat /\ slots = Cardinality(OpenStreams)
    BY OpenCounted DEF OpenStreams
  <2>3. Cardinality(OpenStreams \ {r}) = slots - 1 /\ Cardinality(OpenStreams \ {r}) \in Nat
    BY <2>2, FS_RemoveElement, FS_CardinalityType
  <2>4. slots' = Cardinality(OpenStreams')
    BY <1>2, <2>1, <2>2, <2>3
  <2>5. box' \in [Readers -> Seq(FrameItems)] /\ backlog' \in [Readers -> Seq(Nat)]
    BY <1>2, <1>3 DEF ConnTypes
  <2>6. written' \in [Readers -> FrameItems]
    BY <1>2, <1>3, FrameKinds DEF ConnTypes
  <2>7. rpc' \in [Readers -> {"off", "opened", "live", "sending", "kept"}] /\ on' \in [Readers -> Nat]
    BY <1>2, <1>3 DEF ConnTypes
  <2> QED BY <1>2, <1>3, <2>4, <2>5, <2>6, <2>7 DEF ConnTypes
<1>6. ConnKept(r)'
  <2>1. S!Created' = S!Created
    BY <1>1 DEF S!Created
  <2>2. Framed(<<>>, written'[r].id)
    BY DEF Framed
  <2> QED BY <1>1, <1>4, <2>1, <2>2 DEF ConnKept, Framed
<1>7. \A j \in S!Created : attached'[j] \ {r} \subseteq attached[j]
  BY <1>1
<1> QED BY <1>1, <1>2, <1>4, <1>5, <1>6, <1>7, OneMoves

LEMMA SentKeeps ==
    ASSUME SessionInv, NEW r \in Readers, S!Sent(r)
    PROVE  SessionInv'
<1>1. rpc[r] = "sending"
  BY DEF S!Sent
<1>2. CASE S!Leave(r)
  BY <1>1, <1>2, SessionLeaveKeeps
<1>3. CASE ~S!Leave(r)
  <2>1. /\ owner' = owner /\ snext' = snext /\ sring' = sring /\ registry' = registry /\ publisher' = publisher /\ attached' = attached
        /\ on' = on /\ box' = box /\ slots' = slots /\ backlog' = backlog /\ written' = written /\ resumeAt' = resumeAt
        /\ rpc' = [rpc EXCEPT ![r] = "live"]
    BY <1>3 DEF S!Sent, S!streamState
  <2>2. ConnTypes /\ ConnKept(r) /\ attached \in [S!Created -> SUBSET Readers]
    BY DEF SessionInv, BroadcastsOK
  <2>3. rpc'[r] = "live" /\ \A y \in Readers : y # r => rpc'[y] = rpc[y]
    BY <2>1, <2>2 DEF ConnTypes
  <2>4. ConnTypes'
    <3>1. rpc' \in [Readers -> {"off", "opened", "live", "sending", "kept"}]
      BY <2>1, <2>2 DEF ConnTypes
    <3>2. OpenStreams' = OpenStreams
      BY <1>1, <2>1, <2>3 DEF OpenStreams
    <3> QED BY <2>1, <2>2, <3>1, <3>2 DEF ConnTypes
  <2>5. ConnKept(r)'
    <3>1. S!Created' = S!Created
      BY <2>1 DEF S!Created
    <3> QED BY <1>1, <2>1, <2>2, <2>3, <3>1 DEF ConnKept, Framed, Within
  <2>6. \A j \in S!Created : attached'[j] \ {r} \subseteq attached[j]
    BY <2>1
  <2> QED BY <2>1, <2>2, <2>3, <2>4, <2>5, <2>6, OneMoves
<1> QED BY <1>2, <1>3

LEMMA KeepaliveKeeps ==
    ASSUME SessionInv, NEW r \in Readers, S!Keepalive(r)
    PROVE  SessionInv'
<1>1. /\ rpc[r] = "live" /\ box[r] = <<>> /\ S!Detach(r) /\ publisher' = publisher
      /\ on' = on /\ box' = box /\ slots' = slots /\ backlog' = backlog /\ written' = written /\ resumeAt' = resumeAt
      /\ rpc' = [rpc EXCEPT ![r] = "kept"]
  BY DEF S!Keepalive
<1>2. /\ owner' = owner /\ snext' = snext /\ sring' = sring /\ registry' = registry
      /\ attached' \in [S!Created -> SUBSET Readers]
      /\ \A j \in S!Created : attached'[j] \ {r} \subseteq attached[j] /\ r \notin attached'[j]
  BY <1>1, DetachIs
<1>3. ConnTypes /\ ConnKept(r)
  BY DEF SessionInv
<1>4. rpc'[r] = "kept" /\ \A y \in Readers : y # r => rpc'[y] = rpc[y]
  BY <1>1, <1>3 DEF ConnTypes
<1>5. ConnTypes'
  <2>1. rpc' \in [Readers -> {"off", "opened", "live", "sending", "kept"}]
    BY <1>1, <1>3 DEF ConnTypes
  <2>2. OpenStreams' = OpenStreams
    BY <1>1, <1>4 DEF OpenStreams
  <2> QED BY <1>1, <1>3, <2>1, <2>2 DEF ConnTypes
<1>6. ConnKept(r)'
  <2>1. S!Created' = S!Created
    BY <1>2 DEF S!Created
  <2> QED BY <1>1, <1>2, <1>3, <1>4, <2>1 DEF ConnKept, Framed
<1>7. \A j \in S!Created : attached'[j] \ {r} \subseteq attached[j]
  BY <1>2
<1> QED BY <1>1, <1>2, <1>4, <1>5, <1>6, <1>7, OneMoves

(* The ring takes the next id, and drops its oldest one when it is full.   *)
LEMMA RingTakes ==
    ASSUME NEW q \in Seq(Nat), NEW top \in Nat, RingOK(q, top), NEW k \in Nat, top < k, NEW z, z = Append(q, k),
           NEW most \in Nat, k <= most
    PROVE  z \in Seq(Nat) /\ RingOK(z, most)
<1>1. /\ z \in Seq(Nat) /\ Len(z) = Len(q) + 1 /\ Len(q) \in Nat /\ z[Len(q) + 1] = k
      /\ \A i \in 1..Len(q) : z[i] = q[i]
      /\ \A i \in 1..Len(z) : i = Len(q) + 1 \/ i \in 1..Len(q)
  BY AppendIs
<1>2. \A i \in 1..Len(q) : q[i] \in Nat /\ q[i] <= top
  BY DEF RingOK
<1>3. \A i \in 1..Len(q) : z[i] \in Nat /\ z[i] < k
  BY <1>1, <1>2
<1>4. \A i \in 1..Len(z) : z[i] <= most
  BY <1>1, <1>3
<1>5. ASSUME NEW i \in 1..Len(z), NEW j \in 1..Len(z), i < j PROVE z[i] < z[j]
  <2>1. i \in 1..Len(q)
    BY <1>1, <1>5
  <2>2. CASE j = Len(q) + 1
    BY <1>1, <1>3, <2>1, <2>2
  <2>3. CASE j \in 1..Len(q)
    BY <1>1, <1>5, <2>1, <2>3 DEF RingOK, Ascending
  <2> QED BY <1>1, <2>2, <2>3
<1> QED BY <1>1, <1>4, <1>5 DEF RingOK, Ascending

LEMMA RingDrops ==
    ASSUME NEW q \in Seq(Nat), q # <<>>, NEW top \in Nat, RingOK(q, top), NEW z, z = Tail(q)
    PROVE  z \in Seq(Nat) /\ RingOK(z, top)
<1>1. /\ z \in Seq(Nat) /\ Len(z) = Len(q) - 1 /\ Len(z) \in Nat
      /\ \A i \in 1..Len(z) : z[i] = q[i + 1] /\ i + 1 \in 1..Len(q)
  BY TailIs
<1>2. \A i \in 1..Len(z) : z[i] <= top
  BY <1>1 DEF RingOK
<1>3. ASSUME NEW i \in 1..Len(z), NEW j \in 1..Len(z), i < j PROVE z[i] < z[j]
  <2>1. z[i] = q[i + 1] /\ i + 1 \in 1..Len(q) /\ z[j] = q[j + 1] /\ j + 1 \in 1..Len(q) /\ i + 1 < j + 1
    BY <1>1, <1>3
  <2> QED BY <2>1 DEF RingOK, Ascending
<1> QED BY <1>1, <1>2, <1>3 DEF RingOK, Ascending

LEMMA SessionPublishKeeps ==
    ASSUME SessionInv, NEW s \in StreamSessions, S!Publish(s)
    PROVE  SessionInv'
<1>1. PICK i : i = publisher[s]
  OBVIOUS
<1>2. PICK n, R : n = snext[i] + 1 /\ R = {r \in attached[i] : Len(box[r]) = SQueueMax}
  OBVIOUS
<1>3. PICK c : c = Cardinality(R)
  OBVIOUS
<1>4. /\ i # 0 /\ snext' = [snext EXCEPT ![i] = n + c]
      /\ sring' = [sring EXCEPT ![i] = IF Len(sring[i]) = SRingMax THEN Append(Tail(sring[i]), n) ELSE Append(sring[i], n)]
      /\ box' = [r \in Readers |->
                   IF r \in R THEN S!PushOut(box[r], n + S!Rank(r, R))
                   ELSE IF r \in attached[i] THEN Append(box[r], S!Chunk(n)) ELSE box[r]]
      /\ attached' = [attached EXCEPT ![i] = attached[i] \ R]
      /\ registry' = registry /\ owner' = owner /\ publisher' = publisher /\ rpc' = rpc /\ on' = on
      /\ backlog' = backlog /\ resumeAt' = resumeAt /\ written' = written /\ slots' = slots
  <2>1. S!Cardinality(R) = c
    BY <1>3, SessionCount
  <2> QED BY <1>1, <1>2, <2>1 DEF S!Publish, S!readerState
<1>5. /\ i \in S!Created /\ snext \in [S!Created -> Nat] /\ sring \in [S!Created -> Seq(Nat)]
      /\ attached \in [S!Created -> SUBSET Readers] /\ ConnTypes /\ BroadcastsOK /\ RingOK(sring[i], snext[i])
  BY <1>1, <1>4 DEF SessionInv, BroadcastsOK
<1>6. R \subseteq Readers /\ IsFiniteSet(R) /\ c \in Nat /\ n \in Nat /\ snext[i] \in Nat /\ snext[i] < n
  <2>1. R \subseteq Readers
    BY <1>2, <1>5
  <2>2. IsFiniteSet(R)
    BY <2>1, SessionFacts, FS_Subset
  <2>3. c \in Nat
    BY <1>3, <2>2, FS_CardinalityType
  <2> QED BY <1>2, <1>5, <2>1, <2>2, <2>3
<1>7. /\ snext' \in [S!Created -> Nat] /\ snext'[i] = n + c /\ n + c \in Nat /\ n <= n + c
      /\ \A j \in S!Created : j # i => snext'[j] = snext[j]
  BY <1>4, <1>5, <1>6
<1>8. \A j \in S!Created : snext[j] <= snext'[j]
  <2>1. snext[i] <= snext'[i]
    BY <1>2, <1>6, <1>7
  <2>2. \A j \in S!Created : snext[j] \in Nat
    BY <1>5
  <2>3. ASSUME NEW j \in S!Created, j # i PROVE snext[j] <= snext'[j]
    BY <1>7, <2>2, <2>3
  <2> QED BY <2>1, <2>3
<1>9. /\ attached' \in [S!Created -> SUBSET Readers] /\ attached'[i] = attached[i] \ R
      /\ \A j \in S!Created : j # i => attached'[j] = attached[j]
  BY <1>4, <1>5
<1>10. S!Created' = S!Created
  BY <1>4 DEF S!Created
<1>11. PICK q : q = sring[i]
  OBVIOUS
<1>12. PICK z : z = IF Len(q) = SRingMax THEN Append(Tail(q), n) ELSE Append(q, n)
  OBVIOUS
<1>13. z \in Seq(Nat) /\ RingOK(z, n + c)
  <2>1. q \in Seq(Nat) /\ RingOK(q, snext[i])
    BY <1>5, <1>11
  <2>2. CASE Len(q) # SRingMax
    <3>1. z = Append(q, n)
      BY <1>12, <2>2
    <3> QED BY <1>6, <1>7, <2>1, <3>1, RingTakes
  <2>3. CASE Len(q) = SRingMax
    <3>1. q # <<>>
      BY <2>3, SessionFacts
    <3>2. PICK t : t = Tail(q)
      OBVIOUS
    <3>3. t \in Seq(Nat) /\ RingOK(t, snext[i])
      BY <1>6, <2>1, <3>1, <3>2, RingDrops
    <3>4. z = Append(t, n)
      BY <1>12, <2>3, <3>2
    <3> QED BY <1>6, <1>7, <3>3, <3>4, RingTakes
  <2> QED BY <2>2, <2>3
<1>14. sring' = [sring EXCEPT ![i] = z]
  BY <1>4, <1>11, <1>12
<1>15. BroadcastsOK'
  <2>1. sring' \in [S!Created -> Seq(Nat)] /\ sring'[i] = z /\ \A j \in S!Created : j # i => sring'[j] = sring[j]
    BY <1>5, <1>13, <1>14
  <2>2. \A j \in S!Created : RingOK(sring'[j], snext'[j])
    BY <1>5, <1>7, <1>13, <2>1 DEF BroadcastsOK
  <2> QED BY <1>4, <1>5, <1>7, <1>9, <1>10, <2>1, <2>2 DEF BroadcastsOK, RingOK
<1>16. ASSUME NEW r \in Readers PROVE box'[r] \in Seq(FrameItems) /\ ConnKept(r)'
  <2>1. PICK b, w : b = box[r] /\ w = written[r].id
    OBVIOUS
  <2>2. /\ ConnKept(r) /\ b \in Seq(FrameItems) /\ w \in Nat /\ Framed(b, w)
        /\ (r \in attached[i] => w <= snext[i] /\ Within(b, snext[i]) /\ on[r] = i /\ rpc[r] \in {"live", "sending"})
    BY <1>5, <2>1, SessionReader DEF ConnKept
  <2>3. box'[r] = IF r \in R THEN S!PushOut(b, n + S!Rank(r, R))
                  ELSE IF r \in attached[i] THEN Append(b, S!Chunk(n)) ELSE b
    BY <1>4, <2>1
  <2>4. rpc'[r] = rpc[r] /\ on'[r] = on[r] /\ backlog'[r] = backlog[r] /\ written'[r] = written[r]
    BY <1>4
  <2>5. CASE r \notin attached[i]
    <3>1. box'[r] = box[r] /\ Framed(box'[r], written[r].id)
      BY <1>2, <2>1, <2>2, <2>3, <2>5
    <3>2. \A j \in S!Created' : r \in attached'[j] => j \in S!Created /\ r \in attached[j] /\ box'[r] = box[r]
      BY <1>9, <1>10, <2>5, <3>1
    <3>3. ConnKept(r)'
      BY <1>7, <1>8, <1>10, <2>4, <3>1, <3>2, ConnMoves
    <3> QED BY <2>1, <2>2, <3>1, <3>3
  <2>6. CASE r \in R
    <3>1. PICK k, t : k = n + S!Rank(r, R) /\ t = Tail(b)
      OBVIOUS
    <3>2. k \in Nat /\ k > snext[i]
      BY <1>6, <2>6, <3>1, RankIs
    <3>3. b # <<>> /\ r \in attached[i]
      BY <1>2, <2>1, <2>6, SessionFacts
    <3>4. t \in Seq(FrameItems) /\ Framed(t, w) /\ Within(t, snext[i])
      <4>1. t \in Seq(FrameItems) /\ Framed(t, w) /\ \A top \in Nat : Within(b, top) => Within(t, top)
        BY <2>2, <3>1, <3>3, FramedTail
      <4> QED BY <1>6, <2>2, <3>3, <4>1
    <3>5. box'[r] = S!Put(S!Put(t, S!OverrunAt(k)), S!Sentinel)
      BY <2>3, <2>6, <3>1 DEF S!PushOut
    <3>6. box'[r] \in Seq(FrameItems) /\ Framed(box'[r], w)
      BY <1>6, <2>2, <3>2, <3>3, <3>4, <3>5, ToldLast
    <3>7. \A j \in S!Created' : r \notin attached'[j]
      <4>1. \A j \in S!Created : j # i => r \notin attached[j]
        BY <1>5, <2>2, <3>3 DEF ConnKept
      <4> QED BY <1>9, <1>10, <2>6, <4>1
    <3>8. ConnKept(r)'
      BY <1>5, <1>7, <1>8, <1>10, <2>1, <2>4, <3>3, <3>6, <3>7, ConnMoves
    <3> QED BY <3>6, <3>8
  <2>7. CASE r \in attached[i] /\ r \notin R
    <3>1. PICK x, v : x = S!Chunk(n) /\ v = Append(b, x)
      OBVIOUS
    <3>2. x \in FrameItems /\ x # S!Sentinel /\ x.id = n /\ x.id > snext[i]
      BY <1>6, <3>1, FrameKinds
    <3>3. v \in Seq(FrameItems) /\ Framed(v, w) /\ Within(v, x.id)
      BY <1>6, <2>2, <2>7, <3>1, <3>2, FrameLast
    <3>4. box'[r] = v
      BY <2>3, <2>7, <3>1
    <3>5. Within(v, snext'[i])
      <4>1. PICK T : T = FrameItems
        OBVIOUS
      <4>2. \A m \in 1..Len(v) : v[m] \in T
        BY <3>3, <4>1
      <4>3. \A m \in 1..Len(v) : v[m].id \in Nat
        BY <4>1, <4>2, FrameId
      <4>4. \A m \in 1..Len(v) : v[m] # S!Sentinel /\ v[m].id <= n
        BY <3>2, <3>3 DEF Within
      <4> QED BY <1>6, <1>7, <4>3, <4>4 DEF Within
    <3>6. w <= snext'[i]
      BY <1>5, <1>6, <1>7, <1>8, <2>2, <2>7
    <3>7. \A j \in S!Created : j # i => r \notin attached'[j]
      BY <1>5, <1>9, <2>2, <2>7 DEF ConnKept
    <3>8. backlog[r] = <<>> /\ rpc[r] \in {"live", "sending"} /\ on[r] = i
      BY <2>2, <2>7 DEF ConnKept
    <3>9. ConnKept(r)'
      BY <1>5, <1>10, <2>1, <2>4, <3>3, <3>4, <3>5, <3>6, <3>7, <3>8 DEF ConnKept, Framed, Within
    <3> QED BY <3>3, <3>4, <3>9
  <2> QED BY <1>2, <2>5, <2>6, <2>7
<1>17. ConnTypes'
  <2>1. box' \in [Readers -> Seq(FrameItems)]
    <3>1. box' = [r \in Readers |-> box'[r]]
      BY <1>4
    <3> QED BY <1>16, <3>1
  <2> QED BY <1>4, <1>5, <2>1 DEF ConnTypes, OpenStreams
<1> QED BY <1>15, <1>16, <1>17 DEF SessionInv

(* The registered broadcaster of a session, or a new one in the place of   *)
(* the oldest, whose subscribers are told and taken off.                   *)
GotStream(i) ==
    /\ i \in S!Created' /\ S!Created \subseteq S!Created'
    /\ IsFiniteSet(S!Created') /\ S!Created' = 1..Cardinality(S!Created')
    /\ registry' \in Seq(S!Created')
    /\ snext' \in [S!Created' -> Nat] /\ sring' \in [S!Created' -> Seq(Nat)]
    /\ attached' \in [S!Created' -> SUBSET Readers]
    /\ \A j \in S!Created' : RingOK(sring'[j], snext'[j])
    /\ \A j \in S!Created : snext[j] <= snext'[j]
GotReader(r) ==
    /\ \A j \in S!Created' : r \in attached'[j] => j \in S!Created /\ r \in attached[j] /\ box'[r] = box[r]
    /\ box'[r] \in Seq(FrameItems) /\ Framed(box'[r], written[r].id)
    /\ box'[r] = box[r] \/ \E j \in S!Created : r \in attached[j]
GotBoxes == box' = [r \in Readers |-> box'[r]] /\ \A r \in Readers : GotReader(r)

LEMMA SeqGrows ==
    ASSUME NEW T, NEW U, T \subseteq U, NEW q \in Seq(T)
    PROVE  q \in Seq(U)
<1>1. Len(q) \in Nat /\ q = [n \in 1..Len(q) |-> q[n]] /\ \A n \in 1..Len(q) : q[n] \in T
  OBVIOUS
<1>2. \A n \in 1..Len(q) : q[n] \in U
  BY <1>1
<1> QED BY <1>1, <1>2

LEMMA GetOld ==
    ASSUME SessionInv, NEW s, NEW i, UNCHANGED <<S!streamState, box, shut>>,
           \E n \in DOMAIN registry : registry[n] = i
    PROVE  GotStream(i) /\ GotBoxes
<1>1. /\ registry' = registry /\ owner' = owner /\ sring' = sring /\ snext' = snext /\ attached' = attached /\ box' = box
  BY DEF S!streamState
<1>2. S!Created' = S!Created
  BY <1>1 DEF S!Created
<1>3. BroadcastsOK /\ ConnTypes
  BY DEF SessionInv
<1>4. i \in S!Created
  <2>1. registry \in Seq(S!Created)
    BY <1>3 DEF BroadcastsOK
  <2> QED BY <2>1
<1>5. \A j \in S!Created : snext[j] \in Nat /\ snext[j] <= snext[j]
  BY <1>3 DEF BroadcastsOK
<1>6. GotStream(i)
  BY <1>1, <1>2, <1>3, <1>4, <1>5 DEF GotStream, BroadcastsOK
<1>7. ASSUME NEW r \in Readers PROVE GotReader(r)
  <2>1. box[r] \in Seq(FrameItems) /\ Framed(box[r], written[r].id)
    BY SessionReader
  <2> QED BY <1>1, <1>2, <2>1 DEF GotReader
<1>8. box' = [r \in Readers |-> box'[r]]
  BY <1>1, <1>3 DEF ConnTypes
<1> QED BY <1>6, <1>7, <1>8 DEF GotBoxes

LEMMA PastTheEnd == \A k \in Nat : k + 1 \notin 1..k
OBVIOUS

LEMMA OneMoreStream ==
    ASSUME NEW D, IsFiniteSet(D), NEW k \in Nat, k = Cardinality(D), D = 1..k, NEW i, i = k + 1
    PROVE  IsFiniteSet(D \cup {i}) /\ Cardinality(D \cup {i}) = k + 1
<1>1. k + 1 \notin 1..k
  BY PastTheEnd
<1>2. i \notin D
  BY <1>1
<1> QED BY <1>2, FS_AddElement

LEMMA RegistryTakes ==
    ASSUME NEW D, NEW q \in Seq(D), NEW full \in BOOLEAN, full => q # <<>>, NEW i, NEW z,
           z = Append(IF full THEN Tail(q) ELSE q, i)
    PROVE  z \in Seq(D \cup {i})
<1>1. PICK v : v = IF full THEN Tail(q) ELSE q
  OBVIOUS
<1>2. v \in Seq(D)
  <2>1. CASE full
    BY <1>1, <2>1
  <2>2. CASE ~full
    BY <1>1, <2>2
  <2> QED BY <2>1, <2>2
<1>3. PICK U : U = D \cup {i}
  OBVIOUS
<1>4. v \in Seq(U) /\ i \in U
  BY <1>2, <1>3, SeqGrows
<1>5. z = Append(v, i)
  BY <1>1
<1> QED BY <1>3, <1>4, <1>5

LEMMA RingRises ==
    ASSUME NEW q \in Seq(Nat), NEW a \in Nat, NEW b \in Nat, a <= b, RingOK(q, a)
    PROVE  RingOK(q, b)
<1>1. \A n \in 1..Len(q) : q[n] \in Nat
  OBVIOUS
<1> QED BY <1>1 DEF RingOK

(* A new broadcaster, i: the registry is full or not.                      *)
Registered(s, i, full) ==
    LET old == Head(registry)
        R == attached[old]
    IN  /\ i = S!Cardinality(S!Created) + 1
        /\ full <=> Len(registry) >= RegistryMax
        /\ registry' = Append(IF full THEN Tail(registry) ELSE registry, i)
        /\ IF full THEN S!Evict(old, R) ELSE UNCHANGED <<box, shut>>
        /\ attached' = [j \in S!Created \cup {i} |-> IF j = i \/ (full /\ j = old) THEN {} ELSE attached[j]]
        /\ snext' = [j \in S!Created \cup {i} |->
                       IF j = i THEN 0
                       ELSE IF full /\ j = old THEN snext[j] + S!Cardinality(R) ELSE snext[j]]
        /\ owner' = [j \in S!Created \cup {i} |-> IF j = i THEN s ELSE owner[j]]
        /\ sring' = [j \in S!Created \cup {i} |-> IF j = i THEN <<>> ELSE sring[j]]

LEMMA GetNew ==
    ASSUME SessionInv, NEW s, NEW i, NEW full \in BOOLEAN, Registered(s, i, full)
    PROVE  GotStream(i) /\ GotBoxes
<1>0. PICK old, R : old = Head(registry) /\ R = attached[old]
  OBVIOUS
<1>a. /\ i = S!Cardinality(S!Created) + 1 /\ (full <=> Len(registry) >= RegistryMax)
      /\ registry' = Append(IF full THEN Tail(registry) ELSE registry, i)
  BY DEF Registered
<1>b. IF full THEN S!Evict(old, R) ELSE UNCHANGED <<box, shut>>
  BY <1>0 DEF Registered
<1>c. /\ attached' = [j \in S!Created \cup {i} |-> IF j = i \/ (full /\ j = old) THEN {} ELSE attached[j]]
      /\ snext' = [j \in S!Created \cup {i} |->
                     IF j = i THEN 0
                     ELSE IF full /\ j = old THEN snext[j] + S!Cardinality(R) ELSE snext[j]]
      /\ owner' = [j \in S!Created \cup {i} |-> IF j = i THEN s ELSE owner[j]]
      /\ sring' = [j \in S!Created \cup {i} |-> IF j = i THEN <<>> ELSE sring[j]]
  BY <1>0 DEF Registered
<1>1. PICK k, D : k = Cardinality(S!Created) /\ D = S!Created
  OBVIOUS
<1>2. /\ k \in Nat /\ D = 1..k /\ registry \in Seq(D) /\ IsFiniteSet(D) /\ k = Cardinality(D) /\ BroadcastsOK /\ ConnTypes
      /\ snext \in [D -> Nat] /\ sring \in [D -> Seq(Nat)] /\ attached \in [D -> SUBSET Readers]
  BY <1>1, FS_CardinalityType DEF SessionInv, BroadcastsOK
<1>3. i = k + 1
  BY <1>1, <1>a, SessionCount
<1>4. i \notin D /\ D \cup {i} = 1..k + 1
  BY <1>2, <1>3
<1>5. S!Created' = D \cup {i}
  BY <1>1, <1>c DEF S!Created
<1>6. IsFiniteSet(D \cup {i}) /\ D \cup {i} = 1..Cardinality(D \cup {i})
  <2>1. IsFiniteSet(D \cup {i}) /\ Cardinality(D \cup {i}) = k + 1
    BY <1>2, <1>3, OneMoreStream
  <2> QED BY <1>4, <2>1
<1>7. full => old \in D /\ registry # <<>>
  <2>1. full => registry # <<>>
    BY <1>2, <1>a, SessionFacts
  <2> QED BY <1>0, <1>2, <2>1
<1>8. full => R \in SUBSET Readers /\ IsFiniteSet(R) /\ S!Cardinality(R) \in Nat /\ S!Cardinality(R) = Cardinality(R)
  <2>1. SUFFICES ASSUME full PROVE R \in SUBSET Readers /\ IsFiniteSet(R) /\ S!Cardinality(R) \in Nat /\ S!Cardinality(R) = Cardinality(R)
    OBVIOUS
  <2>2. R \in SUBSET Readers
    BY <1>0, <1>2, <1>7, <2>1
  <2>3. IsFiniteSet(R) /\ Cardinality(R) \in Nat
    BY <2>2, SessionFacts, FS_Subset, FS_CardinalityType
  <2> QED BY <2>2, <2>3, SessionCount
<1>9. registry' \in Seq(D \cup {i})
  BY <1>2, <1>7, <1>a, RegistryTakes
<1>10. /\ \A j \in D : j # i /\ snext[j] \in Nat /\ sring[j] \in Seq(Nat) /\ attached[j] \in SUBSET Readers
  BY <1>2, <1>4
<1>11. /\ snext'[i] = 0 /\ snext' = [j \in D \cup {i} |-> snext'[j]]
       /\ \A j \in D : snext'[j] = IF full /\ j = old THEN snext[j] + S!Cardinality(R) ELSE snext[j]
  BY <1>1, <1>10, <1>c
<1>12. \A j \in D : snext'[j] \in Nat /\ snext[j] <= snext'[j]
  BY <1>8, <1>10, <1>11
<1>13. snext' \in [D \cup {i} -> Nat]
  <2>1. \A j \in D \cup {i} : snext'[j] \in Nat
    BY <1>11, <1>12
  <2> QED BY <1>11, <2>1
<1>14. sring' \in [D \cup {i} -> Seq(Nat)] /\ sring'[i] = <<>> /\ \A j \in D : sring'[j] = sring[j]
  <2>1. sring' = [j \in D \cup {i} |-> IF j = i THEN <<>> ELSE sring[j]]
    BY <1>1, <1>c
  <2>2. <<>> \in Seq(Nat)
    OBVIOUS
  <2> QED BY <1>10, <2>1, <2>2
<1>15. /\ attached' \in [D \cup {i} -> SUBSET Readers] /\ attached'[i] = {}
       /\ \A j \in D : attached'[j] = IF full /\ j = old THEN {} ELSE attached[j]
  BY <1>1, <1>10, <1>c
<1>16. \A j \in D \cup {i} : RingOK(sring'[j], snext'[j])
  <2>1. RingOK(sring'[i], snext'[i])
    BY <1>14 DEF RingOK, Ascending
  <2>2. ASSUME NEW j \in D PROVE RingOK(sring'[j], snext'[j])
    <3>1. PICK q, a, b : q = sring[j] /\ a = snext[j] /\ b = snext'[j]
      OBVIOUS
    <3>2. RingOK(q, a) /\ q \in Seq(Nat) /\ a \in Nat /\ b \in Nat /\ a <= b
      BY <1>1, <1>2, <1>10, <1>12, <3>1 DEF BroadcastsOK
    <3>4. RingOK(q, b)
      BY <3>2, RingRises
    <3> QED BY <1>14, <3>1, <3>4
  <2> QED BY <2>1, <2>2
<1>17. GotStream(i)
  BY <1>1, <1>5, <1>6, <1>9, <1>12, <1>13, <1>14, <1>15, <1>16 DEF GotStream
<1>18. ASSUME NEW r \in Readers PROVE GotReader(r)
  <2>1. PICK b, w : b = box[r] /\ w = written[r].id
    OBVIOUS
  <2>2. /\ ConnKept(r) /\ b \in Seq(FrameItems) /\ w \in Nat /\ Framed(b, w)
    BY <2>1, SessionReader
  <2>3. CASE ~(full /\ r \in R)
    <3>1. box'[r] = b
      BY <1>b, <2>1, <2>3 DEF S!Evict
    <3>2. \A j \in D \cup {i} : r \in attached'[j] => j \in D /\ r \in attached[j]
      BY <1>15
    <3> QED BY <1>1, <1>5, <2>1, <2>2, <3>1, <3>2 DEF GotReader
  <2>4. CASE full /\ r \in R
    <3>1. PICK m, top : m = snext[old] + S!Rank(r, R) /\ top = snext[old]
      OBVIOUS
    <3>2. old \in D /\ top \in Nat /\ r \in attached[old] /\ IsFiniteSet(R)
      BY <1>0, <1>7, <1>8, <1>10, <2>4, <3>1
    <3>3. m \in Nat /\ m > top
      BY <2>4, <3>1, <3>2, RankIs
    <3>4. w <= top /\ Within(b, top)
      BY <1>1, <2>1, <2>2, <3>1, <3>2 DEF ConnKept
    <3>5. box'[r] = S!Put(S!Put(b, S!OverrunAt(m)), S!Sentinel)
      BY <1>b, <2>1, <2>4, <3>1 DEF S!Evict
    <3>6. box'[r] \in Seq(FrameItems) /\ Framed(box'[r], w)
      BY <2>2, <3>2, <3>3, <3>4, <3>5, ToldLast
    <3>7. \A j \in D : j # old => r \notin attached[j]
      BY <1>1, <2>2, <3>2 DEF ConnKept
    <3>8. \A j \in D \cup {i} : r \notin attached'[j]
      BY <1>15, <2>4, <3>7
    <3> QED BY <1>1, <1>5, <2>1, <3>2, <3>6, <3>8 DEF GotReader
  <2> QED BY <2>3, <2>4
<1>19. box' = [r \in Readers |-> box'[r]]
  BY <1>2, <1>b DEF S!Evict, ConnTypes
<1> QED BY <1>17, <1>18, <1>19 DEF GotBoxes

LEMMA GetIs ==
    ASSUME SessionInv, NEW s, NEW i, S!Get(s, i)
    PROVE  GotStream(i) /\ GotBoxes
<1>1. CASE \E n \in DOMAIN registry : registry[n] = i /\ owner[i] = s /\ UNCHANGED <<S!streamState, box, shut>>
  BY <1>1, GetOld
<1>2. CASE ~(\E n \in DOMAIN registry : registry[n] = i /\ owner[i] = s /\ UNCHANGED <<S!streamState, box, shut>>)
  <2>1. PICK full \in BOOLEAN : full <=> Len(registry) >= RegistryMax
    OBVIOUS
  <2>2. Registered(s, i, full)
    <3>1. CASE full
      BY <1>2, <2>1, <3>1 DEF S!Get, Registered
    <3>2. CASE ~full
      BY <1>2, <2>1, <3>2 DEF S!Get, Registered
    <3> QED BY <3>1, <3>2
  <2> QED BY <2>2, GetNew
<1> QED BY <1>1, <1>2

LEMMA GotKeeps ==
    ASSUME SessionInv, NEW i, GotStream(i), GotBoxes, NEW r \in Readers,
           rpc'[r] = rpc[r], on'[r] = on[r], backlog'[r] = backlog[r], written'[r] = written[r]
    PROVE  ConnKept(r)'
<1>1. GotReader(r)
  BY DEF GotBoxes
<1>2. /\ S!Created \subseteq S!Created' /\ snext' \in [S!Created' -> Nat] /\ \A j \in S!Created : snext[j] <= snext'[j]
  BY DEF GotStream
<1>3. /\ \A j \in S!Created' : r \in attached'[j] => j \in S!Created /\ r \in attached[j] /\ box'[r] = box[r]
      /\ Framed(box'[r], written[r].id)
      /\ box'[r] = box[r] \/ \E j \in S!Created : r \in attached[j]
  BY <1>1 DEF GotReader
<1> QED BY <1>2, <1>3, ConnMoves

LEMMA GotPublisher ==
    ASSUME NEW i, GotStream(i), publisher' \in [StreamSessions -> S!Created' \cup {0}]
    PROVE  BroadcastsOK'
BY DEF GotStream, BroadcastsOK, RingOK

LEMMA GotTypes ==
    ASSUME GotBoxes
    PROVE  box' \in [Readers -> Seq(FrameItems)]
<1>1. box' = [r \in Readers |-> box'[r]] /\ \A r \in Readers : box'[r] \in Seq(FrameItems)
  BY DEF GotBoxes, GotReader
<1> QED BY <1>1

LEMMA BeginTurnKeeps ==
    ASSUME SessionInv, NEW s \in StreamSessions, S!BeginTurn(s)
    PROVE  SessionInv'
<1>1. PICK i : S!Get(s, i) /\ publisher' = [publisher EXCEPT ![s] = i]
  BY DEF S!BeginTurn
<1>2. GotStream(i) /\ GotBoxes
  BY <1>1, GetIs
<1>3. rpc' = rpc /\ on' = on /\ backlog' = backlog /\ resumeAt' = resumeAt /\ written' = written /\ slots' = slots
  BY DEF S!BeginTurn, S!readerState
<1>4. publisher' \in [StreamSessions -> S!Created' \cup {0}]
  <2>1. publisher \in [StreamSessions -> S!Created \cup {0}]
    BY DEF SessionInv, BroadcastsOK
  <2>2. S!Created \subseteq S!Created' /\ i \in S!Created'
    BY <1>2 DEF GotStream
  <2> QED BY <1>1, <2>1, <2>2
<1>5. BroadcastsOK'
  BY <1>2, <1>4, GotPublisher
<1>6. ConnTypes'
  <2>1. box' \in [Readers -> Seq(FrameItems)]
    BY <1>2, GotTypes
  <2> QED BY <1>3, <2>1 DEF SessionInv, ConnTypes, OpenStreams
<1>7. ASSUME NEW r \in Readers PROVE ConnKept(r)'
  BY <1>2, <1>3, GotKeeps
<1> QED BY <1>5, <1>6, <1>7 DEF SessionInv

(* The frames of a resumed stream.                                         *)
LEMMA SessionReplayIs ==
    ASSUME NEW i, GotStream(i), NEW last \in Nat, NEW z, z = S!ReplayFrom(i, last)
    PROVE  z \in Seq(Nat) /\ Replayed(z, 0, snext'[i])
<1>1. PICK q, top : q = sring'[i] /\ top = snext'[i]
  OBVIOUS
<1>2. q \in Seq(Nat) /\ top \in Nat /\ RingOK(q, top)
  BY <1>1 DEF GotStream
<1>3. CASE last = 0
  <2>1. z = <<>>
    BY <1>3 DEF S!ReplayFrom
  <2> QED BY <2>1 DEF Replayed, Ascending
<1>4. CASE last # 0
  <2>1. PICK T : T = {n \in Nat : n > last}
    OBVIOUS
  <2>2. z = CopyOf(q, T)
    <3>1. z = S!Kept(q, T)
      BY <1>1, <1>4, <2>1 DEF S!ReplayFrom
    <3>2. S!Kept(q, T) = CopyOf(q, T)
      BY DEF S!Kept, CopyOf, S!FoldLeft, FoldLeft, S!MapThenFoldSet, MapThenFoldSet, S!Max, Max
    <3> QED BY <3>1, <3>2
  <2>3. z \in Seq(Nat) /\ Copied(z, q, T, Len(q))
    BY <1>2, <2>2, CopyIs
  <2>4. \A j \in 1..Len(z) : \E n \in 1..Len(q) : z[j] = q[n] /\ q[n] \in T
    BY <2>3 DEF Copied
  <2>5. \A n \in 1..Len(q) : q[n] <= top /\ (q[n] \in T => 0 < q[n])
    BY <1>2, <1>4, <2>1 DEF RingOK
  <2>6. \A j \in 1..Len(z) : 0 < z[j] /\ z[j] <= top
    BY <2>4, <2>5
  <2>7. Ascending(z)
    BY <1>2, <2>3 DEF Copied, RingOK
  <2> QED BY <1>1, <2>3, <2>6, <2>7 DEF Replayed
<1> QED BY <1>3, <1>4

LEMMA SessionOpenKeeps ==
    ASSUME SessionInv, NEW r \in Readers, S!Open(r)
    PROVE  SessionInv'
<1>1. PICK s, i : i \in S!Streams /\ S!Get(s, i) /\ on' = [on EXCEPT ![r] = i]
                  /\ backlog' = [backlog EXCEPT ![r] = S!ReplayFrom(i, resumeAt[r])]
  BY DEF S!Open
<1>2. GotStream(i) /\ GotBoxes
  BY <1>1, GetIs
<1>3. /\ rpc[r] = "off" /\ slots' = slots + 1 /\ rpc' = [rpc EXCEPT ![r] = "opened"]
      /\ publisher' = publisher /\ resumeAt' = resumeAt /\ written' = written
  BY DEF S!Open
<1>4. ConnTypes /\ ConnKept(r) /\ resumeAt[r] \in Nat /\ i \in Nat
  BY <1>1, SessionReader, SessionFacts DEF SessionInv, S!Streams
<1>5. PICK z : z = S!ReplayFrom(i, resumeAt[r])
  OBVIOUS
<1>6. z \in Seq(Nat) /\ Replayed(z, 0, snext'[i])
  BY <1>2, <1>4, <1>5, SessionReplayIs
<1>7. /\ on'[r] = i /\ backlog'[r] = z /\ rpc'[r] = "opened"
      /\ \A x \in Readers : x # r => rpc'[x] = rpc[x] /\ on'[x] = on[x] /\ backlog'[x] = backlog[x] /\ written'[x] = written[x]
  BY <1>1, <1>3, <1>4, <1>5 DEF ConnTypes
<1>8. BroadcastsOK'
  <2>1. publisher \in [StreamSessions -> S!Created \cup {0}] /\ S!Created \subseteq S!Created'
    BY <1>2 DEF SessionInv, BroadcastsOK, GotStream
  <2>2. publisher' \in [StreamSessions -> S!Created' \cup {0}]
    BY <1>3, <2>1
  <2> QED BY <1>2, <2>2, GotPublisher
<1>9. ConnTypes'
  <2>1. box' \in [Readers -> Seq(FrameItems)]
    BY <1>2, GotTypes
  <2>2. OpenStreams' = OpenStreams \cup {r}
    BY <1>7 DEF OpenStreams
  <2>3. r \notin OpenStreams /\ IsFiniteSet(OpenStreams) /\ slots \in Nat /\ slots = Cardinality(OpenStreams)
    BY <1>3, OpenCounted DEF OpenStreams
  <2>4. slots' = Cardinality(OpenStreams')
    BY <1>3, <2>2, <2>3, FS_AddElement
  <2>5. backlog' \in [Readers -> Seq(Nat)] /\ on' \in [Readers -> Nat]
    BY <1>1, <1>4, <1>5, <1>6 DEF ConnTypes
  <2>6. rpc' \in [Readers -> {"off", "opened", "live", "sending", "kept"}]
    BY <1>3, <1>4 DEF ConnTypes
  <2> QED BY <1>3, <1>4, <2>1, <2>4, <2>5, <2>6 DEF ConnTypes
<1>10. ConnKept(r)'
  <2>1. /\ written[r] = S!Sentinel /\ box[r] = <<>> /\ \A j \in S!Created : r \notin attached[j]
    BY <1>3, <1>4 DEF ConnKept
  <2>2. box'[r] = <<>> /\ \A j \in S!Created' : r \notin attached'[j]
    BY <1>2, <2>1 DEF GotBoxes, GotReader
  <2>3. written'[r].id = 0
    BY <1>3, <2>1, FrameKinds
  <2>4. i \in S!Created' /\ snext'[i] \in Nat
    BY <1>2 DEF GotStream
  <2>5. Framed(<<>>, 0)
    BY DEF Framed
  <2> QED BY <1>6, <1>7, <2>2, <2>3, <2>4, <2>5 DEF ConnKept, Framed, Replayed
<1>11. ASSUME NEW x \in Readers, x # r PROVE ConnKept(x)'
  BY <1>2, <1>7, <1>11, GotKeeps
<1> QED BY <1>8, <1>9, <1>10, <1>11 DEF SessionInv

LEMMA SessionNext ==
    ASSUME SessionInv, [S!SSNext]_ssvars
    PROVE  SessionInv'
<1>1. CASE UNCHANGED ssvars
  BY <1>1, SessionStutters
<1>2. CASE S!Sweep \/ S!STick
  BY <1>2, SweepKeeps, SessionTickKeeps
<1>3. ASSUME NEW s \in StreamSessions, S!BeginTurn(s) \/ S!EndTurn(s) \/ S!Publish(s) PROVE SessionInv'
  BY <1>3, BeginTurnKeeps, EndTurnKeeps, SessionPublishKeeps
<1>4. ASSUME NEW r \in Readers, S!Open(r) \/ S!Replay(r) \/ S!Subscribe(r) \/ S!Receive(r) PROVE SessionInv'
  BY <1>4, SessionOpenKeeps, SessionReplayKeeps, SubscribeKeeps, ReceiveKeeps
<1>5. ASSUME NEW r \in Readers, S!Sent(r) \/ S!Keepalive(r) PROVE SessionInv'
  BY <1>5, SentKeeps, KeepaliveKeeps
<1>6. ASSUME NEW r \in Readers, S!Stopped(r) \/ S!Disconnect(r) PROVE SessionInv'
  <2>1. rpc[r] # "off" /\ S!Leave(r)
    BY <1>6 DEF S!Stopped, S!Disconnect
  <2> QED BY <2>1, SessionLeaveKeeps
<1> QED BY <1>1, <1>2, <1>3, <1>4, <1>5, <1>6 DEF S!SSNext

LEMMA SessionIs == SessionInv => S!FramesAscend /\ S!SlotsExact
<1> SUFFICES ASSUME SessionInv PROVE S!FramesAscend /\ S!SlotsExact
  OBVIOUS
<1>1. S!SlotsExact
  <2>1. slots = Cardinality({r \in Readers : rpc[r] # "off"})
    BY DEF SessionInv, ConnTypes, OpenStreams
  <2> QED BY <2>1, SessionCount DEF S!SlotsExact
<1>2. S!FramesAscend
  <2>1. SUFFICES ASSUME NEW r \in Readers, rpc[r] # "off", NEW z,
                        z = [n \in 1..Len(backlog[r]) |-> S!Chunk(backlog[r][n])] \o box[r]
                 PROVE  Framed(z, written[r].id)
    BY DEF S!FramesAscend, Framed
  <2>2. PICK q, b, w : q = backlog[r] /\ b = box[r] /\ w = written[r].id
    OBVIOUS
  <2>3. q \in Seq(Nat) /\ b \in Seq(FrameItems) /\ w \in Nat /\ ConnKept(r) /\ Framed(b, w)
    BY <2>2, SessionReader
  <2>4. CASE rpc[r] # "opened"
    <3>1. q = <<>>
      BY <2>2, <2>3, <2>4 DEF ConnKept
    <3>2. [n \in 1..Len(q) |-> S!Chunk(q[n])] = <<>>
      BY <3>1
    <3>3. z = b
      <4>1. z = <<>> \o b
        BY <2>1, <2>2, <3>2
      <4>2. PICK T : T = FrameItems
        OBVIOUS
      <4>3. b \in Seq(T)
        BY <2>3, <4>2
      <4>4. <<>> \o b = b
        BY <4>3
      <4> QED BY <4>1, <4>4
    <3> QED BY <2>2, <2>3, <3>3
  <2>5. CASE rpc[r] = "opened"
    <3>1. b = <<>> /\ Replayed(q, w, snext[on[r]])
      BY <2>2, <2>3, <2>5 DEF ConnKept
    <3>2. PICK c : c = [n \in 1..Len(q) |-> S!Chunk(q[n])]
      OBVIOUS
    <3>3. \A n \in 1..Len(q) : q[n] \in Nat /\ c[n] \in FrameItems /\ c[n].id = q[n]
      <4>1. \A n \in 1..Len(q) : q[n] \in Nat /\ c[n] = S!Chunk(q[n])
        BY <2>3, <3>2
      <4> QED BY <4>1, FrameKinds
    <3>4. Len(q) \in Nat /\ c \in Seq(FrameItems) /\ Len(c) = Len(q)
      BY <2>3, <3>2, <3>3
    <3>5. z = c
      BY <2>1, <2>2, <3>1, <3>2, <3>4
    <3>6. ASSUME NEW n \in 1..Len(c)
          PROVE  w < c[n].id /\ \A m \in 1..n - 1 : c[m].id < c[n].id
      <4>1. n \in 1..Len(q) /\ \A m \in 1..n - 1 : m \in 1..Len(q) /\ m < n
        BY <3>4
      <4>2. w < q[n] /\ \A m \in 1..n - 1 : q[m] < q[n]
        BY <3>1, <4>1 DEF Replayed, Ascending
      <4> QED BY <3>3, <4>1, <4>2
    <3> QED BY <2>2, <3>5, <3>6 DEF Framed
  <2> QED BY <2>4, <2>5
<1> QED BY <1>1, <1>2

-----------------------------------------------------------------------------
LEMMA StreamsStart == ChannelsInit => FeedInv /\ SessionInv
BY FeedStarts, SessionStarts DEF ChannelsInit

LEMMA StreamsNext ==
    FeedInv /\ SessionInv /\ [ChannelsNext]_<<focus, vars, ssvars, whvars, hpvars, trvars>>
      => FeedInv' /\ SessionInv'
<1> SUFFICES ASSUME FeedInv, SessionInv, [ChannelsNext]_<<focus, vars, ssvars, whvars, hpvars, trvars>>
             PROVE  FeedInv' /\ SessionInv'
  OBVIOUS
<1>1. [Next]_vars /\ [S!SSNext]_ssvars
  BY DEF ChannelsNext
<1> QED BY <1>1, FeedNext, SessionNext

(* Readers of both streams are told the truth, for any number of readers,  *)
(* any sizes of ring and queue, and any mix of publishing, eviction,       *)
(* disconnects, reconnects and restarts (events.py publish/_evict_slow,    *)
(* events_stream_handler, session_stream.py publish/_fanout and handler):  *)
(* a connection that has not been evicted loses no event, what is pending  *)
(* is in order, and a caller's slots are counted exactly.                  *)
THEOREM StreamsTruthfulHolds == ChannelsSpec => []StreamsTruthful
<1>1. FeedInv /\ SessionInv => StreamsTruthful
  BY FeedIs, SessionIs DEF StreamsTruthful
<1> QED BY <1>1, StreamsStart, StreamsNext, PTL DEF ChannelsSpec
=============================================================================
