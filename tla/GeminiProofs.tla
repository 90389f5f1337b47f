---------------------------- MODULE GeminiProofs ----------------------------
(* Proofs about the gemini backend: the sessions (GeminiSessions) for any  *)
(* requests, sessions, LRU size and number of retries, and the stacks of   *)
(* MCP servers (McpStacks) for any requests, servers and number of         *)
(* reloads.                                                                *)
EXTENDS MCGemini, FiniteSetTheorems, TLAPS

-----------------------------------------------------------------------------
(* The session lock: the inductive invariant.                              *)

Referring(of, l) == {r \in Reqs : of[r] = l}

LockTypes ==
    /\ pc \in [Reqs -> Pcs]
    /\ entry \in [Sids -> Reqs \cup {NoOne}]
    /\ lockOf \in [Reqs -> Reqs \cup {NoOne}]
    /\ refs \in [Reqs -> Nat]
    /\ owner \in [Reqs -> Reqs \cup {NoOne}]

(* A request in run_query refers to the lock that the table has for its    *)
(* session, and to none otherwise: the entry is never replaced under it.   *)
LooksUpEntry ==
    \A r \in Reqs :
        /\ lockOf[r] # NoOne <=> pc[r] \in Waiting
        /\ pc[r] \in Waiting => lockOf[r] = entry[S(r)]

(* The reference count is exact, an entry has at least one reference and   *)
(* belongs to the session of the request that made it.                     *)
RefsExact ==
    /\ \A l \in Reqs : IsFiniteSet(Referring(lockOf, l)) /\ refs[l] = Cardinality(Referring(lockOf, l))
    /\ \A s \in Sids : entry[s] # NoOne => S(entry[s]) = s /\ Referring(lockOf, entry[s]) # {}

(* A request between its lock's acquire and release is the owner. *)
InsideOwns == \A r \in Reqs : pc[r] \in Inside => owner[lockOf[r]] = r

LockInv == LockTypes /\ LooksUpEntry /\ RefsExact /\ InsideOwns

(* At most one request of a session is inside its lock. *)
LEMMA OneInside == LockInv => OneTurnAtATime
<1> SUFFICES ASSUME LockInv, NEW r \in Reqs, NEW q \in Reqs, S(r) = S(q),
                    pc[r] \in Inside, pc[q] \in Inside
             PROVE  r = q
  BY DEF OneTurnAtATime
<1>1. pc[r] \in Waiting /\ pc[q] \in Waiting
  BY DEF Inside, Waiting
<1>2. lockOf[r] = lockOf[q]
  BY <1>1 DEF LockInv, LooksUpEntry
<1>3. owner[lockOf[r]] = r /\ owner[lockOf[q]] = q
  BY DEF LockInv, InsideOwns
<1> QED BY <1>2, <1>3

(* A lock in the table has a request of its session in run_query. *)
LEMMA EntryHasRequest == LockInv => LocksReclaimed
<1> SUFFICES ASSUME LockInv, NEW s \in Sids, entry[s] # NoOne
             PROVE  \E r \in Reqs : S(r) = s /\ pc[r] \in Waiting
  BY DEF LocksReclaimed
<1>1. PICK r \in Reqs : lockOf[r] = entry[s]
  BY DEF LockInv, RefsExact, Referring
<1>2. pc[r] \in Waiting /\ entry[S(r)] = entry[s] /\ S(r) \in Sids
  BY <1>1 DEF LockInv, LooksUpEntry, Sids, S
<1>3. S(entry[S(r)]) = S(r) /\ S(entry[s]) = s
  BY <1>2 DEF LockInv, RefsExact
<1> QED BY <1>2, <1>3

-----------------------------------------------------------------------------
(* The steps of the lock. *)

(* A step in which r moves within run_query, or outside of it, and that    *)
(* leaves the table alone.                                                 *)
LEMMA MoveKeepsLocks ==
    ASSUME LockInv, NEW r \in Reqs, NEW to \in Pcs,
           pc' = [pc EXCEPT ![r] = to],
           UNCHANGED <<entry, lockOf, refs>>,
           pc[r] \in Waiting <=> to \in Waiting,
           \/ owner' = owner /\ (to \in Inside => pc[r] \in Inside)
           \/ owner' = Unlocked(r) /\ to \notin Inside
    PROVE  LockInv'
<1>1. LockTypes'
  BY DEF LockInv, LockTypes, Unlocked
<1>2. LooksUpEntry'
  BY DEF LockInv, LockTypes, LooksUpEntry
<1>3. RefsExact'
  BY DEF LockInv, RefsExact, Referring
<1>4. InsideOwns'
  <2> SUFFICES ASSUME NEW q \in Reqs, pc'[q] \in Inside PROVE owner'[lockOf[q]] = q
    BY DEF InsideOwns
  <2>1. pc[q] \in Inside
    BY DEF LockInv, LockTypes
  <2>2. owner[lockOf[q]] = q
    BY <2>1 DEF LockInv, InsideOwns
  <2>3. CASE owner' = owner
    BY <2>2, <2>3
  <2>4. CASE owner' = Unlocked(r) /\ to \notin Inside
    <3>1. q # r
      BY <2>4 DEF LockInv, LockTypes
    <3>2. lockOf[q] # lockOf[r] \/ owner[lockOf[r]] # r
      BY <2>2, <3>1
    <3> QED BY <2>2, <2>4, <3>2 DEF Unlocked, LockInv, LockTypes
  <2> QED BY <2>3, <2>4
<1> QED BY <1>1, <1>2, <1>3, <1>4 DEF LockInv

(* _acquire_session_lock. *)
LEMMA BeginKeepsLocks ==
    ASSUME LockInv, NEW r \in Reqs, Begin(r)
    PROVE  LockInv'
<1> DEFINE l == IF entry[S(r)] = NoOne THEN r ELSE entry[S(r)]
<1>1. /\ pc[r] = "new"
      /\ entry' = [entry EXCEPT ![S(r)] = l]
      /\ lockOf' = [lockOf EXCEPT ![r] = l]
      /\ refs' = [refs EXCEPT ![l] = @ + 1]
      /\ pc' = [pc EXCEPT ![r] = "queued"]
      /\ owner' = owner
  BY DEF Begin
<1>2. S(r) \in Sids /\ l \in Reqs /\ l # NoOne /\ S(l) = S(r)
  BY GeminiAssumption DEF LockInv, LockTypes, RefsExact, Sids, S
<1>3. lockOf[r] = NoOne
  BY <1>1 DEF LockInv, LooksUpEntry, Waiting
<1> HIDE DEF l
<1>4. LockTypes'
  BY <1>1, <1>2 DEF LockInv, LockTypes, Pcs, Waiting
<1>5. Referring(lockOf', l) = Referring(lockOf, l) \cup {r} /\ r \notin Referring(lockOf, l)
  BY <1>1, <1>2, <1>3 DEF Referring, LockInv, LockTypes
<1>6. \A m \in Reqs : m # l => Referring(lockOf', m) = Referring(lockOf, m)
  BY <1>1, <1>2, <1>3, GeminiAssumption DEF Referring, LockInv, LockTypes
<1>7. IsFiniteSet(Referring(lockOf', l)) /\ Cardinality(Referring(lockOf', l)) = Cardinality(Referring(lockOf, l)) + 1
  BY <1>2, <1>5, FS_AddElement DEF LockInv, RefsExact
<1>8. RefsExact'
  <2>1. \A m \in Reqs : IsFiniteSet(Referring(lockOf', m)) /\ refs'[m] = Cardinality(Referring(lockOf', m))
    BY <1>1, <1>2, <1>6, <1>7 DEF LockInv, LockTypes, RefsExact
  <2>2. ASSUME NEW s \in Sids, entry'[s] # NoOne
        PROVE  S(entry'[s]) = s /\ Referring(lockOf', entry'[s]) # {}
    <3>1. CASE s = S(r)
      BY <1>1, <1>2, <1>5, <3>1 DEF LockInv, LockTypes
    <3>2. CASE s # S(r)
      <4>1. entry'[s] = entry[s] /\ entry[s] \in Reqs
        BY <1>1, <2>2, <3>2 DEF LockInv, LockTypes
      <4>2. S(entry[s]) = s /\ Referring(lockOf, entry[s]) # {}
        BY <2>2, <4>1 DEF LockInv, RefsExact
      <4>3. entry[s] # l
        BY <1>2, <3>2, <4>2
      <4> QED BY <1>6, <4>1, <4>2, <4>3
    <3> QED BY <3>1, <3>2
  <2> QED BY <2>1, <2>2 DEF RefsExact
<1>9. LooksUpEntry'
  <2> SUFFICES ASSUME NEW q \in Reqs
               PROVE  /\ lockOf'[q] # NoOne <=> pc'[q] \in Waiting
                      /\ pc'[q] \in Waiting => lockOf'[q] = entry'[S(q)]
    BY DEF LooksUpEntry
  <2>1. CASE q = r
    BY <1>1, <1>2, <2>1 DEF LockInv, LockTypes, Waiting
  <2>2. CASE q # r
    <3>1. lockOf'[q] = lockOf[q] /\ pc'[q] = pc[q]
      BY <1>1, <2>2 DEF LockInv, LockTypes
    <3>2. pc[q] \in Waiting => entry[S(q)] # NoOne /\ lockOf[q] = entry[S(q)] /\ S(q) \in Sids
      BY DEF LockInv, LooksUpEntry, Sids, S
    <3>3. pc[q] \in Waiting => entry'[S(q)] = entry[S(q)]
      BY <1>1, <1>2, <3>2 DEF LockInv, LockTypes, l
    <3> QED BY <3>1, <3>2, <3>3 DEF LockInv, LooksUpEntry
  <2> QED BY <2>1, <2>2
<1>10. InsideOwns'
  BY <1>1 DEF LockInv, LockTypes, InsideOwns, Inside
<1> QED BY <1>4, <1>8, <1>9, <1>10 DEF LockInv

(* What dropping the reference of a request in run_query does. *)
LEMMA DropRefIs ==
    ASSUME LockInv, NEW r \in Reqs, pc[r] \in Waiting
    PROVE  /\ lockOf[r] \in Reqs /\ entry[S(r)] = lockOf[r] /\ S(r) \in Sids
           /\ DropRef(r, entry)[1] = [refs EXCEPT ![lockOf[r]] = @ - 1]
           /\ DropRef(r, entry)[2] =
                 IF refs[lockOf[r]] <= 1 THEN [entry EXCEPT ![S(r)] = NoOne] ELSE entry
<1>1. lockOf[r] \in Reqs /\ entry[S(r)] = lockOf[r] /\ S(r) \in Sids
  BY DEF LockInv, LockTypes, LooksUpEntry, Sids, S
<1> QED BY <1>1, GeminiAssumption DEF DropRef

(* Leaving run_query. *)
LEMMA LeaveKeepsLocks ==
    ASSUME LockInv, NEW r \in Reqs, NEW to \in Pcs, pc[r] \in Waiting, to \notin Waiting,
           pc' = [pc EXCEPT ![r] = to],
           lockOf' = [lockOf EXCEPT ![r] = NoOne],
           refs' = DropRef(r, entry)[1],
           entry' = DropRef(r, entry)[2],
           owner' = Unlocked(r) \/ owner' = owner
    PROVE  LockInv'
<1> DEFINE l == lockOf[r]
<1>1. l \in Reqs /\ l # NoOne /\ entry[S(r)] = l /\ S(r) \in Sids
  BY DropRefIs, GeminiAssumption
<1>2. /\ refs' = [refs EXCEPT ![l] = @ - 1]
      /\ entry' = IF refs[l] <= 1 THEN [entry EXCEPT ![S(r)] = NoOne] ELSE entry
  BY DropRefIs
<1>3. Referring(lockOf', l) = Referring(lockOf, l) \ {r} /\ r \in Referring(lockOf, l)
  BY <1>1 DEF Referring, LockInv, LockTypes
<1>4. \A m \in Reqs : m # l => Referring(lockOf', m) = Referring(lockOf, m)
  BY <1>1, GeminiAssumption DEF Referring, LockInv, LockTypes
<1>5. /\ IsFiniteSet(Referring(lockOf', l))
      /\ Cardinality(Referring(lockOf', l)) = Cardinality(Referring(lockOf, l)) - 1
  <2>1. IsFiniteSet(Referring(lockOf, l))
    BY <1>1 DEF LockInv, RefsExact
  <2> QED BY <1>3, <2>1, FS_RemoveElement
<1>6. /\ Cardinality(Referring(lockOf', l)) \in Nat
      /\ refs[l] = Cardinality(Referring(lockOf', l)) + 1
      /\ refs'[l] = Cardinality(Referring(lockOf', l))
  BY <1>1, <1>2, <1>5, FS_CardinalityType DEF LockInv, LockTypes, RefsExact
<1>7. LockTypes'
  <2>1. refs' \in [Reqs -> Nat]
    BY <1>1, <1>2, <1>6 DEF LockInv, LockTypes
  <2> QED BY <1>1, <1>2, <2>1 DEF LockInv, LockTypes, Unlocked
<1>8. refs[l] <= 1 <=> Referring(lockOf', l) = {}
  BY <1>5, <1>6, FS_EmptySet
<1>9. RefsExact'
  <2>1. \A m \in Reqs : IsFiniteSet(Referring(lockOf', m)) /\ refs'[m] = Cardinality(Referring(lockOf', m))
    BY <1>1, <1>2, <1>4, <1>5, <1>6 DEF LockInv, LockTypes, RefsExact
  <2>2. ASSUME NEW s \in Sids, entry'[s] # NoOne
        PROVE  S(entry'[s]) = s /\ Referring(lockOf', entry'[s]) # {}
    <3>1. entry'[s] = entry[s] /\ entry[s] \in Reqs
      BY <1>1, <1>2, <2>2 DEF LockInv, LockTypes
    <3>2. S(entry[s]) = s /\ Referring(lockOf, entry[s]) # {}
      BY <2>2, <3>1 DEF LockInv, RefsExact
    <3>3. CASE s = S(r)
      BY <1>1, <1>2, <1>8, <2>2, <3>1, <3>2, <3>3 DEF LockInv, LockTypes
    <3>4. CASE s # S(r)
      <4>1. S(l) = S(r)
        BY <1>1 DEF LockInv, RefsExact
      <4>2. entry[s] # l
        BY <3>2, <3>4, <4>1
      <4> QED BY <1>4, <3>1, <3>2, <4>2
    <3> QED BY <3>3, <3>4
  <2> QED BY <2>1, <2>2 DEF RefsExact
<1>10. LooksUpEntry'
  <2> SUFFICES ASSUME NEW q \in Reqs
               PROVE  /\ lockOf'[q] # NoOne <=> pc'[q] \in Waiting
                      /\ pc'[q] \in Waiting => lockOf'[q] = entry'[S(q)]
    BY DEF LooksUpEntry
  <2>1. CASE q = r
    BY <2>1 DEF LockInv, LockTypes
  <2>2. CASE q # r
    <3>1. lockOf'[q] = lockOf[q] /\ pc'[q] = pc[q]
      BY <2>2 DEF LockInv, LockTypes
    <3>2. pc[q] \in Waiting => lockOf[q] = entry[S(q)] /\ S(q) \in Sids
      BY DEF LockInv, LooksUpEntry, Sids, S
    <3>3. pc[q] \in Waiting => entry'[S(q)] = entry[S(q)]
      <4> SUFFICES ASSUME pc[q] \in Waiting, S(q) = S(r) PROVE refs[l] > 1
        BY <1>1, <1>2, <3>2 DEF LockInv, LockTypes
      <4>1. lockOf'[q] = l
        BY <1>1, <3>1, <3>2
      <4>2. q \in Referring(lockOf', l)
        BY <4>1 DEF Referring
      <4>3. ~(refs[l] <= 1)
        BY <1>8, <4>2
      <4> QED BY <1>6, <4>3
    <3> QED BY <3>1, <3>2, <3>3 DEF LockInv, LooksUpEntry
  <2> QED BY <2>1, <2>2
<1>11. InsideOwns'
  <2> SUFFICES ASSUME NEW q \in Reqs, pc'[q] \in Inside PROVE owner'[lockOf'[q]] = q
    BY DEF InsideOwns
  <2>1. q # r
    BY DEF LockInv, LockTypes, Inside, Waiting
  <2>2. pc[q] \in Inside /\ lockOf'[q] = lockOf[q]
    BY <2>1 DEF LockInv, LockTypes
  <2>3. owner[lockOf[q]] = q
    BY <2>2 DEF LockInv, InsideOwns
  <2>4. lockOf[q] # lockOf[r] \/ owner[lockOf[r]] # r
    BY <2>1, <2>3
  <2>5. owner'[lockOf[q]] = owner[lockOf[q]]
    <3>1. lockOf[q] \in Reqs
      BY <2>2 DEF LockInv, LockTypes, LooksUpEntry, Inside, Waiting
    <3>2. CASE owner' = owner
      BY <3>2
    <3>3. CASE owner' = Unlocked(r)
      BY <2>4, <3>1, <3>3 DEF Unlocked, LockInv, LockTypes
    <3> QED BY <3>2, <3>3
  <2> QED BY <2>2, <2>3, <2>5
<1> QED BY <1>7, <1>9, <1>10, <1>11 DEF LockInv

(* async with entry.lock: the free lock goes to r. *)
LEMMA EnterKeepsLocks ==
    ASSUME LockInv, NEW r \in Reqs, Enter(r)
    PROVE  LockInv'
<1>1. PICK to \in {"load", "stream"} : pc' = [pc EXCEPT ![r] = to]
  BY DEF Enter
<1>2. /\ pc[r] = "queued" /\ owner[lockOf[r]] = NoOne
      /\ owner' = [owner EXCEPT ![lockOf[r]] = r]
      /\ UNCHANGED <<entry, lockOf, refs>>
  BY DEF Enter
<1>3. LockTypes'
  BY <1>1, <1>2 DEF LockInv, LockTypes, Pcs, Waiting
<1>4. LooksUpEntry'
  BY <1>1, <1>2 DEF LockInv, LockTypes, LooksUpEntry, Waiting
<1>5. RefsExact'
  BY <1>2 DEF LockInv, RefsExact, Referring
<1>6. InsideOwns'
  <2> SUFFICES ASSUME NEW q \in Reqs, pc'[q] \in Inside PROVE owner'[lockOf[q]] = q
    BY <1>2 DEF InsideOwns
  <2>1. lockOf[r] \in Reqs
    BY <1>2 DEF LockInv, LockTypes, LooksUpEntry, Waiting
  <2>2. CASE q = r
    BY <1>2, <2>1, <2>2 DEF LockInv, LockTypes
  <2>3. CASE q # r
    <3>1. pc[q] \in Inside
      BY <1>1, <2>3 DEF LockInv, LockTypes
    <3>2. owner[lockOf[q]] = q
      BY <3>1 DEF LockInv, InsideOwns
    <3>3. lockOf[q] # lockOf[r]
      BY <1>2, <3>2, GeminiAssumption
    <3> QED BY <1>2, <3>2, <3>3 DEF LockInv, LockTypes
  <2> QED BY <2>2, <2>3
<1> QED BY <1>3, <1>4, <1>5, <1>6 DEF LockInv

(* Eviction never takes the lock of a session: an entry always has a       *)
(* reference, also right after the evicting request has dropped its own.   *)
LEMMA EvictTakesNoLock ==
    ASSUME LockInv, NEW e, NEW ent \in [Sids -> Reqs \cup {NoOne}],
           \A s \in Sids : ent[s] # NoOne => ent[s] = entry[s]
    PROVE  EvictLock(e, ent) = ent
<1>1. CASE e \in Sids
  <2> SUFFICES ASSUME ent[e] # NoOne, refs[ent[e]] <= 0 PROVE FALSE
    BY DEF EvictLock
  <2>1. ent[e] = entry[e] /\ ent[e] \in Reqs /\ Referring(lockOf, entry[e]) # {}
    BY <1>1 DEF LockInv, RefsExact
  <2>2. /\ IsFiniteSet(Referring(lockOf, entry[e]))
        /\ refs[entry[e]] = Cardinality(Referring(lockOf, entry[e]))
    BY <2>1 DEF LockInv, RefsExact
  <2>3. Cardinality(Referring(lockOf, entry[e])) \in Nat
        /\ Cardinality(Referring(lockOf, entry[e])) # 0
    BY <2>1, <2>2, FS_CardinalityType, FS_EmptySet
  <2> QED BY <2>1, <2>2, <2>3
<1>2. CASE e \notin Sids
  <2>1. [ent EXCEPT ![e] = NoOne] = ent
    BY <1>2
  <2> QED BY <2>1 DEF EvictLock
<1> QED BY <1>1, <1>2

(* Promotion leaves the lock table as it was given. *)
LEMMA TrackKeepsTable ==
    ASSUME LockInv, NEW r \in Reqs, NEW ent \in [Sids -> Reqs \cup {NoOne}],
           \A s \in Sids : ent[s] # NoOne => ent[s] = entry[s],
           Track(r, S(r), ent)
    PROVE  entry' = ent
BY EvictTakesNoLock DEF Track

-----------------------------------------------------------------------------
(* The history files: the inductive invariant.                             *)

FileTypes ==
    /\ file \in [Sids -> Seq(Reqs \cup {NoOne})]
    /\ hist \in [Reqs -> Seq(Reqs \cup {NoOne})]
    /\ told \in [Sids -> Reqs \cup {NoOne}]
    /\ saving \in [Sids -> Reqs \cup {NoOne}]

Unsaved(s) == told[s] # NoOne /\ told[s] \notin Range(file[s])

(* A session whose file lacks the last answered turn is marked, and nobody *)
(* is inside its lock: the next to enter starts fresh.                     *)
UnsavedIsMarked ==
    \A s \in Sids : Unsaved(s) =>
        s \in failed /\ \A r \in Reqs : S(r) = s => pc[r] \notin Inside

(* An announced save is under way, so a clean-up that lifts the mark while *)
(* it waits for one does so with a request inside the lock.                *)
SavesAnnounced ==
    \A s \in Sids : saving[s] # NoOne => S(saving[s]) = s /\ pc[saving[s]] \in Saving

(* What a save is about to publish holds the turn that was answered. *)
TurnInHistory == \A r \in Reqs : pc[r] \in Saving => r \in Range(hist[r])

FileInv == FileTypes /\ UnsavedIsMarked /\ SavesAnnounced /\ TurnInHistory /\ NoSilentGap

SessionInv == LockInv /\ FileInv

LEMMA EmptyHistory == <<>> \in Seq(Reqs \cup {NoOne})
OBVIOUS

LEMMA SidOf == ASSUME NEW r \in Reqs PROVE S(r) \in Sids
BY DEF S, Sids

(* A move that neither enters the lock nor starts a save, with no file     *)
(* touched and no mark lifted.                                             *)
LEMMA MoveKeepsFiles ==
    ASSUME LockTypes, FileInv, NEW r \in Reqs, NEW to \in Pcs,
           pc' = [pc EXCEPT ![r] = to],
           to \in Inside => pc[r] \in Inside,
           to \in Saving <=> pc[r] \in Saving,
           UNCHANGED <<file, told, saving, gap>>, failed \subseteq failed',
           hist' = hist \/ (hist' = [hist EXCEPT ![r] = <<>>] /\ to \notin Saving)
    PROVE  FileInv'
<1>1. FileTypes'
  BY EmptyHistory DEF FileInv, FileTypes
<1>2. UnsavedIsMarked'
  BY DEF FileInv, UnsavedIsMarked, Unsaved, LockTypes
<1>3. SavesAnnounced'
  BY DEF FileInv, FileTypes, SavesAnnounced, LockTypes
<1>4. TurnInHistory'
  BY DEF FileInv, FileTypes, TurnInHistory, LockTypes
<1> QED BY <1>1, <1>2, <1>3, <1>4 DEF FileInv, NoSilentGap

(* The end of a save, published, given up or cancelled: r leaves the lock  *)
(* and its announcement goes.                                              *)
LEMMA SaveOverKeepsFiles ==
    ASSUME LockTypes, FileTypes, SavesAnnounced, TurnInHistory,
           NEW r \in Reqs, NEW to \in Pcs \ Inside,
           pc' = [pc EXCEPT ![r] = to], SaveOver(r)
    PROVE  /\ saving' \in [Sids -> Reqs \cup {NoOne}]
           /\ hist' \in [Reqs -> Seq(Reqs \cup {NoOne})]
           /\ SavesAnnounced' /\ TurnInHistory'
<1>1. saving' \in [Sids -> Reqs \cup {NoOne}] /\ hist' \in [Reqs -> Seq(Reqs \cup {NoOne})]
  BY EmptyHistory DEF FileTypes, SaveOver
<1>2. SavesAnnounced'
  <2> SUFFICES ASSUME NEW s \in Sids, saving'[s] # NoOne
               PROVE  S(saving'[s]) = s /\ pc'[saving'[s]] \in Saving
    BY DEF SavesAnnounced
  <2>1. saving'[s] = saving[s] /\ saving[s] \in Reqs
    BY DEF SaveOver, FileTypes
  <2>2. S(saving[s]) = s /\ pc[saving[s]] \in Saving
    BY <2>1 DEF SavesAnnounced
  <2>3. saving[s] # r
    BY <2>1, <2>2 DEF SaveOver, FileTypes
  <2> QED BY <2>1, <2>2, <2>3 DEF LockTypes
<1>3. TurnInHistory'
  <2> SUFFICES ASSUME NEW q \in Reqs, pc'[q] \in Saving PROVE q \in Range(hist'[q])
    BY DEF TurnInHistory
  <2>1. q # r
    BY DEF LockTypes, Saving, Inside
  <2> QED BY <2>1 DEF TurnInHistory, LockTypes, FileTypes, SaveOver
<1> QED BY <1>1, <1>2, <1>3

LEMMA BeginKeeps ==
    ASSUME SessionInv, NEW r \in Reqs, Begin(r)
    PROVE  SessionInv'
<1>1. LockInv'
  BY BeginKeepsLocks DEF SessionInv
<1>2. FileInv'
  <2>1. "queued" \in Pcs /\ pc[r] \notin Saving /\ pc' = [pc EXCEPT ![r] = "queued"]
    BY DEF Begin, Pcs, Waiting, Saving
  <2>2. UNCHANGED <<file, told, saving, gap, failed, hist>>
    BY DEF Begin
  <2> QED BY <2>1, <2>2, MoveKeepsFiles DEF SessionInv, LockInv, Inside, Saving
<1> QED BY <1>1, <1>2 DEF SessionInv

LEMMA EnterKeeps ==
    ASSUME SessionInv, NEW r \in Reqs, Enter(r)
    PROVE  SessionInv'
<1>1. LockInv'
  BY EnterKeepsLocks DEF SessionInv
<1>2. S(r) \in Sids
  BY SidOf
<1>3. /\ pc[r] = "queued"
      /\ \E to \in {"load", "stream"} : pc' = [pc EXCEPT ![r] = to]
      /\ UNCHANGED <<hist, failed, saving, gap>>
  BY DEF Enter
<1>4. /\ S(r) \in failed => /\ file' = [file EXCEPT ![S(r)] = <<>>]
                            /\ told' = [told EXCEPT ![S(r)] = NoOne]
      /\ S(r) \notin failed => UNCHANGED <<file, told>>
  BY DEF Enter
<1>5. FileTypes'
  BY <1>2, <1>3, <1>4, EmptyHistory DEF SessionInv, FileInv, FileTypes
<1>6. UnsavedIsMarked'
  <2> SUFFICES ASSUME NEW s \in Sids, Unsaved(s)'
               PROVE  s \in failed' /\ \A q \in Reqs : S(q) = s => pc'[q] \notin Inside
    BY DEF UnsavedIsMarked
  <2>1. s # S(r) /\ Unsaved(s)
    BY <1>4 DEF Unsaved, SessionInv, FileInv, FileTypes, UnsavedIsMarked
  <2>2. s \in failed /\ \A q \in Reqs : S(q) = s => pc[q] \notin Inside
    BY <2>1 DEF SessionInv, FileInv, UnsavedIsMarked
  <2> QED BY <1>3, <2>1, <2>2 DEF SessionInv, LockInv, LockTypes
<1>7. SavesAnnounced' /\ TurnInHistory'
  BY <1>3 DEF SessionInv, LockInv, LockTypes, FileInv, FileTypes, SavesAnnounced,
        TurnInHistory, Saving
<1> QED BY <1>1, <1>3, <1>5, <1>6, <1>7 DEF SessionInv, FileInv, NoSilentGap

(* A request inside its lock finds the last answered turn in the file. *)
LEMMA InsideIsSaved ==
    ASSUME SessionInv, NEW r \in Reqs, pc[r] \in Inside
    PROVE  ~Unsaved(S(r))
BY SidOf DEF SessionInv, FileInv, UnsavedIsMarked

LEMMA LoadKeeps ==
    ASSUME SessionInv, NEW r \in Reqs, Load(r)
    PROVE  SessionInv'
<1>1. /\ pc[r] = "load" /\ pc' = [pc EXCEPT ![r] = "stream"]
      /\ UNCHANGED <<entry, lockOf, refs, owner, file, failed, saving, told>>
      /\ hist' = [hist EXCEPT ![r] = file[S(r)]]
  BY DEF Load
<1>2. LockInv'
  BY <1>1, MoveKeepsLocks DEF SessionInv, Waiting, Inside, Pcs
<1>3. FileTypes'
  BY <1>1, SidOf DEF SessionInv, FileInv, FileTypes
<1>4. UnsavedIsMarked'
  BY <1>1 DEF SessionInv, LockInv, LockTypes, FileInv, UnsavedIsMarked, Unsaved, Inside
<1>5. SavesAnnounced' /\ TurnInHistory'
  BY <1>1 DEF SessionInv, LockInv, LockTypes, FileInv, FileTypes, SavesAnnounced,
        TurnInHistory, Saving
<1>6. gap' = gap
  <2>1. ~Unsaved(S(r)) /\ hist'[r] = file[S(r)]
    BY <1>1, InsideIsSaved DEF Inside, SessionInv, FileInv, FileTypes
  <2> QED BY <2>1 DEF Load, Unsaved
<1> QED BY <1>2, <1>3, <1>4, <1>5, <1>6 DEF SessionInv, FileInv, NoSilentGap

LEMMA StreamDoneKeeps ==
    ASSUME SessionInv, NEW r \in Reqs, StreamDone(r)
    PROVE  SessionInv'
<1>1. /\ pc[r] = "stream" /\ pc' = [pc EXCEPT ![r] = "write"]
      /\ UNCHANGED <<entry, lockOf, refs, owner, file, failed, told, gap>>
      /\ hist' = [hist EXCEPT ![r] = Append(@, r)]
      /\ saving' = [saving EXCEPT ![S(r)] = r]
  BY DEF StreamDone
<1>2. LockInv'
  BY <1>1, MoveKeepsLocks DEF SessionInv, Waiting, Inside, Pcs
<1>3. FileTypes'
  BY <1>1, SidOf DEF SessionInv, FileInv, FileTypes
<1>4. UnsavedIsMarked'
  BY <1>1 DEF SessionInv, LockInv, LockTypes, FileInv, UnsavedIsMarked, Unsaved, Inside
<1>5. SavesAnnounced'
  <2> SUFFICES ASSUME NEW s \in Sids, saving'[s] # NoOne
               PROVE  S(saving'[s]) = s /\ pc'[saving'[s]] \in Saving
    BY DEF SavesAnnounced
  <2>1. CASE s = S(r)
    BY <1>1, <2>1 DEF SessionInv, LockInv, LockTypes, FileInv, FileTypes, Saving
  <2>2. CASE s # S(r)
    <3>1. saving'[s] = saving[s] /\ saving[s] \in Reqs
      BY <1>1, <2>2 DEF SessionInv, FileInv, FileTypes
    <3>2. S(saving[s]) = s /\ pc[saving[s]] \in Saving
      BY <3>1 DEF SessionInv, FileInv, SavesAnnounced
    <3> QED BY <1>1, <3>1, <3>2 DEF SessionInv, LockInv, LockTypes, Saving
  <2> QED BY <2>1, <2>2
<1>6. TurnInHistory'
  <2> SUFFICES ASSUME NEW q \in Reqs, pc'[q] \in Saving PROVE q \in Range(hist'[q])
    BY DEF TurnInHistory
  <2>1. CASE q = r
    <3>1. hist'[r] = Append(hist[r], r) /\ hist[r] \in Seq(Reqs \cup {NoOne})
      BY <1>1 DEF SessionInv, FileInv, FileTypes
    <3>2. Len(hist[r]) + 1 \in DOMAIN hist'[r] /\ hist'[r][Len(hist[r]) + 1] = r
      BY <3>1
    <3> QED BY <2>1, <3>2 DEF Range
  <2>2. CASE q # r
    BY <1>1, <2>2 DEF SessionInv, LockInv, LockTypes, FileInv, FileTypes, TurnInHistory
  <2> QED BY <2>1, <2>2
<1> QED BY <1>1, <1>2, <1>3, <1>4, <1>5, <1>6 DEF SessionInv, FileInv, NoSilentGap

LEMMA StreamFailsKeeps ==
    ASSUME SessionInv, NEW r \in Reqs, StreamAborts(r) \/ NoClient(r)
    PROVE  SessionInv'
<1>1. PICK to \in {"budget", "error"} : pc' = [pc EXCEPT ![r] = to]
  BY DEF StreamAborts, NoClient
<1>2. /\ pc[r] = "stream" /\ LeaveQuery(r) /\ hist' = [hist EXCEPT ![r] = <<>>]
      /\ UNCHANGED <<file, saving, told, gap>> /\ failed \subseteq failed'
  BY DEF StreamAborts, NoClient
<1>3. to \in Pcs /\ to \notin Waiting /\ to \notin Inside /\ to \notin Saving
  BY DEF Pcs, Waiting, Inside, Saving
<1>4. LockInv'
  BY <1>1, <1>2, <1>3, LeaveKeepsLocks DEF SessionInv, LeaveQuery, Waiting
<1>5. FileInv'
  <2>1. pc[r] \notin Saving
    BY <1>2 DEF Saving
  <2> QED BY <1>1, <1>2, <1>3, <2>1, MoveKeepsFiles DEF SessionInv, LockInv
<1> QED BY <1>4, <1>5 DEF SessionInv

LEMMA PublishKeeps ==
    ASSUME SessionInv, NEW r \in Reqs, Publish(r)
    PROVE  SessionInv'
<1>1. /\ pc[r] = "write" /\ pc' = [pc EXCEPT ![r] = "trace"] /\ SaveOver(r)
      /\ owner' = Unlocked(r) /\ failed' = failed \ {S(r)}
      /\ UNCHANGED <<entry, lockOf, refs, gap>>
  BY DEF Publish
<1>2. LockInv'
  BY <1>1, MoveKeepsLocks DEF SessionInv, Waiting, Inside, Pcs
<1>3. /\ saving' \in [Sids -> Reqs \cup {NoOne}]
      /\ hist' \in [Reqs -> Seq(Reqs \cup {NoOne})]
      /\ SavesAnnounced' /\ TurnInHistory'
  <2>1. "trace" \in Pcs \ Inside
    BY DEF Pcs, Waiting, Inside
  <2> QED BY <1>1, <2>1, SaveOverKeepsFiles DEF SessionInv, LockInv, FileInv
<1>4. /\ file' = [file EXCEPT ![S(r)] = hist[r]] \/ file' = [file EXCEPT ![S(r)] = <<>>]
      /\ \/ told' = [told EXCEPT ![S(r)] = NoOne]
         \/ /\ told' = [told EXCEPT ![S(r)] = r]
            /\ file' = [file EXCEPT ![S(r)] = hist[r]]
  BY DEF Publish
<1>5. FileTypes'
  BY <1>3, <1>4, EmptyHistory DEF SessionInv, FileInv, FileTypes
<1>6. UnsavedIsMarked'
  <2> SUFFICES ASSUME NEW s \in Sids, Unsaved(s)'
               PROVE  s \in failed' /\ \A q \in Reqs : S(q) = s => pc'[q] \notin Inside
    BY DEF UnsavedIsMarked
  <2>1. r \in Range(hist[r])
    BY <1>1 DEF SessionInv, FileInv, TurnInHistory, Saving
  <2>2. s # S(r)
    BY <1>4, <2>1 DEF Unsaved, SessionInv, FileInv, FileTypes
  <2>3. Unsaved(s)
    BY <1>4, <2>2 DEF Unsaved, SessionInv, FileInv, FileTypes
  <2> QED BY <1>1, <2>2, <2>3 DEF SessionInv, FileInv, UnsavedIsMarked, LockInv, LockTypes
<1> QED BY <1>1, <1>2, <1>3, <1>5, <1>6 DEF SessionInv, FileInv, NoSilentGap

LEMMA GiveUpKeeps ==
    ASSUME SessionInv, NEW r \in Reqs, GiveUp(r)
    PROVE  SessionInv'
<1>1. /\ pc[r] = "write" /\ pc' = [pc EXCEPT ![r] = "trace"] /\ SaveOver(r)
      /\ owner' = Unlocked(r) /\ failed' = failed \cup {S(r)}
      /\ told' = [told EXCEPT ![S(r)] = r]
      /\ UNCHANGED <<entry, lockOf, refs, gap, file>>
  BY DEF GiveUp, MarkUnsaved
<1>2. LockInv'
  BY <1>1, MoveKeepsLocks DEF SessionInv, Waiting, Inside, Pcs
<1>3. /\ saving' \in [Sids -> Reqs \cup {NoOne}]
      /\ hist' \in [Reqs -> Seq(Reqs \cup {NoOne})]
      /\ SavesAnnounced' /\ TurnInHistory'
  <2>1. "trace" \in Pcs \ Inside
    BY DEF Pcs, Waiting, Inside
  <2> QED BY <1>1, <2>1, SaveOverKeepsFiles DEF SessionInv, LockInv, FileInv
<1>4. FileTypes'
  BY <1>1, <1>3 DEF SessionInv, FileInv, FileTypes
<1>5. UnsavedIsMarked'
  <2> SUFFICES ASSUME NEW s \in Sids, Unsaved(s)'
               PROVE  s \in failed' /\ \A q \in Reqs : S(q) = s => pc'[q] \notin Inside
    BY DEF UnsavedIsMarked
  <2>1. CASE s = S(r)
    <3>1. \A q \in Reqs : q # r /\ S(q) = s => pc[q] \notin Inside
      BY <1>1, <2>1, OneInside DEF SessionInv, OneTurnAtATime, Inside
    <3> QED BY <1>1, <2>1, <3>1 DEF SessionInv, LockInv, LockTypes, Inside
  <2>2. CASE s # S(r)
    <3>1. Unsaved(s)
      BY <1>1, <2>2 DEF Unsaved, SessionInv, FileInv, FileTypes
    <3> QED BY <1>1, <2>2, <3>1 DEF SessionInv, FileInv, UnsavedIsMarked, LockInv, LockTypes
  <2> QED BY <2>1, <2>2
<1> QED BY <1>1, <1>2, <1>3, <1>4, <1>5 DEF SessionInv, FileInv, NoSilentGap

LEMMA RetryKeeps ==
    ASSUME SessionInv, NEW r \in Reqs, WriteFails(r) \/ BackoffOver(r)
    PROVE  SessionInv'
<1>1. PICK to \in {"write", "backoff"} : pc' = [pc EXCEPT ![r] = to]
  BY DEF WriteFails, BackoffOver
<1>2. /\ pc[r] \in {"write", "backoff"}
      /\ UNCHANGED <<entry, lockOf, refs, owner, file, hist, failed, saving, told, gap>>
  BY DEF WriteFails, BackoffOver
<1>3. LockInv'
  BY <1>1, <1>2, MoveKeepsLocks DEF SessionInv, Waiting, Inside, Pcs
<1>4. FileInv'
  <2>1. to \in Pcs /\ to \in Saving /\ pc[r] \in Saving /\ pc[r] \in Inside
    BY <1>2 DEF Pcs, Waiting, Saving, Inside
  <2> QED BY <1>1, <1>2, <2>1, MoveKeepsFiles DEF SessionInv, LockInv
<1> QED BY <1>3, <1>4 DEF SessionInv

(* What a promotion does to the files: the evicted session, if there is    *)
(* one, has nothing left that a resume could miss.                         *)
LEMMA TrackKeepsFiles ==
    ASSUME LockTypes, FileInv, NEW r \in Reqs, NEW to \in Pcs, NEW ent,
           Track(r, S(r), ent), pc' = [pc EXCEPT ![r] = to],
           pc[r] \notin Inside, to \notin Inside, to \notin Saving,
           UNCHANGED <<hist, saving, gap>>
    PROVE  FileInv'
<1>1. PICK e :
        /\ failed' = failed \/ (failed' = failed \ {e} /\ told' = [told EXCEPT ![e] = NoOne])
        /\ told' = told \/ told' = [told EXCEPT ![e] = NoOne]
        /\ file' = file \/ (file' = [file EXCEPT ![e] = <<>>] /\ told' = [told EXCEPT ![e] = NoOne])
  <2>1. CASE ~Full(S(r))
    <3>1. failed' = failed /\ told' = told /\ file' = file
      BY <2>1, Zenon DEF Track
    <3> WITNESS Head(lru)
    <3> QED BY <3>1
  <2>2. CASE Full(S(r))
    <3>1. /\ failed' = failed \ {Head(lru)} /\ told' = [told EXCEPT ![Head(lru)] = NoOne]
          /\ file' = file \/ file' = [file EXCEPT ![Head(lru)] = <<>>]
      BY <2>2 DEF Track
    <3> QED BY <3>1
  <2> QED BY <2>1, <2>2
<1>2. FileTypes'
  BY <1>1, EmptyHistory DEF FileInv, FileTypes
<1>3. UnsavedIsMarked'
  <2> SUFFICES ASSUME NEW s \in Sids, Unsaved(s)'
               PROVE  s \in failed' /\ \A q \in Reqs : S(q) = s => pc'[q] \notin Inside
    BY DEF UnsavedIsMarked
  <2>1. Unsaved(s)
    BY <1>1 DEF Unsaved, FileInv, FileTypes
  <2>2. s \in failed'
    BY <1>1, <2>1 DEF Unsaved, FileInv, FileTypes, UnsavedIsMarked
  <2> QED BY <2>1, <2>2 DEF FileInv, UnsavedIsMarked, LockTypes
<1>4. SavesAnnounced' /\ TurnInHistory'
  <2>1. pc[r] \notin Saving
    BY DEF Saving, Inside
  <2> QED BY <2>1 DEF FileInv, FileTypes, SavesAnnounced, TurnInHistory, LockTypes
<1> QED BY <1>2, <1>3, <1>4 DEF FileInv, NoSilentGap

LEMMA PromoteKeeps ==
    ASSUME SessionInv, NEW r \in Reqs, Promote(r)
    PROVE  SessionInv'
<1> DEFINE ent == DropRef(r, entry)[2]
<1>1. /\ pc[r] = "trace" /\ pc' = [pc EXCEPT ![r] = "tracked"]
      /\ refs' = DropRef(r, entry)[1] /\ Track(r, S(r), ent)
      /\ lockOf' = [lockOf EXCEPT ![r] = NoOne]
      /\ UNCHANGED <<owner, hist, saving, gap>>
  BY DEF Promote
<1>2. /\ "tracked" \in Pcs /\ "tracked" \notin Waiting
      /\ "tracked" \notin Inside /\ "tracked" \notin Saving
      /\ pc[r] \in Waiting /\ pc[r] \notin Inside
  BY <1>1 DEF Pcs, Waiting, Inside, Saving
<1>3. /\ ent \in [Sids -> Reqs \cup {NoOne}]
      /\ \A s \in Sids : ent[s] # NoOne => ent[s] = entry[s]
  BY <1>2, DropRefIs DEF SessionInv, LockInv, LockTypes
<1>4. entry' = ent
  BY <1>1, <1>3, TrackKeepsTable DEF SessionInv
<1>5. LockInv'
  BY <1>1, <1>2, <1>4, LeaveKeepsLocks DEF SessionInv
<1>6. FileInv'
  BY <1>1, <1>2, TrackKeepsFiles DEF SessionInv, LockInv
<1> QED BY <1>5, <1>6 DEF SessionInv

LEMMA FinishKeeps ==
    ASSUME SessionInv, NEW r \in Reqs, Finish(r)
    PROVE  SessionInv'
<1>1. /\ pc[r] \in {"tracked", "budget"} /\ pc' = [pc EXCEPT ![r] = "done"]
      /\ Track(r, S(r), entry)
      /\ UNCHANGED <<lockOf, refs, owner, hist, saving, gap>>
  BY DEF Finish
<1>2. /\ "done" \in Pcs /\ "done" \notin Waiting /\ pc[r] \notin Waiting
      /\ "done" \notin Inside /\ "done" \notin Saving /\ pc[r] \notin Inside
  BY <1>1 DEF Pcs, Waiting, Inside, Saving
<1>3. entry \in [Sids -> Reqs \cup {NoOne}]
  BY DEF SessionInv, LockInv, LockTypes
<1>4. entry' = entry
  BY <1>1, <1>3, TrackKeepsTable DEF SessionInv
<1>5. LockInv'
  BY <1>1, <1>2, <1>4, MoveKeepsLocks DEF SessionInv
<1>6. FileInv'
  BY <1>1, <1>2, TrackKeepsFiles DEF SessionInv, LockInv
<1> QED BY <1>5, <1>6 DEF SessionInv

LEMMA ErrorCleanupKeeps ==
    ASSUME SessionInv, NEW r \in Reqs, ErrorCleanup(r)
    PROVE  SessionInv'
<1>1. /\ pc[r] = "error" /\ pc' = [pc EXCEPT ![r] = "done"]
      /\ saving' = saving \/ saving' = [saving EXCEPT ![S(r)] = NoOne]
      /\ UNCHANGED <<entry, lockOf, refs, owner, file, hist, failed, told, gap>>
  BY DEF ErrorCleanup
<1>2. LockInv'
  BY <1>1, MoveKeepsLocks DEF SessionInv, Waiting, Inside, Pcs
<1>3. FileTypes'
  BY <1>1 DEF SessionInv, FileInv, FileTypes
<1>4. UnsavedIsMarked'
  BY <1>1 DEF SessionInv, LockInv, LockTypes, FileInv, UnsavedIsMarked, Unsaved, Inside
<1>5. SavesAnnounced' /\ TurnInHistory'
  BY <1>1 DEF SessionInv, LockInv, LockTypes, FileInv, FileTypes, SavesAnnounced,
        TurnInHistory, Saving
<1> QED BY <1>1, <1>2, <1>3, <1>4, <1>5 DEF SessionInv, FileInv, NoSilentGap

LEMMA CancelledKeeps ==
    ASSUME SessionInv, NEW r \in Reqs, Cancelled(r)
    PROVE  SessionInv'
<1>1. /\ pc[r] \in Waiting /\ pc' = [pc EXCEPT ![r] = "timedout"]
      /\ LeaveQuery(r) /\ SaveOver(r)
      /\ UNCHANGED <<file, failed, told, gap>>
  BY DEF Cancelled, TimeLimit
<1>2. "timedout" \in Pcs \ Inside /\ "timedout" \notin Waiting
  BY DEF Pcs, Waiting, Inside
<1>3. LockInv'
  BY <1>1, <1>2, LeaveKeepsLocks DEF SessionInv, LeaveQuery
<1>4. /\ saving' \in [Sids -> Reqs \cup {NoOne}]
      /\ hist' \in [Reqs -> Seq(Reqs \cup {NoOne})]
      /\ SavesAnnounced' /\ TurnInHistory'
  BY <1>1, <1>2, SaveOverKeepsFiles DEF SessionInv, LockInv, FileInv
<1>5. FileTypes'
  BY <1>1, <1>4 DEF SessionInv, FileInv, FileTypes
<1>6. UnsavedIsMarked'
  BY <1>1, <1>2 DEF SessionInv, LockInv, LockTypes, FileInv, UnsavedIsMarked, Unsaved
<1> QED BY <1>1, <1>3, <1>4, <1>5, <1>6 DEF SessionInv, FileInv, NoSilentGap

(* The file of a session removed, with what was said about it forgotten. *)
LEMMA RemoveKeepsFiles ==
    ASSUME LockTypes, FileInv, NEW r \in Reqs, TimeoutRemove(r), pc[r] \notin Saving,
           UNCHANGED <<hist, gap>>, failed' = failed \/ failed' = failed \ {S(r)}
    PROVE  FileInv'
<1>1. /\ file' = [file EXCEPT ![S(r)] = <<>>]
      /\ saving' = [saving EXCEPT ![S(r)] = NoOne]
      /\ told' = [told EXCEPT ![S(r)] = NoOne]
      /\ pc' = [pc EXCEPT ![r] = "done"]
  BY DEF TimeoutRemove
<1>2. FileTypes'
  BY <1>1, EmptyHistory DEF FileInv, FileTypes
<1>3. UnsavedIsMarked'
  <2> SUFFICES ASSUME NEW s \in Sids, Unsaved(s)'
               PROVE  s \in failed' /\ \A q \in Reqs : S(q) = s => pc'[q] \notin Inside
    BY DEF UnsavedIsMarked
  <2>1. s # S(r) /\ Unsaved(s)
    BY <1>1 DEF Unsaved, FileInv, FileTypes
  <2> QED BY <1>1, <2>1 DEF FileInv, UnsavedIsMarked, LockTypes, Inside
<1>4. SavesAnnounced' /\ TurnInHistory'
  BY <1>1 DEF FileInv, FileTypes, SavesAnnounced, TurnInHistory, LockTypes, Saving
<1> QED BY <1>2, <1>3, <1>4 DEF FileInv, NoSilentGap

LEMMA TimeoutCleanupKeeps ==
    ASSUME SessionInv, NEW r \in Reqs, TimeoutCleanup(r)
    PROVE  SessionInv'
<1>1. /\ pc[r] = "timedout" /\ failed' = failed \ {S(r)}
      /\ UNCHANGED <<entry, lockOf, refs, owner, hist, gap>>
  BY DEF TimeoutCleanup
<1>2. CASE saving[S(r)] = NoOne
  <2>1. TimeoutRemove(r)
    BY <1>2 DEF TimeoutCleanup
  <2>2. LockInv'
    BY <1>1, <2>1, MoveKeepsLocks DEF SessionInv, TimeoutRemove, Waiting, Inside, Pcs
  <2>3. FileInv'
    BY <1>1, <2>1, RemoveKeepsFiles DEF SessionInv, LockInv, Saving
  <2> QED BY <2>2, <2>3 DEF SessionInv
<1>3. CASE saving[S(r)] # NoOne
  <2>1. pc' = [pc EXCEPT ![r] = "timeoutWait"] /\ UNCHANGED <<file, saving, told>>
    BY <1>3 DEF TimeoutCleanup
  <2>2. LockInv'
    BY <1>1, <2>1, MoveKeepsLocks DEF SessionInv, Waiting, Inside, Pcs
  <2>3. ~Unsaved(S(r))
    <3>1. /\ saving[S(r)] \in Reqs /\ S(saving[S(r)]) = S(r)
          /\ pc[saving[S(r)]] \in Inside
      BY <1>3, SidOf DEF SessionInv, FileInv, FileTypes, SavesAnnounced, Saving, Inside
    <3> QED BY <3>1, InsideIsSaved
  <2>4. FileTypes'
    BY <1>1, <2>1 DEF SessionInv, FileInv, FileTypes
  <2>5. UnsavedIsMarked'
    BY <1>1, <2>1, <2>3 DEF SessionInv, LockInv, LockTypes, FileInv, UnsavedIsMarked,
          Unsaved, Inside
  <2>6. SavesAnnounced' /\ TurnInHistory'
    BY <1>1, <2>1 DEF SessionInv, LockInv, LockTypes, FileInv, FileTypes, SavesAnnounced,
          TurnInHistory, Saving
  <2> QED BY <1>1, <2>2, <2>4, <2>5, <2>6 DEF SessionInv, FileInv, NoSilentGap
<1> QED BY <1>2, <1>3

LEMMA TimeoutWaitOverKeeps ==
    ASSUME SessionInv, NEW r \in Reqs, TimeoutWaitOver(r)
    PROVE  SessionInv'
<1>1. /\ pc[r] = "timeoutWait" /\ TimeoutRemove(r)
      /\ UNCHANGED <<entry, lockOf, refs, owner, hist, failed, gap>>
  BY DEF TimeoutWaitOver
<1>2. LockInv'
  BY <1>1, MoveKeepsLocks DEF SessionInv, TimeoutRemove, Waiting, Inside, Pcs
<1>3. FileInv'
  BY <1>1, RemoveKeepsFiles DEF SessionInv, LockInv, Saving
<1> QED BY <1>2, <1>3 DEF SessionInv

(* The background tasks touch neither the lock nor a request. *)
LEMMA EvictKeeps ==
    ASSUME SessionInv, NEW t \in evict,
           EvictStart(t) \/ EvictWaitOver(t) \/ EvictRemove(t) \/ EvictForget(t)
    PROVE  SessionInv'
<1>1. /\ UNCHANGED <<pc, entry, lockOf, refs, owner, hist, failed, saving, gap>>
      /\ \/ UNCHANGED <<file, told>>
         \/ /\ told' = [told EXCEPT ![t.sid] = NoOne]
            /\ file' = file \/ file' = [file EXCEPT ![t.sid] = <<>>]
  BY DEF EvictStart, EvictWaitOver, EvictRemove, EvictForget
<1>2. LockInv'
  BY <1>1 DEF SessionInv, LockInv, LockTypes, LooksUpEntry, RefsExact, InsideOwns, Referring
<1>3. FileTypes'
  BY <1>1, EmptyHistory DEF SessionInv, FileInv, FileTypes
<1>4. UnsavedIsMarked'
  BY <1>1 DEF SessionInv, FileInv, FileTypes, UnsavedIsMarked, Unsaved
<1>5. SavesAnnounced' /\ TurnInHistory'
  BY <1>1 DEF SessionInv, FileInv, SavesAnnounced, TurnInHistory
<1> QED BY <1>1, <1>2, <1>3, <1>4, <1>5 DEF SessionInv, FileInv, NoSilentGap

LEMMA OrphanEndsKeeps ==
    ASSUME SessionInv, UNCHANGED <<pc, entry, lockOf, refs, owner, file, hist, failed, saving,
                                   told, gap>>
    PROVE  SessionInv'
BY DEF SessionInv, LockInv, LockTypes, LooksUpEntry, RefsExact, InsideOwns, Referring,
      FileInv, FileTypes, UnsavedIsMarked, Unsaved, SavesAnnounced, TurnInHistory, NoSilentGap

LEMMA SessionsInit == GSInit => SessionInv
<1> SUFFICES ASSUME GSInit PROVE SessionInv
  OBVIOUS
<1>1. LockTypes /\ LooksUpEntry /\ InsideOwns
  BY DEF GSInit, LockTypes, LooksUpEntry, InsideOwns, Pcs, Waiting, Inside
<1>2. RefsExact
  <2>1. \A l \in Reqs : Referring(lockOf, l) = {}
    BY GeminiAssumption DEF GSInit, Referring
  <2> QED BY <2>1, FS_EmptySet DEF RefsExact, GSInit
<1>3. FileTypes
  <2>1. <<NoOne>> \in Seq(Reqs \cup {NoOne})
    OBVIOUS
  <2> QED BY <2>1, EmptyHistory DEF GSInit, FileTypes
<1>4. UnsavedIsMarked /\ SavesAnnounced /\ TurnInHistory /\ NoSilentGap
  BY DEF GSInit, UnsavedIsMarked, Unsaved, SavesAnnounced, TurnInHistory, NoSilentGap, Saving
<1> QED BY <1>1, <1>2, <1>3, <1>4 DEF SessionInv, LockInv, FileInv

LEMMA SessionsNext == SessionInv /\ [GSNext]_gsvars => SessionInv'
<1> SUFFICES ASSUME SessionInv, [GSNext]_gsvars PROVE SessionInv'
  OBVIOUS
<1>1. ASSUME NEW r \in Reqs,
             Begin(r) \/ Enter(r) \/ Load(r) \/ StreamDone(r) \/ StreamAborts(r) \/ NoClient(r)
      PROVE  SessionInv'
  BY <1>1, BeginKeeps, EnterKeeps, LoadKeeps, StreamDoneKeeps, StreamFailsKeeps
<1>2. ASSUME NEW r \in Reqs,
             Publish(r) \/ GiveUp(r) \/ WriteFails(r) \/ BackoffOver(r) \/ OrphanEnds(r)
      PROVE  SessionInv'
  <2>1. CASE OrphanEnds(r)
    BY <2>1, OrphanEndsKeeps DEF OrphanEnds
  <2> QED BY <1>2, <2>1, PublishKeeps, GiveUpKeeps, RetryKeeps
<1>3. ASSUME NEW r \in Reqs,
             Promote(r) \/ Finish(r) \/ ErrorCleanup(r) \/ Cancelled(r) \/ TimeoutCleanup(r)
               \/ TimeoutWaitOver(r)
      PROVE  SessionInv'
  BY <1>3, PromoteKeeps, FinishKeeps, ErrorCleanupKeeps, CancelledKeeps, TimeoutCleanupKeeps,
     TimeoutWaitOverKeeps
<1>4. ASSUME NEW t \in evict,
             EvictStart(t) \/ EvictWaitOver(t) \/ EvictRemove(t) \/ EvictForget(t)
      PROVE  SessionInv'
  BY <1>4, EvictKeeps
<1>5. CASE UNCHANGED gsvars
  BY <1>5, OrphanEndsKeeps DEF gsvars
<1> QED BY <1>1, <1>2, <1>3, <1>4, <1>5 DEF GSNext

(* For every number of requests and sessions and however the LRU evicts,   *)
(* requests time out and saves fail: two turns of a session never run at   *)
(* the same time, no session lock is left behind, and a session that       *)
(* resumes from disk resumes the last turn it was answered                 *)
(* (gemini/executor.py, _acquire_session_lock, _save_history and           *)
(* _track_session).                                                        *)
THEOREM SessionsSound ==
    GSSpec => [](OneTurnAtATime /\ LocksReclaimed /\ NoSilentGap)
<1>1. SessionInv => OneTurnAtATime /\ LocksReclaimed /\ NoSilentGap
  BY OneInside, EntryHasRequest DEF SessionInv, FileInv
<1> QED BY SessionsInit, SessionsNext, <1>1, PTL DEF GSSpec

-----------------------------------------------------------------------------
(* The stacks of MCP servers.  All that follows holds until close().       *)

(* The requests that took the stack id and have not given it back: the     *)
(* argument is mreq.                                                       *)
Holding(at, id) == {r \in McpReqs : at[r].on = id}

Reload == [id : 1..MaxReloads, todo : SUBSET Servers, live : SUBSET Servers]
Parked == [id : 1..MaxReloads, ref : Nat \ {0}, age : {"fresh", "stale", "expired"}]

StackTypes ==
    /\ opened \in 0..MaxReloads /\ refcount \in Nat
    /\ stack \in 1..MaxReloads \cup {Closed}
    /\ parked \subseteq Parked
    /\ applying \in Reload \cup {Closed}
    /\ mreq \in [McpReqs -> [st : {"idle", "running", "releasing"},
                             on : 1..MaxReloads \cup {Closed}]]

(* A number is used once: what is parked, held or current was opened       *)
(* before the stack that a reload is starting.                             *)
NumbersFresh ==
    /\ stack # Closed => stack <= opened
    /\ \A p \in parked : p.id <= opened /\ p.id # stack
    /\ \A p, q \in parked : p.id = q.id => p = q
    /\ \A r \in McpReqs : mreq[r].on # Closed => mreq[r].on <= opened
    /\ applying # Closed =>
          /\ stack = Closed /\ applying.id = opened
          /\ \A p \in parked : p.id # opened
          /\ \A r \in McpReqs : mreq[r].on # opened

(* The count of a stack is never below the requests that hold it (a lost   *)
(* release leaves it above), so whoever counts down to zero is the last.   *)
CountsCover ==
    /\ stack = Closed => refcount = 0
    /\ stack # Closed =>
          stack \in open /\ Cardinality(Holding(mreq, stack)) <= refcount
    /\ \A p \in parked :
          p.id \in open /\ Cardinality(Holding(mreq, p.id)) <= p.ref

(* A request runs on the current stack or on a parked one that has not     *)
(* outlived every request.                                                 *)
RunsOnKept ==
    \A r \in McpReqs :
        /\ mreq[r].st = "idle" => mreq[r].on = Closed
        /\ mreq[r].st = "running" /\ mreq[r].on # Closed =>
              \/ mreq[r].on = stack
              \/ \E p \in parked : p.id = mreq[r].on /\ p.age # "expired"

StackInv == ~down => StackTypes /\ NumbersFresh /\ CountsCover /\ RunsOnKept

LEMMA HoldingCounted ==
    ASSUME NEW at, NEW id
    PROVE  IsFiniteSet(Holding(at, id)) /\ Cardinality(Holding(at, id)) \in Nat
<1>1. IsFiniteSet(McpReqs)
  BY StacksAssumption, Zenon DEF M!McpAssumption, M!IsFiniteSet, IsFiniteSet
<1>2. Holding(at, id) \subseteq McpReqs
  BY DEF Holding
<1> QED BY <1>1, <1>2, FS_Subset, FS_CardinalityType

(* Who takes a stack adds one to its holders. *)
LEMMA HoldingGrows ==
    ASSUME NEW at, NEW now, NEW r \in McpReqs, NEW id,
           \A q \in McpReqs \ {r} : now[q].on = at[q].on,
           at[r].on # id, now[r].on = id
    PROVE  Cardinality(Holding(now, id)) = Cardinality(Holding(at, id)) + 1
<1>1. Holding(now, id) = Holding(at, id) \cup {r} /\ r \notin Holding(at, id)
  BY DEF Holding
<1> QED BY <1>1, HoldingCounted, FS_AddElement

(* Who gives a stack back takes one from its holders. *)
LEMMA HoldingShrinks ==
    ASSUME NEW at, NEW now, NEW r \in McpReqs, NEW id,
           \A q \in McpReqs \ {r} : now[q].on = at[q].on,
           at[r].on = id, now[r].on # id
    PROVE  Cardinality(Holding(now, id)) = Cardinality(Holding(at, id)) - 1
<1>1. Holding(now, id) = Holding(at, id) \ {r} /\ r \in Holding(at, id)
  BY DEF Holding
<1> QED BY <1>1, HoldingCounted, FS_RemoveElement

(* The other stacks keep theirs. *)
LEMMA HoldingStays ==
    ASSUME NEW at, NEW now, NEW r \in McpReqs, NEW id,
           \A q \in McpReqs \ {r} : now[q].on = at[q].on,
           at[r].on = id <=> now[r].on = id
    PROVE  Holding(now, id) = Holding(at, id)
BY DEF Holding

LEMMA NoStack ==
    ASSUME NEW n \in 1..MaxReloads PROVE n # Closed /\ n \in Nat
BY StacksAssumption DEF M!McpAssumption

LEMMA StackAcquireKeeps ==
    ASSUME StackInv, ~down, NEW r \in McpReqs, M!Acquire(r)
    PROVE  StackInv'
<1>1. /\ mreq[r].st = "idle" /\ applying = Closed
      /\ refcount' = IF stack = Closed THEN refcount ELSE refcount + 1
      /\ mreq' = [mreq EXCEPT ![r] = [st |-> "running", on |-> stack]]
      /\ UNCHANGED <<stack, parked, open, applying, opened>>
  BY DEF M!Acquire, M!LockFree
<1>2. StackTypes'
  BY <1>1 DEF StackInv, StackTypes
<1>3. mreq[r].on = Closed /\ mreq'[r].on = stack /\ \A q \in McpReqs \ {r} : mreq'[q] = mreq[q]
  BY <1>1 DEF StackInv, StackTypes, RunsOnKept
<1>4. NumbersFresh'
  BY <1>1, <1>3 DEF StackInv, NumbersFresh
<1>5. CountsCover'
  <2>1. ASSUME stack # Closed
        PROVE  Cardinality(Holding(mreq', stack)) = Cardinality(Holding(mreq, stack)) + 1
    BY <1>3, <2>1, HoldingGrows
  <2>2. ASSUME NEW p \in parked
        PROVE  Holding(mreq', p.id) = Holding(mreq, p.id)
    <3>1. p.id # Closed /\ p.id # stack
      BY NoStack DEF StackInv, StackTypes, Parked, NumbersFresh
    <3> QED BY <1>3, <3>1, HoldingStays
  <2>3. stack' # Closed =>
            stack' \in open' /\ Cardinality(Holding(mreq, stack)) + 1 <= refcount'
    BY <1>1, HoldingCounted DEF StackInv, StackTypes, CountsCover
  <2>4. \A p \in parked' :
            p.id \in open' /\ Cardinality(Holding(mreq', p.id)) <= p.ref
    BY <1>1, <2>2 DEF StackInv, CountsCover
  <2>5. stack' = Closed => refcount' = 0
    BY <1>1 DEF StackInv, CountsCover
  <2> QED BY <1>1, <2>1, <2>3, <2>4, <2>5 DEF CountsCover
<1>6. RunsOnKept'
  BY <1>1, <1>3 DEF StackInv, RunsOnKept
<1> QED BY <1>2, <1>4, <1>5, <1>6 DEF StackInv

LEMMA StackRunEndsKeeps ==
    ASSUME StackInv, ~down, NEW r \in McpReqs, M!RunEnds(r)
    PROVE  StackInv'
<1>1. /\ mreq[r].st = "running"
      /\ mreq' = [mreq EXCEPT ![r].st = "releasing"]
      /\ UNCHANGED <<stack, refcount, parked, open, applying, opened>>
  BY DEF M!RunEnds
<1>2. StackTypes'
  BY <1>1 DEF StackInv, StackTypes
<1>3. /\ \A q \in McpReqs : mreq'[q].on = mreq[q].on
      /\ mreq'[r].st = "releasing" /\ \A q \in McpReqs \ {r} : mreq'[q] = mreq[q]
  BY <1>1 DEF StackInv, StackTypes
<1>4. NumbersFresh'
  BY <1>1, <1>3 DEF StackInv, NumbersFresh
<1>5. CountsCover'
  <2>1. \A id : Holding(mreq', id) = Holding(mreq, id)
    BY <1>3, HoldingStays
  <2> QED BY <1>1, <2>1 DEF StackInv, CountsCover
<1>6. RunsOnKept'
  BY <1>1, <1>3 DEF StackInv, RunsOnKept
<1> QED BY <1>2, <1>4, <1>5, <1>6 DEF StackInv

(* A request that goes idle leaves its stack's holders and no others. *)
LEMMA IdleHolding ==
    ASSUME StackInv, ~down, NEW r \in McpReqs, M!Idle(r)
    PROVE  /\ mreq' \in [McpReqs -> [st : {"idle", "running", "releasing"},
                                     on : 1..MaxReloads \cup {Closed}]]
           /\ mreq'[r] = [st |-> "idle", on |-> Closed]
           /\ \A q \in McpReqs \ {r} : mreq'[q] = mreq[q]
           /\ \A id \in 1..MaxReloads :
                 Cardinality(Holding(mreq', id)) =
                 IF mreq[r].on = id THEN Cardinality(Holding(mreq, id)) - 1
                 ELSE Cardinality(Holding(mreq, id))
<1>1. /\ mreq' \in [McpReqs -> [st : {"idle", "running", "releasing"},
                                on : 1..MaxReloads \cup {Closed}]]
      /\ mreq'[r] = [st |-> "idle", on |-> Closed]
      /\ \A q \in McpReqs \ {r} : mreq'[q] = mreq[q]
  BY DEF M!Idle, StackInv, StackTypes
<1>2. ASSUME NEW id \in 1..MaxReloads
      PROVE  Cardinality(Holding(mreq', id)) =
             IF mreq[r].on = id THEN Cardinality(Holding(mreq, id)) - 1
             ELSE Cardinality(Holding(mreq, id))
  <2>1. mreq'[r].on # id
    BY <1>1, NoStack
  <2>2. \A q \in McpReqs \ {r} : mreq'[q].on = mreq[q].on
    BY <1>1
  <2>3. CASE mreq[r].on = id
    BY <2>1, <2>2, <2>3, HoldingShrinks
  <2>4. CASE mreq[r].on # id
    BY <2>1, <2>2, <2>4, HoldingStays
  <2> QED BY <2>3, <2>4
<1> QED BY <1>1, <1>2

(* The reference of a cancelled request is lost: the counts stay above. *)
LEMMA StackReleaseLost ==
    ASSUME StackInv, ~down, NEW r \in McpReqs, M!Idle(r),
           UNCHANGED <<stack, refcount, parked, open, applying, opened>>
    PROVE  StackInv'
<1>1. StackTypes'
  BY IdleHolding DEF StackInv, StackTypes
<1>2. NumbersFresh'
  <2>1. opened \in Nat /\ opened # Closed
    BY StacksAssumption DEF M!McpAssumption, StackInv, StackTypes
  <2> QED BY <2>1, IdleHolding DEF StackInv, NumbersFresh
<1>3. CountsCover'
  <2>1. \A id \in 1..MaxReloads :
            Cardinality(Holding(mreq', id)) <= Cardinality(Holding(mreq, id))
    BY IdleHolding, HoldingCounted
  <2>2. ASSUME stack # Closed PROVE Cardinality(Holding(mreq', stack)) <= refcount
    BY <2>1, <2>2, HoldingCounted DEF StackInv, StackTypes, CountsCover
  <2>3. ASSUME NEW p \in parked PROVE Cardinality(Holding(mreq', p.id)) <= p.ref
    <3>1. p.id \in 1..MaxReloads /\ p.ref \in Nat
      BY DEF StackInv, StackTypes, Parked
    <3>2. Cardinality(Holding(mreq, p.id)) <= p.ref
      BY DEF StackInv, CountsCover
    <3> QED BY <2>1, <3>1, <3>2, HoldingCounted
  <2> QED BY <2>2, <2>3 DEF StackInv, CountsCover
<1>4. RunsOnKept'
  BY IdleHolding DEF StackInv, RunsOnKept
<1> QED BY <1>1, <1>2, <1>3, <1>4 DEF StackInv

LEMMA StackReleaseKeeps ==
    ASSUME StackInv, ~down, NEW r \in McpReqs, M!Release(r)
    PROVE  StackInv'
<1> DEFINE on == mreq[r].on
<1>1. /\ mreq[r].st = "releasing" /\ applying = Closed /\ M!Idle(r)
      /\ UNCHANGED <<stack, applying, opened>>
  BY DEF M!Release, M!LockFree
<1>2. on \in 1..MaxReloads \cup {Closed}
  BY DEF StackInv, StackTypes
<1>3. opened \in Nat /\ opened # Closed /\ applying' = Closed
  BY <1>1, StacksAssumption DEF M!McpAssumption, StackInv, StackTypes
<1>4. CASE on # Closed /\ stack = on
  <2>1. /\ refcount' = IF refcount > 0 THEN refcount - 1 ELSE 0
        /\ UNCHANGED <<parked, open>>
    BY <1>4 DEF M!Release
  <2>2. StackTypes' /\ NumbersFresh' /\ RunsOnKept'
    BY <1>1, <1>3, <2>1, IdleHolding DEF StackInv, StackTypes, NumbersFresh, RunsOnKept
  <2>3. Cardinality(Holding(mreq', stack)) = Cardinality(Holding(mreq, stack)) - 1
    BY <1>1, <1>2, <1>4, IdleHolding
  <2>4. Cardinality(Holding(mreq', stack)) <= refcount'
    BY <1>4, <2>1, <2>3, HoldingCounted DEF StackInv, StackTypes, CountsCover
  <2>5. ASSUME NEW p \in parked
        PROVE  Cardinality(Holding(mreq', p.id)) = Cardinality(Holding(mreq, p.id))
    <3>1. p.id \in 1..MaxReloads /\ p.id # on
      BY <1>4 DEF StackInv, StackTypes, Parked, NumbersFresh
    <3> QED BY <1>1, <3>1, IdleHolding
  <2>6. CountsCover'
    BY <1>1, <1>4, <2>1, <2>4, <2>5 DEF StackInv, CountsCover
  <2> QED BY <2>2, <2>6 DEF StackInv
<1>5. CASE ~(on # Closed /\ stack = on) /\ UNCHANGED <<parked, open>>
  <2>1. UNCHANGED refcount
    BY <1>5 DEF M!Release
  <2> QED BY <1>1, <1>5, <2>1, StackReleaseLost
<1>6. CASE ~(on # Closed /\ stack = on) /\ ~UNCHANGED <<parked, open>>
  <2>1. PICK p \in parked :
          /\ p.id = on /\ on # Closed /\ refcount' = refcount
          /\ \/ p.ref <= 1 /\ parked' = parked \ {p} /\ open' = open \ {on}
             \/ /\ ~(p.ref <= 1) /\ open' = open
                /\ parked' = (parked \ {p}) \cup {[p EXCEPT !.ref = @ - 1]}
    <3>1. /\ refcount' = refcount
          /\ on # Closed
          /\ \E p \in {q \in parked : q.id = on} :
                IF M!LastHolder(p)
                THEN parked' = parked \ {p} /\ open' = open \ {on}
                ELSE parked' = M!Replace(p, [p EXCEPT !.ref = @ - 1]) /\ UNCHANGED open
      BY <1>6 DEF M!Release
    <3>2. \A p \in parked : p.ref - 1 <= 0 <=> p.ref <= 1
      BY DEF StackInv, StackTypes, Parked
    <3> QED BY <3>1, <3>2 DEF M!LastHolder, M!Replace
  <2>2. /\ p.id \in 1..MaxReloads /\ p.ref \in Nat \ {0} /\ p.id = on
        /\ p.id \in open /\ Cardinality(Holding(mreq, on)) <= p.ref
        /\ on # stack /\ on <= opened
    BY <1>6, <2>1 DEF StackInv, StackTypes, Parked, CountsCover, NumbersFresh
  <2>3. Cardinality(Holding(mreq', on)) = Cardinality(Holding(mreq, on)) - 1
    BY <1>1, <2>2, IdleHolding
  <2>4. ASSUME NEW q \in parked, q # p
        PROVE  /\ q.id \in 1..MaxReloads /\ q.id # on /\ q.id \in open
               /\ Cardinality(Holding(mreq', q.id)) <= q.ref
    <3>1. q.id \in 1..MaxReloads /\ q.id # on /\ q.id \in open
      BY <2>1, <2>4 DEF StackInv, StackTypes, Parked, NumbersFresh, CountsCover
    <3>2. Cardinality(Holding(mreq', q.id)) = Cardinality(Holding(mreq, q.id))
      BY <1>1, <3>1, IdleHolding
    <3> QED BY <3>1, <3>2 DEF StackInv, CountsCover
  <2>5. ASSUME stack # Closed
        PROVE  stack \in open /\ Cardinality(Holding(mreq', stack)) <= refcount
    <3>1. stack \in 1..MaxReloads
      BY <2>5 DEF StackInv, StackTypes
    <3>2. Cardinality(Holding(mreq', stack)) = Cardinality(Holding(mreq, stack))
      BY <1>1, <2>2, <3>1, IdleHolding
    <3> QED BY <2>5, <3>2 DEF StackInv, CountsCover
  <2>6. CASE p.ref <= 1 /\ parked' = parked \ {p} /\ open' = open \ {on}
    <3>1. StackTypes' /\ NumbersFresh'
      BY <1>1, <1>3, <2>1, <2>6, IdleHolding DEF StackInv, StackTypes, NumbersFresh
    <3>2. CountsCover'
      BY <1>1, <2>1, <2>2, <2>4, <2>5, <2>6 DEF StackInv, CountsCover
    <3>3. ASSUME NEW q \in McpReqs, mreq'[q].st = "running", mreq'[q].on # Closed
          PROVE  mreq'[q].on # on
      <4>1. q # r /\ mreq[q].on = mreq'[q].on
        BY <1>1, <3>3, IdleHolding
      <4>2. SUFFICES ASSUME mreq[q].on = on PROVE FALSE
        BY <4>1
      <4>3. q \in Holding(mreq, on) /\ r \in Holding(mreq, on)
        BY <4>2 DEF Holding
      <4>4. Cardinality(Holding(mreq, on)) = 1
        BY <2>2, <2>3, <2>6, HoldingCounted
      <4> QED BY <4>1, <4>3, <4>4, HoldingCounted, FS_Singleton
    <3>4. RunsOnKept'
      BY <1>1, <2>1, <2>6, <3>3, IdleHolding DEF StackInv, RunsOnKept
    <3> QED BY <3>1, <3>2, <3>4 DEF StackInv
  <2>7. CASE /\ ~(p.ref <= 1) /\ open' = open
             /\ parked' = (parked \ {p}) \cup {[p EXCEPT !.ref = @ - 1]}
    <3> DEFINE p2 == [p EXCEPT !.ref = @ - 1]
    <3>1. p2 \in Parked /\ p2.id = on /\ p2.ref = p.ref - 1 /\ p2.age = p.age
      BY <2>2, <2>7 DEF StackInv, StackTypes, Parked
    <3>2. parked' = (parked \ {p}) \cup {p2}
      BY <2>7
    <3> HIDE DEF p2
    <3>3. StackTypes'
      BY <1>1, <2>1, <3>1, <3>2, IdleHolding DEF StackInv, StackTypes
    <3>4. NumbersFresh'
      BY <1>1, <1>3, <2>1, <2>2, <2>4, <3>1, <3>2, IdleHolding DEF StackInv, NumbersFresh
    <3>5. Cardinality(Holding(mreq', on)) <= p2.ref
      BY <2>2, <2>3, <3>1, HoldingCounted
    <3>6. CountsCover'
      BY <1>1, <2>1, <2>2, <2>4, <2>5, <2>7, <3>1, <3>2, <3>5 DEF StackInv, CountsCover
    <3>7. RunsOnKept'
      <4> SUFFICES ASSUME NEW q \in McpReqs
                   PROVE  /\ mreq'[q].st = "idle" => mreq'[q].on = Closed
                          /\ mreq'[q].st = "running" /\ mreq'[q].on # Closed =>
                                \/ mreq'[q].on = stack'
                                \/ \E t \in parked' : t.id = mreq'[q].on /\ t.age # "expired"
        BY DEF RunsOnKept
      <4>1. CASE q = r
        BY <1>1, <4>1, IdleHolding
      <4>2. CASE q # r
        <5>1. mreq'[q] = mreq[q]
          BY <1>1, <4>2, IdleHolding
        <5> QED BY <1>1, <3>1, <3>2, <2>1, <5>1 DEF StackInv, RunsOnKept
      <4> QED BY <4>1, <4>2
    <3> QED BY <3>3, <3>4, <3>6, <3>7 DEF StackInv
  <2> QED BY <2>1, <2>6, <2>7
<1> QED BY <1>4, <1>5, <1>6

(* A reload takes the next number; the previous stack is closed if nobody  *)
(* holds it and parked under its count otherwise.                          *)
LEMMA StackReloadKeeps ==
    ASSUME StackInv, ~down, applying = Closed, opened < MaxReloads, opened' = opened + 1,
           M!ParkPrevious, UNCHANGED mreq,
           \/ applying' = Closed
           \/ applying' \in Reload /\ applying'.id = opened + 1
    PROVE  StackInv'
<1>1. stack' = Closed /\ refcount' = 0
  BY DEF M!ParkPrevious
<1>2. opened \in Nat /\ opened' \in 1..MaxReloads /\ opened' # Closed /\ MaxReloads \in Nat
  BY NoStack, StacksAssumption DEF M!McpAssumption, StackInv, StackTypes
<1>3. \/ stack = Closed /\ parked' = parked /\ open' = open
      \/ stack # Closed /\ refcount <= 0 /\ open' = open \ {stack} /\ parked' = parked
      \/ /\ stack # Closed /\ ~(refcount <= 0) /\ open' = open
         /\ parked' = parked \cup {[id |-> stack, ref |-> refcount, age |-> "fresh"]}
  BY DEF M!ParkPrevious
<1>4. \A r \in McpReqs : mreq[r].on # Closed => mreq[r].on \in Nat /\ mreq[r].on < opened'
  BY <1>2 DEF StackInv, StackTypes, NumbersFresh
<1>5. \A p \in parked : p.id \in Nat /\ p.id < opened' /\ p.id # Closed
  BY <1>2, NoStack DEF StackInv, StackTypes, Parked, NumbersFresh
<1>6. CASE stack = Closed /\ parked' = parked /\ open' = open
  <2>1. StackTypes'
    BY <1>1, <1>2, <1>6 DEF StackInv, StackTypes
  <2>2. NumbersFresh'
    BY <1>1, <1>2, <1>4, <1>5, <1>6 DEF StackInv, NumbersFresh
  <2>3. CountsCover' /\ RunsOnKept'
    BY <1>1, <1>6 DEF StackInv, CountsCover, RunsOnKept
  <2> QED BY <2>1, <2>2, <2>3 DEF StackInv
<1>7. CASE stack # Closed /\ refcount <= 0 /\ open' = open \ {stack} /\ parked' = parked
  <2>1. StackTypes'
    BY <1>1, <1>2, <1>7 DEF StackInv, StackTypes
  <2>2. NumbersFresh'
    BY <1>1, <1>2, <1>4, <1>5, <1>7 DEF StackInv, NumbersFresh
  <2>3. Holding(mreq, stack) = {}
    <3>1. Cardinality(Holding(mreq, stack)) = 0
      BY <1>7, HoldingCounted DEF StackInv, StackTypes, CountsCover
    <3> QED BY <3>1, HoldingCounted, FS_EmptySet
  <2>4. \A r \in McpReqs : mreq[r].on # stack
    BY <2>3 DEF Holding
  <2>5. CountsCover'
    BY <1>1, <1>7 DEF StackInv, CountsCover, NumbersFresh
  <2>6. RunsOnKept'
    BY <1>1, <1>7, <2>4 DEF StackInv, RunsOnKept
  <2> QED BY <2>1, <2>2, <2>5, <2>6 DEF StackInv
<1>8. CASE /\ stack # Closed /\ ~(refcount <= 0) /\ open' = open
           /\ parked' = parked \cup {[id |-> stack, ref |-> refcount, age |-> "fresh"]}
  <2> DEFINE p == [id |-> stack, ref |-> refcount, age |-> "fresh"]
  <2>1. /\ p \in Parked /\ p.id = stack /\ p.ref = refcount /\ p.age # "expired"
        /\ stack \in 1..MaxReloads
    BY <1>8 DEF StackInv, StackTypes, Parked
  <2>2. parked' = parked \cup {p}
    BY <1>8
  <2> HIDE DEF p
  <2>3. StackTypes'
    BY <1>1, <1>2, <2>1, <2>2 DEF StackInv, StackTypes
  <2>4. stack < opened' /\ stack \in Nat
    BY <1>2, <1>8, <2>1 DEF StackInv, NumbersFresh
  <2>5. NumbersFresh'
    <3>1. \A q \in parked' : q.id <= opened' /\ q.id # stack' /\ q.id # opened'
      BY <1>1, <1>2, <1>5, <1>8, <2>1, <2>2, <2>4
    <3>2. \A q, t \in parked' : q.id = t.id => q = t
      BY <2>1, <2>2 DEF StackInv, NumbersFresh
    <3>3. \A r \in McpReqs : mreq'[r].on # Closed => mreq'[r].on <= opened' /\ mreq'[r].on # opened'
      BY <1>2, <1>4
    <3> QED BY <1>1, <1>2, <3>1, <3>2, <3>3 DEF NumbersFresh
  <2>6. CountsCover'
    BY <1>1, <1>8, <2>1, <2>2 DEF StackInv, CountsCover
  <2>7. RunsOnKept'
    BY <1>8, <2>1, <2>2 DEF StackInv, RunsOnKept
  <2> QED BY <2>3, <2>5, <2>6, <2>7 DEF StackInv
<1> QED BY <1>3, <1>6, <1>7, <1>8

LEMMA StackServerKeeps ==
    ASSUME StackInv, ~down, NEW s \in Servers,
           M!ServerStarts(s) \/ M!ServerFails(s) \/ M!ServerRefused(s)
    PROVE  StackInv'
<1>1. /\ applying # Closed /\ s \in applying.todo
      /\ open \subseteq open'
      /\ UNCHANGED <<stack, refcount, parked, mreq, opened>>
  BY DEF M!ServerStarts, M!ServerFails, M!ServerRefused, M!LockFree
<1>2. applying \in Reload
  BY <1>1 DEF StackInv, StackTypes
<1>3. applying' \in Reload /\ applying'.id = applying.id
  <2>1. /\ applying.id \in 1..MaxReloads
        /\ applying.todo \ {s} \in SUBSET Servers
        /\ applying.live \in SUBSET Servers /\ applying.live \cup {s} \in SUBSET Servers
    BY <1>2 DEF Reload
  <2>2. \/ applying' = [applying EXCEPT !.todo = @ \ {s}, !.live = @ \cup {s}]
        \/ applying' = [applying EXCEPT !.todo = @ \ {s}]
    BY DEF M!ServerStarts, M!ServerFails, M!ServerRefused
  <2> QED BY <1>2, <2>1, <2>2 DEF Reload
<1>4. StackTypes'
  BY <1>1, <1>3 DEF StackInv, StackTypes
<1>5. NumbersFresh'
  BY <1>1, <1>3 DEF StackInv, NumbersFresh
<1>6. CountsCover' /\ RunsOnKept'
  BY <1>1 DEF StackInv, CountsCover, RunsOnKept
<1> QED BY <1>4, <1>5, <1>6 DEF StackInv

LEMMA StackApplyEndKeeps ==
    ASSUME StackInv, ~down, M!ApplyEnd
    PROVE  StackInv'
<1>1. /\ applying # Closed /\ stack' = applying.id /\ applying' = Closed
      /\ open' = open \cup {applying.id}
      /\ UNCHANGED <<refcount, parked, mreq, opened>>
  BY DEF M!ApplyEnd, M!LockFree
<1>2. /\ applying.id = opened /\ stack = Closed /\ refcount = 0
      /\ \A p \in parked : p.id # opened
      /\ \A r \in McpReqs : mreq[r].on # opened
  BY <1>1 DEF StackInv, NumbersFresh, CountsCover
<1>3. opened \in 1..MaxReloads /\ opened \in Nat
  <2>1. applying \in Reload
    BY <1>1 DEF StackInv, StackTypes
  <2>2. opened \in 1..MaxReloads
    BY <1>2, <2>1 DEF Reload
  <2> QED BY <2>2, NoStack
<1>4. StackTypes'
  BY <1>1, <1>2, <1>3 DEF StackInv, StackTypes
<1>5. NumbersFresh'
  BY <1>1, <1>2, <1>3 DEF StackInv, NumbersFresh
<1>6. Holding(mreq, opened) = {}
  BY <1>2 DEF Holding
<1>7. CountsCover'
  BY <1>1, <1>2, <1>3, <1>6, NoStack, FS_EmptySet DEF StackInv, CountsCover
<1>8. RunsOnKept'
  BY <1>1, <1>2 DEF StackInv, RunsOnKept
<1> QED BY <1>4, <1>5, <1>7, <1>8 DEF StackInv

LEMMA StackAgesKeeps ==
    ASSUME StackInv, ~down, NEW p \in parked, M!Ages(p)
    PROVE  StackInv'
<1> DEFINE p2 == [p EXCEPT !.age = IF @ = "fresh" THEN "stale" ELSE "expired"]
<1>1. /\ ~M!InUse(p.id) /\ parked' = (parked \ {p}) \cup {p2}
      /\ UNCHANGED <<stack, refcount, open, applying, mreq, opened>>
  BY DEF M!Ages, M!Replace
<1>2. p2 \in Parked /\ p2.id = p.id /\ p2.ref = p.ref
  BY DEF StackInv, StackTypes, Parked
<1> HIDE DEF p2
<1>3. StackTypes'
  BY <1>1, <1>2 DEF StackInv, StackTypes
<1>4. NumbersFresh'
  BY <1>1, <1>2 DEF StackInv, NumbersFresh
<1>5. CountsCover'
  BY <1>1, <1>2 DEF StackInv, CountsCover
<1>6. ASSUME NEW r \in McpReqs, mreq[r].st = "running" PROVE mreq[r].on # p.id
  BY <1>1, <1>6 DEF M!InUse, StackInv, StackTypes
<1>7. RunsOnKept'
  BY <1>1, <1>6 DEF StackInv, RunsOnKept
<1> QED BY <1>3, <1>4, <1>5, <1>7 DEF StackInv

LEMMA StackWatchdogKeeps ==
    ASSUME StackInv, ~down, M!Watchdog
    PROVE  StackInv'
<1>1. \A p \in parked : M!ToClose(p) <=> p.age = "expired"
  BY DEF M!ToClose, StackInv, StackTypes, Parked
<1>2. /\ open' = open \ {p.id : p \in {q \in parked : q.age = "expired"}}
      /\ parked' = {p \in parked : p.age # "expired"}
      /\ UNCHANGED <<stack, refcount, applying, mreq, opened>>
  BY <1>1 DEF M!Watchdog
<1>3. StackTypes'
  BY <1>2 DEF StackInv, StackTypes
<1>4. NumbersFresh'
  BY <1>2 DEF StackInv, NumbersFresh
<1>5. CountsCover'
  BY <1>2 DEF StackInv, CountsCover, NumbersFresh
<1>6. RunsOnKept'
  BY <1>2 DEF StackInv, RunsOnKept
<1> QED BY <1>3, <1>4, <1>5, <1>6 DEF StackInv

LEMMA StacksInit == M!McpInit => StackInv
<1> SUFFICES ASSUME M!McpInit PROVE StackInv
  OBVIOUS
<1> USE DEF M!McpInit
<1>1. StackTypes
  BY StacksAssumption DEF M!McpAssumption, StackTypes
<1>2. NumbersFresh /\ CountsCover /\ RunsOnKept
  BY DEF NumbersFresh, CountsCover, RunsOnKept
<1> QED BY <1>1, <1>2 DEF StackInv

LEMMA StacksNext == StackInv /\ [M!McpNext]_mcpvars => StackInv'
<1> SUFFICES ASSUME StackInv, [M!McpNext]_mcpvars, ~down' PROVE StackInv'
  BY DEF StackInv
<1>1. ~down
  BY DEF M!McpNext, M!Acquire, M!RunEnds, M!Release, M!ReleaseCancelled, M!ApplyEmpty,
     M!ApplyBegin, M!ServerStarts, M!ServerFails, M!ServerRefused, M!ApplyEnd, M!Ages,
     M!Watchdog, M!CloseAll, mcpvars
<1>2. ASSUME NEW r \in McpReqs,
             M!Acquire(r) \/ M!RunEnds(r) \/ M!Release(r) \/ M!ReleaseCancelled(r)
      PROVE  StackInv'
  <2>1. CASE M!ReleaseCancelled(r)
    BY <1>1, <2>1, StackReleaseLost DEF M!ReleaseCancelled
  <2> QED BY <1>1, <1>2, <2>1, StackAcquireKeeps, StackRunEndsKeeps, StackReleaseKeeps
<1>3. CASE M!ApplyEmpty
  BY <1>1, <1>3, StackReloadKeeps DEF M!ApplyEmpty, M!LockFree
<1>4. ASSUME NEW c \in SUBSET Servers \ {{}}, M!ApplyBegin(c)
      PROVE  StackInv'
  <2>1. /\ applying = Closed /\ opened < MaxReloads /\ opened' = opened + 1
        /\ M!ParkPrevious /\ UNCHANGED mreq
        /\ applying' = [id |-> opened + 1, todo |-> c, live |-> {}]
    BY <1>4 DEF M!ApplyBegin, M!LockFree
  <2>2. opened + 1 \in 1..MaxReloads
    BY <1>1, <2>1, StacksAssumption DEF M!McpAssumption, StackInv, StackTypes
  <2>3. applying' \in Reload /\ applying'.id = opened + 1
    BY <2>1, <2>2 DEF Reload
  <2> QED BY <1>1, <2>1, <2>3, StackReloadKeeps
<1>5. ASSUME NEW s \in Servers, M!ServerStarts(s) \/ M!ServerFails(s) \/ M!ServerRefused(s)
      PROVE  StackInv'
  BY <1>1, <1>5, StackServerKeeps
<1>6. ASSUME NEW p \in parked, M!Ages(p) PROVE StackInv'
  BY <1>1, <1>6, StackAgesKeeps
<1>7. CASE M!ApplyEnd \/ M!Watchdog
  BY <1>1, <1>7, StackApplyEndKeeps, StackWatchdogKeeps
<1>8. CASE M!CloseAll
  BY <1>8 DEF M!CloseAll
<1>9. CASE UNCHANGED mcpvars
  BY <1>9 DEF mcpvars, StackInv, StackTypes, NumbersFresh, CountsCover, RunsOnKept
<1> QED BY <1>2, <1>3, <1>4, <1>5, <1>6, <1>7, <1>8, <1>9 DEF M!McpNext

(* Until close(), for every number of requests, servers and reloads: the   *)
(* servers of a stack run for as long as a request runs on it, although    *)
(* reloads park it, releases are lost and the watchdog closes what it      *)
(* takes for abandoned (gemini/executor.py, _apply_mcp_config,             *)
(* _release_mcp_stack and mcp_parked_stacks_watchdog).                     *)
THEOREM StacksSound == M!McpInit /\ [][M!McpNext]_mcpvars => []M!NeverClosedInUse
<1>1. StackInv => M!NeverClosedInUse
  BY DEF StackInv, CountsCover, RunsOnKept, M!NeverClosedInUse
<1> QED BY StacksInit, StacksNext, <1>1, PTL

-----------------------------------------------------------------------------
(* The gemini backend is a behaviour of its sessions and one of its stacks, *)
(* so that it keeps the promises of both.                                   *)
THEOREM GeminiSoundHolds == GeminiSpec => []GeminiSound
<1>1. GeminiInit => SessionInv /\ StackInv
  BY SessionsInit, StacksInit DEF GeminiInit
<1>2. [GeminiNext]_<<focus, gsvars, mcpvars>> => [GSNext]_gsvars /\ [M!McpNext]_mcpvars
  BY DEF GeminiNext
<1>3. SessionInv => OneTurnAtATime /\ LocksReclaimed /\ NoSilentGap
  BY OneInside, EntryHasRequest DEF SessionInv, FileInv
<1>4. StackInv => M!NeverClosedInUse
  BY DEF StackInv, CountsCover, RunsOnKept, M!NeverClosedInUse
<1>5. SessionInv /\ StackInv => GeminiSound
  BY <1>3, <1>4 DEF GeminiSound
<1> QED BY <1>1, <1>2, <1>5, SessionsNext, StacksNext, PTL DEF GeminiSpec
=============================================================================
