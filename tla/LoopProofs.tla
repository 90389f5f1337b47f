----------------------------- MODULE LoopProofs -----------------------------
(* Loops over a sequence, which the modules write as folds: what each      *)
(* round of a loop preserves, its result has.  Induction goes by the least *)
(* counterexample, so it takes a set and no operator as its parameter.     *)
EXTENDS Integers, SequencesExt, FiniteSetTheorems, WellFoundedInduction, TLAPS

-----------------------------------------------------------------------------
(* Induction on the natural numbers.                                       *)

(* A set of naturals that is not empty has a least member.                 *)
LEMMA LeastNumber ==
    ASSUME NEW T, T \subseteq Nat, T # {}
    PROVE  \E x \in T : \A y \in T : x <= y
<1>1. \E x \in T : \A y \in T : ~(<<y, x>> \in OpToRel(<, Nat))
  BY NatLessThanWellFounded, WFMin, Zenon
<1>2. PICK x \in T : \A y \in T : <<y, x>> \notin OpToRel(<, Nat)
  BY <1>1
<1>3. \A y \in T : ~(y < x)
  BY <1>2 DEF OpToRel
<1> QED BY <1>3

(* Induction up to N: what holds of 0 and passes from n - 1 to n holds of  *)
(* all numbers up to N.                                                    *)
LEMMA UpTo ==
    ASSUME NEW N \in Nat, NEW G, 0 \in G, \A n \in 1..N : n - 1 \in G => n \in G
    PROVE  0..N \subseteq G
<1> SUFFICES ASSUME ~(0..N \subseteq G) PROVE FALSE
  OBVIOUS
<1> DEFINE T == {n \in 0..N : n \notin G}
<1>1. T \subseteq Nat /\ T # {}
  OBVIOUS
<1> HIDE DEF T
<1>2. PICK x \in T : \A y \in T : x <= y
  BY <1>1, LeastNumber
<1>3. x \in 1..N /\ x \notin G
  BY <1>2 DEF T
<1>4. x - 1 \in G
  <2>1. x - 1 \in 0..N /\ ~(x <= x - 1)
    BY <1>3
  <2> QED
    BY <1>2, <2>1 DEF T
<1> QED
  BY <1>3, <1>4

(* A set of numbers between 1 and n that is not empty has a greatest one.  *)
LEMMA GreatestUpTo ==
    ASSUME NEW n \in Nat, NEW T, T \subseteq 1..n, T # {}
    PROVE  Max(T) \in T /\ \A y \in T : y <= Max(T)
<1> DEFINE U == {k \in 0..n : n - k \in T}
<1>1. U # {}
  <2>1. PICK x \in T : TRUE
    OBVIOUS
  <2>2. n - x \in 0..n /\ n - (n - x) = x
    OBVIOUS
  <2> QED BY <2>1, <2>2
<1>2. PICK k \in U : \A j \in U : k <= j
  <2>1. U \subseteq Nat
    OBVIOUS
  <2> HIDE DEF U
  <2> QED BY <1>1, <2>1, LeastNumber
<1>3. \A y \in T : y <= n - k
  <2> SUFFICES ASSUME NEW y \in T PROVE y <= n - k
    OBVIOUS
  <2>1. n - y \in 0..n /\ n - (n - y) = y
    OBVIOUS
  <2>2. k <= n - y
    BY <1>2, <2>1
  <2> QED BY <2>2
<1>4. n - k \in T
  OBVIOUS
<1>5. \E x \in T : \A y \in T : x >= y
  BY <1>3, <1>4
<1> QED BY <1>5 DEF Max

(* The greatest of 1..n is n.                                              *)
LEMMA GreatestOfRange ==
    ASSUME NEW n \in Nat, n # 0
    PROVE  Max(1..n) = n /\ (1..n) \ {n} = 1..n - 1
<1>1. PICK T : T = 1..n
  OBVIOUS
<1>2. T \subseteq 1..n /\ n \in T
  BY <1>1
<1>3. Max(T) \in T /\ \A y \in T : y <= Max(T)
  BY <1>2, GreatestUpTo
<1>4. Max(T) = n
  BY <1>1, <1>2, <1>3
<1> QED BY <1>1, <1>4

-----------------------------------------------------------------------------
(* Folds.  C chooses the next member of a set, F is the effect of a round. *)

FoldsOver(g, P, C, F, s0) ==
    /\ {} \in P => g[{}] = s0
    /\ \A s \in P : s # {} => g[s] = F[C[s]][g[s \ {C[s]}]]

(* A fold over a finite set is well defined, and it has the type that each *)
(* round preserves.                                                        *)
LEMMA FoldExists ==
    ASSUME NEW D, IsFiniteSet(D), NEW C, \A s \in SUBSET D : s # {} => C[s] \in s,
           NEW S, NEW s0 \in S, NEW F, \A x \in D, v \in S : F[x][v] \in S
    PROVE  \E g \in [SUBSET D -> S] : FoldsOver(g, SUBSET D, C, F, s0)
<1> DEFINE P(n) == {s \in SUBSET D : Cardinality(s) <= n}
           G == {n \in Nat : \E g \in [P(n) -> S] : FoldsOver(g, P(n), C, F, s0)}
<1>0. \A s \in SUBSET D : IsFiniteSet(s) /\ Cardinality(s) \in Nat /\ Cardinality(s) <= Cardinality(D)
  BY FS_Subset, FS_CardinalityType
<1>0a. Cardinality(D) \in Nat
  BY FS_CardinalityType
<1>1. 0 \in G
  <2>1. \A s \in P(0) : s = {}
    BY <1>0, FS_EmptySet
  <2>2. PICK g : g = [s \in P(0) |-> s0]
    OBVIOUS
  <2>3. g \in [P(0) -> S] /\ FoldsOver(g, P(0), C, F, s0)
    BY <2>1, <2>2 DEF FoldsOver
  <2> QED BY <2>3
<1>2. ASSUME NEW n \in Nat, n # 0, n - 1 \in G PROVE n \in G
  <2>1. PICK g \in [P(n - 1) -> S] : FoldsOver(g, P(n - 1), C, F, s0)
    BY <1>2
  <2>2. PICK h : h = [s \in P(n) |-> IF Cardinality(s) = n THEN F[C[s]][g[s \ {C[s]}]] ELSE g[s]]
    OBVIOUS
  <2>3. ASSUME NEW s \in P(n), Cardinality(s) # n
        PROVE  s \in P(n - 1) /\ h[s] = g[s]
    BY <2>2, <2>3, <1>0
  <2>4. ASSUME NEW s \in P(n), s # {}
        PROVE  s \ {C[s]} \in P(n - 1) /\ h[s \ {C[s]}] = g[s \ {C[s]}]
    <3>1. C[s] \in s /\ s \ {C[s]} \in SUBSET D
      BY <2>4
    <3>2. Cardinality(s \ {C[s]}) = Cardinality(s) - 1
      BY <3>1, <1>0, FS_RemoveElement
    <3>3. s \ {C[s]} \in P(n) /\ Cardinality(s \ {C[s]}) # n
      BY <3>1, <3>2, <1>0
    <3> HIDE DEF P
    <3> QED BY <2>3, <3>3
  <2>5. ASSUME NEW s \in P(n), Cardinality(s) = n
        PROVE  s # {} /\ h[s] = F[C[s]][g[s \ {C[s]}]]
    <3>1. s # {}
      BY <2>5, <1>2, FS_EmptySet
    <3> QED BY <3>1, <2>2, <2>5
  <2>6. ASSUME NEW s \in P(n), s # {}
        PROVE  h[s] = F[C[s]][h[s \ {C[s]}]]
    <3>1. CASE Cardinality(s) = n
      BY <3>1, <2>4, <2>5, <2>6
    <3>2. CASE Cardinality(s) # n
      <4>1. s \in P(n - 1) /\ h[s] = g[s]
        BY <2>3, <3>2
      <4>2. g[s] = F[C[s]][g[s \ {C[s]}]]
        BY <2>1, <2>6, <4>1 DEF FoldsOver
      <4> HIDE DEF P
      <4> QED BY <4>1, <4>2, <2>4, <2>6
    <3> QED BY <3>1, <3>2
  <2>7. h[{}] = s0
    <3>1. {} \in P(n) /\ {} \in P(n - 1) /\ Cardinality({}) = 0
      BY <1>2, FS_EmptySet
    <3>2. h[{}] = g[{}]
      BY <2>3, <3>1, <1>2
    <3> QED BY <3>1, <3>2, <2>1 DEF FoldsOver
  <2>8. ASSUME NEW s \in P(n) PROVE h[s] \in S
    <3>1. CASE Cardinality(s) # n
      BY <3>1, <2>1, <2>3
    <3>2. CASE Cardinality(s) = n
      <4>1. s # {} /\ C[s] \in D
        BY <2>5, <3>2
      <4>2. g[s \ {C[s]}] \in S
        BY <4>1, <2>4, <2>1
      <4> QED BY <4>1, <4>2, <2>5, <3>2
    <3> QED BY <3>1, <3>2
  <2> HIDE DEF P
  <2>9. h \in [P(n) -> S] /\ FoldsOver(h, P(n), C, F, s0)
    <3>1. DOMAIN h = P(n) /\ h = [s \in P(n) |-> h[s]]
      BY <2>2
    <3> QED BY <3>1, <2>6, <2>7, <2>8 DEF FoldsOver
  <2> QED BY <2>9
<1>3. Cardinality(D) \in G
  <2> HIDE DEF G
  <2>1. \A n \in 1..Cardinality(D) : n - 1 \in G => n \in G
    BY <1>2
  <2>2. 0..Cardinality(D) \subseteq G
    BY <1>0a, <1>1, <2>1, UpTo
  <2> QED BY <2>2, <1>0a
<1>4. P(Cardinality(D)) = SUBSET D
  BY <1>0
<1> HIDE DEF P
<1> QED BY <1>3, <1>4

FoldsLeft(g, N, S, F, s0) ==
    /\ g[{}] = s0
    /\ \A s \in SUBSET (1..N) :
          s # {} /\ g[s \ {Max(s)}] \in S => g[s] = F[Max(s)][g[s \ {Max(s)}]]

(* The value of the fold on the first n places, for each n.                *)
Ladder(st, N, F, s0) ==
    st[0] = s0 /\ \A n \in 1..N : st[n] = F[n][st[n - 1]]

(* The same for a loop over the places 1..N of a sequence: the set of the  *)
(* first n places is folded by running place n after the first n - 1.      *)
LEMMA FoldLeftExists ==
    ASSUME NEW N \in Nat, NEW S, NEW s0 \in S, NEW F,
           \A n \in 1..N, v \in S : F[n][v] \in S
    PROVE  \E g \in [SUBSET (1..N) -> S] : FoldsLeft(g, N, S, F, s0)
<1>1. PICK C : C = [s \in SUBSET (1..N) |-> Max(s)]
  OBVIOUS
<1>2. \A s \in SUBSET (1..N) : s # {} => C[s] \in s /\ C[s] = Max(s)
  BY <1>1, GreatestUpTo
<1>3. IsFiniteSet(1..N)
  BY FS_Interval
<1>4. PICK D : D = 1..N
  OBVIOUS
<1>5. PICK g \in [SUBSET D -> S] : FoldsOver(g, SUBSET D, C, F, s0)
  BY <1>2, <1>3, <1>4, FoldExists
<1>6. g[{}] = s0 /\ \A s \in SUBSET D : s # {} => g[s] = F[C[s]][g[s \ {C[s]}]]
  BY <1>5 DEF FoldsOver
<1>7. \A s \in SUBSET D : s # {} => g[s] = F[Max(s)][g[s \ {Max(s)}]]
  BY <1>2, <1>4, <1>6
<1> QED BY <1>4, <1>5, <1>6, <1>7 DEF FoldsLeft

(* The ladder of a fold: its value on the first n places for each n.       *)
LEMMA FoldLadder ==
    ASSUME NEW N \in Nat, NEW S, NEW s0 \in S, NEW g, NEW F,
           \A n \in 1..N, v \in S : F[n][v] \in S,
           FoldsLeft(g, N, S, F, s0)
    PROVE  \E st \in [0..N -> S] : Ladder(st, N, F, s0) /\ st[N] = g[1..N]
<1> DEFINE G == {n \in 0..N : g[1..n] \in S}
<1>1. ASSUME NEW n \in 1..N
      PROVE  1..n \in SUBSET (1..N) /\ 1..n # {} /\ Max(1..n) = n /\ (1..n) \ {n} = 1..n - 1
  <2>1. 1..n \in SUBSET (1..N) /\ 1..n # {} /\ n \in Nat /\ n # 0
    OBVIOUS
  <2>2. Max(1..n) = n /\ (1..n) \ {n} = 1..n - 1
    BY <2>1, GreatestOfRange
  <2> QED BY <2>1, <2>2
<1>2. \A n \in 1..N : g[1..n - 1] \in S => g[1..n] = F[n][g[1..n - 1]]
  <2> SUFFICES ASSUME NEW n \in 1..N, g[1..n - 1] \in S
               PROVE  g[1..n] = F[n][g[1..n - 1]]
    OBVIOUS
  <2>1. PICK T : T = 1..n
    OBVIOUS
  <2>2. T \in SUBSET (1..N) /\ T # {} /\ Max(T) = n /\ T \ {n} = 1..n - 1
    BY <1>1, <2>1
  <2> QED BY <2>1, <2>2 DEF FoldsLeft
<1>3. 1..0 = {}
  OBVIOUS
<1>4. 0 \in G
  BY <1>3 DEF FoldsLeft
<1>5. \A n \in 1..N : n - 1 \in G => n \in G
  BY <1>2
<1>6. 0..N \subseteq G
  <2> HIDE DEF G
  <2> QED BY <1>4, <1>5, UpTo
<1>7. PICK st : st = [n \in 0..N |-> g[1..n]]
  OBVIOUS
<1>8. st \in [0..N -> S] /\ st[0] = s0 /\ st[N] = g[1..N]
  BY <1>3, <1>6, <1>7 DEF FoldsLeft
<1>9. \A n \in 1..N : n - 1 \in 0..N /\ n \in 0..N /\ g[1..n - 1] \in S
  BY <1>6
<1>10. \A n \in 1..N : st[n] = g[1..n] /\ st[n - 1] = g[1..n - 1]
  BY <1>9, <1>7
<1> QED BY <1>2, <1>8, <1>9, <1>10 DEF Ladder

-----------------------------------------------------------------------------
(* Sequences.                                                              *)

(* What two sequences joined have at each place.                           *)
LEMMA Joined ==
    ASSUME NEW S, NEW u \in Seq(S), NEW v \in Seq(S)
    PROVE  /\ u \o v \in Seq(S) /\ Len(u \o v) = Len(u) + Len(v)
           /\ \A i \in 1..Len(u) : (u \o v)[i] = u[i]
           /\ \A i \in 1..Len(v) : (u \o v)[Len(u) + i] = v[i]
OBVIOUS

(* What is left when one place is removed.                                 *)
LEMMA PlaceRemoved ==
    ASSUME NEW S, NEW q \in Seq(S), NEW a \in 1..Len(q)
    PROVE  LET r == RemoveAt(q, a)
           IN  /\ r \in Seq(S) /\ Len(r) = Len(q) - 1
               /\ \A i \in 1..a - 1 : r[i] = q[i]
               /\ \A i \in a..Len(q) - 1 : r[i] = q[i + 1]
<1>1. PICK u : u = SubSeq(q, 1, a - 1)
  OBVIOUS
<1>2. PICK v : v = SubSeq(q, a + 1, Len(q))
  OBVIOUS
<1>3a. u \in Seq(S)
  BY <1>1
<1>3. Len(u) = a - 1
  BY <1>1
<1>4. \A i \in 1..a - 1 : u[i] = q[i]
  BY <1>1
<1>5a. v \in Seq(S)
  BY <1>2
<1>5. Len(v) = Len(q) - a
  BY <1>2
<1>6. \A i \in 1..Len(q) - a : v[i] = q[a + i]
  BY <1>2
<1>7. PICK r : r = u \o v
  OBVIOUS
<1>8. r \in Seq(S) /\ Len(r) = Len(u) + Len(v)
  BY <1>3a, <1>5a, <1>7, Joined
<1>9. \A i \in 1..Len(u) : r[i] = u[i]
  BY <1>3a, <1>5a, <1>7, Joined
<1>10. \A i \in 1..Len(v) : r[Len(u) + i] = v[i]
  BY <1>3a, <1>5a, <1>7, Joined
<1>11. \A i \in 1..a - 1 : r[i] = q[i]
  BY <1>3, <1>4, <1>9
<1>12. ASSUME NEW i \in a..Len(q) - 1 PROVE r[i] = q[i + 1]
  <2>1. PICK x \in 1..Len(q) - a : x = i + 1 - a
    OBVIOUS
  <2>2. a - 1 + x = i /\ a + x = i + 1
    BY <2>1
  <2>3. r[a - 1 + x] = v[x]
    BY <1>3, <1>5, <1>10
  <2>4. v[x] = q[a + x]
    BY <1>6
  <2> QED BY <2>2, <2>3, <2>4
<1>13. RemoveAt(q, a) = r
  BY <1>1, <1>2, <1>7 DEF RemoveAt
<1> QED BY <1>3, <1>5, <1>8, <1>11, <1>12, <1>13

KeysApart(q) == \A i, j \in 1..Len(q) : q[i] = q[j] => i = j
OnlyLost(r, q, p) ==
    \A x : (\E i \in 1..Len(r) : r[i] = x) <=> x # p /\ \E i \in 1..Len(q) : q[i] = x

(* Removing the one place of a key keeps the order of the others.          *)
LEMMA KeyRemoved ==
    ASSUME NEW S, NEW q \in Seq(S), NEW p, KeysApart(q)
    PROVE  LET r == RemoveFirst(q, p)
           IN  r \in Seq(S) /\ KeysApart(r) /\ OnlyLost(r, q, p)
<1> USE DEF KeysApart, OnlyLost
<1>1. CASE \A i \in 1..Len(q) : q[i] # p
  <2>1. RemoveFirst(q, p) = q
    BY <1>1 DEF RemoveFirst
  <2> QED BY <1>1, <2>1
<1>2. CASE \E i \in 1..Len(q) : q[i] = p
  <2>1. PICK a \in 1..Len(q) : q[a] = p
    BY <1>2
  <2>2. {i \in 1..Len(q) : q[i] = p} = {a}
    BY <2>1
  <2>3. Min({a}) = a
    BY DEF Min
  <2>4. PICK r : r = RemoveAt(q, a)
    OBVIOUS
  <2>5. RemoveFirst(q, p) = r
    BY <1>2, <2>2, <2>3, <2>4 DEF RemoveFirst, SelectInSeq
  <2>6. /\ r \in Seq(S) /\ Len(r) = Len(q) - 1
        /\ \A i \in 1..a - 1 : r[i] = q[i]
        /\ \A i \in a..Len(q) - 1 : r[i] = q[i + 1]
    BY <2>4, PlaceRemoved
  <2>7. \A i, j \in 1..Len(r) : r[i] = r[j] => i = j
    <3> SUFFICES ASSUME NEW i \in 1..Len(r), NEW j \in 1..Len(r), r[i] = r[j] PROVE i = j
      OBVIOUS
    <3>1. PICK x \in 1..Len(q) : r[i] = q[x] /\ x = (IF i < a THEN i ELSE i + 1)
      BY <2>6
    <3>2. PICK y \in 1..Len(q) : r[j] = q[y] /\ y = (IF j < a THEN j ELSE j + 1)
      BY <2>6
    <3>3. x = y
      BY <3>1, <3>2
    <3> QED BY <3>1, <3>2, <3>3
  <2>8. ASSUME NEW i \in 1..Len(r) PROVE r[i] # p /\ \E x \in 1..Len(q) : q[x] = r[i]
    <3>1. PICK x \in 1..Len(q) : r[i] = q[x] /\ x # a
      <4>1. CASE i < a
        BY <4>1, <2>6
      <4>2. CASE ~(i < a)
        BY <4>2, <2>6
      <4> QED BY <4>1, <4>2
    <3> QED BY <2>1, <3>1
  <2>9. ASSUME NEW x \in 1..Len(q), q[x] # p PROVE \E i \in 1..Len(r) : r[i] = q[x]
    <3>1. CASE x < a
      BY <3>1, <2>6
    <3>2. CASE x > a
      <4>1. x - 1 \in a..Len(q) - 1 /\ x - 1 \in 1..Len(r) /\ r[x - 1] = q[x]
        BY <3>2, <2>6
      <4> QED BY <4>1
    <3> QED BY <2>1, <2>9, <3>1, <3>2
  <2>10. \A x : (\E i \in 1..Len(r) : r[i] = x) <=> x # p /\ \E i \in 1..Len(q) : q[i] = x
    BY <2>8, <2>9
  <2> QED BY <2>5, <2>6, <2>7, <2>10
<1> QED BY <1>1, <1>2

-----------------------------------------------------------------------------
(* Sums over finite sets, whose members the library takes in some order.   *)

Picks(C, D) == \A s \in SUBSET D : s # {} => C[s] \in s
RoundsIn(F, D, S) == \A x \in D, v \in S : F[x][v] \in S
Folded(D, C, S, F, s0) == \E g \in [SUBSET D -> S] : FoldsOver(g, SUBSET D, C, F, s0)

(* FoldExists, with its parts named.                                       *)
LEMMA FoldNamed ==
    ASSUME NEW D, IsFiniteSet(D), NEW C, Picks(C, D), NEW S, NEW s0 \in S, NEW F, RoundsIn(F, D, S)
    PROVE  Folded(D, C, S, F, s0)
BY FoldExists DEF Picks, RoundsIn, Folded

Sums(g, D, w) == g[{}] = 0 /\ \A s \in SUBSET D : \A x \in s : g[s] = w[x] + g[s \ {x}]

Totals(g, D, w) == \A s \in SUBSET D : SumFunctionOnSet(w, s) = g[s]

(* A sum does not depend on the order in which the members are taken.      *)
LEMMA SumsExist ==
    ASSUME NEW D, IsFiniteSet(D), NEW w \in [D -> Nat]
    PROVE  \E g \in [SUBSET D -> Nat] : Sums(g, D, w) /\ Totals(g, D, w)
<1>0. \A s \in SUBSET D : IsFiniteSet(s) /\ Cardinality(s) \in Nat /\ Cardinality(s) <= Cardinality(D)
  BY FS_Subset, FS_CardinalityType
<1>0a. Cardinality(D) \in Nat
  BY FS_CardinalityType
<1>0b. \A s \in SUBSET D : \A x \in s : s \ {x} \in SUBSET D /\ Cardinality(s \ {x}) = Cardinality(s) - 1
  BY <1>0, FS_RemoveElement
<1>1. PICK C : C = [s \in SUBSET D |-> CHOOSE x \in s : TRUE]
  OBVIOUS
<1>2. \A s \in SUBSET D : s # {} => C[s] \in s /\ C[s] = CHOOSE x \in s : TRUE
  BY <1>1
<1>3. PICK F : F = [x \in D |-> [v \in Nat |-> w[x] + v]]
  OBVIOUS
<1>4. \A x \in D, v \in Nat : F[x][v] = w[x] + v /\ F[x][v] \in Nat
  BY <1>3
<1>5. PICK g \in [SUBSET D -> Nat] : FoldsOver(g, SUBSET D, C, F, 0)
  <2>1. \A s \in SUBSET D : s # {} => C[s] \in s
    BY <1>2
  <2>2. \A x \in D, v \in Nat : F[x][v] \in Nat
    BY <1>4
  <2>3. PICK V : V = Nat
    OBVIOUS
  <2>4. 0 \in V /\ \A x \in D, v \in V : F[x][v] \in V
    BY <2>2, <2>3
  <2>5. PICK zero \in V : zero = 0
    BY <2>4
  <2>6. \A x \in D, v \in V : F[x][v] \in V
    BY <2>4
  <2>7. IsFiniteSet(D)
    OBVIOUS
  <2>8. Picks(C, D) /\ RoundsIn(F, D, V)
    BY <2>1, <2>6 DEF Picks, RoundsIn
  <2>9. Folded(D, C, V, F, zero)
    BY <2>7, <2>8, FoldNamed
  <2> QED BY <2>3, <2>5, <2>9 DEF Folded
<1>6. g[{}] = 0
  BY <1>5 DEF FoldsOver
<1>7. ASSUME NEW s \in SUBSET D, s # {}
      PROVE  C[s] \in s /\ g[s \ {C[s]}] \in Nat /\ g[s] = w[C[s]] + g[s \ {C[s]}]
  <2>1. C[s] \in s /\ C[s] \in D /\ s \ {C[s]} \in SUBSET D
    BY <1>2, <1>7
  <2>2. g[s] = F[C[s]][g[s \ {C[s]}]] /\ g[s \ {C[s]}] \in Nat
    BY <1>5, <1>7, <2>1 DEF FoldsOver
  <2> QED BY <1>4, <2>1, <2>2
<1>8. Sums(g, D, w)
  <2> DEFINE Taken == {n \in Nat : \A s \in SUBSET D : Cardinality(s) <= n => \A x \in s : g[s] = w[x] + g[s \ {x}]}
  <2>1. 0 \in Taken
    BY <1>0, FS_EmptySet
  <2>2. ASSUME NEW n \in 1..Cardinality(D), n - 1 \in Taken PROVE n \in Taken
    <3> SUFFICES ASSUME NEW s \in SUBSET D, Cardinality(s) <= n, NEW x \in s
                 PROVE  g[s] = w[x] + g[s \ {x}]
      BY <1>0a
    <3>1. PICK y : y = C[s]
      OBVIOUS
    <3>2. y \in s /\ g[s] = w[y] + g[s \ {y}]
      BY <1>7, <3>1
    <3>3. CASE y = x
      BY <3>2, <3>3
    <3>4. CASE y # x
      <4>1. PICK a \in SUBSET D : a = s \ {y}
        OBVIOUS
      <4>2. PICK b \in SUBSET D : b = s \ {x}
        OBVIOUS
      <4>3. Cardinality(a) <= n - 1 /\ Cardinality(b) <= n - 1
        BY <1>0, <1>0b, <3>2, <4>1, <4>2
      <4>4. g[a] = w[x] + g[a \ {x}] /\ g[b] = w[y] + g[b \ {y}]
        BY <2>2, <3>2, <3>4, <4>1, <4>2, <4>3
      <4>5. a \ {x} = b \ {y} /\ a \ {x} \in SUBSET D
        BY <4>1, <4>2
      <4>6. w[x] \in Nat /\ w[y] \in Nat /\ g[a \ {x}] \in Nat
        BY <3>2, <4>5
      <4>7. PICK k \in Nat : k = g[a \ {x}]
        BY <4>6
      <4>8. g[s] = w[y] + (w[x] + k) /\ g[b] = w[y] + k
        BY <3>2, <4>1, <4>4, <4>5, <4>7
      <4> QED BY <4>2, <4>6, <4>8
    <3> QED BY <3>3, <3>4
  <2>3. Cardinality(D) \in Taken
    <3> HIDE DEF Taken
    <3>1. 0..Cardinality(D) \subseteq Taken
      BY <1>0a, <2>1, <2>2, UpTo
    <3> QED BY <1>0a, <3>1
  <2> QED BY <1>0, <1>6, <2>3 DEF Sums
<1>9. ASSUME NEW t \in SUBSET D PROVE SumFunctionOnSet(w, t) = g[t]
  <2> DEFINE iter[s \in SUBSET t] == IF s = {} THEN 0 ELSE w[CHOOSE x \in s : TRUE] + iter[s \ {CHOOSE x \in s : TRUE}]
  <2>1. PICK h : h = [s \in SUBSET t |-> g[s]]
    OBVIOUS
  <2>1a. \A s \in SUBSET t : s # {} => (CHOOSE x \in s : TRUE) \in s /\ s \ {CHOOSE x \in s : TRUE} \in SUBSET t
    OBVIOUS
  <2>2. h = [s \in SUBSET t |-> IF s = {} THEN 0 ELSE w[CHOOSE x \in s : TRUE] + h[s \ {CHOOSE x \in s : TRUE}]]
    <3>1. ASSUME NEW s \in SUBSET t, s # {} PROVE h[s] = w[CHOOSE x \in s : TRUE] + h[s \ {CHOOSE x \in s : TRUE}]
      <4>1. s \in SUBSET D /\ C[s] = CHOOSE x \in s : TRUE
        BY <1>2, <3>1
      <4>2. g[s] = w[C[s]] + g[s \ {C[s]}]
        BY <1>7, <3>1, <4>1
      <4> QED BY <2>1, <2>1a, <3>1, <4>1, <4>2
    <3>2. h[{}] = 0
      BY <1>6, <2>1
    <3> QED BY <2>1, <3>1, <3>2
  <2>3. iter = [s \in SUBSET t |-> IF s = {} THEN 0 ELSE w[CHOOSE x \in s : TRUE] + iter[s \ {CHOOSE x \in s : TRUE}]]
    BY <2>2
  <2>4. SumFunctionOnSet(w, t) = iter[t]
    BY DEF SumFunctionOnSet, FoldFunctionOnSet, MapThenFoldSet
  <2> HIDE DEF iter
  <2>5. PICK it : it = iter
    OBVIOUS
  <2> DEFINE Same == {n \in Nat : \A s \in SUBSET t : Cardinality(s) <= n => it[s] = g[s]}
  <2>5a. it[{}] = g[{}]
    BY <1>6, <2>3, <2>5
  <2>6. 0 \in Same
    <3>1. \A s \in SUBSET D : Cardinality(s) <= 0 => s = {}
      BY <1>0, FS_EmptySet
    <3> QED BY <2>5a, <3>1
  <2>7. ASSUME NEW n \in 1..Cardinality(D), n - 1 \in Same PROVE n \in Same
    <3> SUFFICES ASSUME NEW s \in SUBSET t, Cardinality(s) <= n PROVE it[s] = g[s]
      BY <1>0a
    <3> SUFFICES ASSUME s # {} PROVE it[s] = g[s]
      BY <2>5a
    <3>1. PICK y : y = C[s]
      OBVIOUS
    <3>2. s \in SUBSET D
      OBVIOUS
    <3>3. y \in s /\ g[s] = w[y] + g[s \ {y}] /\ y = CHOOSE x \in s : TRUE
      BY <1>2, <1>7, <3>1, <3>2
    <3>4. it[s] = w[y] + it[s \ {y}]
      BY <2>3, <2>5, <3>3
    <3>5. s \ {y} \in SUBSET t /\ Cardinality(s \ {y}) <= n - 1
      <4>1. Cardinality(s \ {y}) = Cardinality(s) - 1 /\ Cardinality(s) \in Nat
        BY <1>0, <1>0b, <3>2, <3>3
      <4> QED BY <4>1
    <3> QED BY <2>7, <3>3, <3>4, <3>5
  <2>8. Cardinality(D) \in Same
    <3> HIDE DEF Same
    <3>1. 0..Cardinality(D) \subseteq Same
      BY <1>0a, <2>6, <2>7, UpTo
    <3> QED BY <1>0a, <3>1
  <2> QED BY <1>0, <2>4, <2>5, <2>8
<1> QED BY <1>8, <1>9 DEF Totals

(* Adding a member adds its weight.                                        *)
LEMMA SumAdd ==
    ASSUME NEW D, IsFiniteSet(D), NEW w \in [D -> Nat], NEW s \in SUBSET D, NEW x \in s
    PROVE  /\ SumFunctionOnSet(w, s) = w[x] + SumFunctionOnSet(w, s \ {x})
           /\ SumFunctionOnSet(w, s \ {x}) \in Nat
<1>1. PICK g \in [SUBSET D -> Nat] : Sums(g, D, w) /\ Totals(g, D, w)
  BY SumsExist
<1>2. s \ {x} \in SUBSET D
  OBVIOUS
<1> QED BY <1>1, <1>2 DEF Sums, Totals

LEMMA SumType ==
    ASSUME NEW D, IsFiniteSet(D), NEW w \in [D -> Nat], NEW s \in SUBSET D
    PROVE  SumFunctionOnSet(w, s) \in Nat /\ SumFunctionOnSet(w, {}) = 0
<1>1. PICK g \in [SUBSET D -> Nat] : Sums(g, D, w) /\ Totals(g, D, w)
  BY SumsExist
<1> QED BY <1>1 DEF Sums, Totals

(* A sum depends on the weights of its members only.                       *)
LEMMA SumAgree ==
    ASSUME NEW D, IsFiniteSet(D), NEW v \in [D -> Nat], NEW w \in [D -> Nat],
           NEW s \in SUBSET D, \A x \in s : v[x] = w[x]
    PROVE  SumFunctionOnSet(v, s) = SumFunctionOnSet(w, s)
<1>0. \A t \in SUBSET D : IsFiniteSet(t) /\ Cardinality(t) \in Nat /\ Cardinality(t) <= Cardinality(D)
  BY FS_Subset, FS_CardinalityType
<1>0a. Cardinality(D) \in Nat
  BY FS_CardinalityType
<1>1. PICK g \in [SUBSET D -> Nat] : Sums(g, D, v) /\ Totals(g, D, v)
  BY SumsExist
<1>2. PICK h \in [SUBSET D -> Nat] : Sums(h, D, w) /\ Totals(h, D, w)
  BY SumsExist
<1> DEFINE Same == {n \in Nat : \A t \in SUBSET s : Cardinality(t) <= n => g[t] = h[t]}
<1>3. g[{}] = h[{}]
  BY <1>1, <1>2 DEF Sums
<1>3a. 0 \in Same
  <2>1. \A t \in SUBSET D : Cardinality(t) <= 0 => t = {}
    BY <1>0, FS_EmptySet
  <2> QED BY <1>3, <2>1
<1>4. ASSUME NEW n \in 1..Cardinality(D), n - 1 \in Same PROVE n \in Same
  <2> SUFFICES ASSUME NEW t \in SUBSET s, Cardinality(t) <= n PROVE g[t] = h[t]
    BY <1>0a
  <2> SUFFICES ASSUME t # {} PROVE g[t] = h[t]
    BY <1>3
  <2>1. PICK x \in t : TRUE
    OBVIOUS
  <2>2. t \in SUBSET D /\ t \ {x} \in SUBSET s
    OBVIOUS
  <2>3. Cardinality(t \ {x}) = Cardinality(t) - 1
    BY <1>0, <2>2, FS_RemoveElement
  <2>4. g[t \ {x}] = h[t \ {x}]
    BY <1>0, <1>4, <2>2, <2>3
  <2> QED BY <1>1, <1>2, <2>2, <2>4 DEF Sums
<1>5. Cardinality(D) \in Same
  <2> HIDE DEF Same
  <2>1. 0..Cardinality(D) \subseteq Same
    BY <1>0a, <1>3a, <1>4, UpTo
  <2> QED BY <1>0a, <2>1
<1> QED BY <1>0, <1>1, <1>2, <1>5 DEF Totals

OneMore(r, q, p) == \A x : (\E i \in 1..Len(r) : r[i] = x) <=> x = p \/ \E i \in 1..Len(q) : q[i] = x

(* A key that is set again goes to the end.                                *)
LEMMA KeyToEnd ==
    ASSUME NEW S, NEW q \in Seq(S), NEW p \in S, KeysApart(q)
    PROVE  LET r == Append(RemoveFirst(q, p), p)
           IN  r \in Seq(S) /\ KeysApart(r) /\ OneMore(r, q, p)
<1>1. PICK o : o = RemoveFirst(q, p)
  OBVIOUS
<1>2. o \in Seq(S) /\ KeysApart(o) /\ OnlyLost(o, q, p)
  BY <1>1, KeyRemoved
<1>3. o \in Seq(S)
  BY <1>2
<1>4. Append(o, p) \in Seq(S)
  BY <1>3
<1>5. PICK r \in Seq(S) : r = Append(o, p)
  BY <1>4
<1>6. Len(r) = Len(o) + 1 /\ Len(o) \in Nat
  BY <1>3, <1>5
<1>7. r[Len(o) + 1] = p
  BY <1>3, <1>5
<1>8. \A i \in 1..Len(o) : r[i] = o[i]
  BY <1>3, <1>5
<1>9. \A i \in 1..Len(o) : o[i] # p
  BY <1>2 DEF OnlyLost
<1>10. ASSUME NEW i \in 1..Len(r), NEW j \in 1..Len(r), r[i] = r[j] PROVE i = j
  <2>1. (i \in 1..Len(o) \/ i = Len(o) + 1) /\ (j \in 1..Len(o) \/ j = Len(o) + 1)
    BY <1>6
  <2> QED BY <1>2, <1>7, <1>8, <1>9, <1>10, <2>1 DEF KeysApart
<1>11. ASSUME NEW x
       PROVE  (\E i \in 1..Len(r) : r[i] = x) <=> x = p \/ \E i \in 1..Len(q) : q[i] = x
  <2>1. (\E i \in 1..Len(o) : o[i] = x) <=> x # p /\ \E i \in 1..Len(q) : q[i] = x
    BY <1>2 DEF OnlyLost
  <2>2. (\E i \in 1..Len(r) : r[i] = x) <=> x = p \/ \E i \in 1..Len(o) : o[i] = x
    <3>1. ASSUME NEW i \in 1..Len(r), r[i] = x PROVE x = p \/ \E k \in 1..Len(o) : o[k] = x
      <4>1. i \in 1..Len(o) \/ i = Len(o) + 1
        BY <1>6
      <4> QED BY <1>7, <1>8, <3>1, <4>1
    <3>2. ASSUME NEW i \in 1..Len(o), o[i] = x PROVE \E k \in 1..Len(r) : r[k] = x
      <4>1. i \in 1..Len(r) /\ r[i] = x
        BY <1>6, <1>8, <3>2
      <4> QED BY <4>1
    <3>3. x = p => \E k \in 1..Len(r) : r[k] = x
      <4>1. Len(o) + 1 \in 1..Len(r)
        BY <1>6
      <4> QED BY <1>7, <4>1
    <3> QED BY <3>1, <3>2, <3>3
  <2>3. x = p \/ x # p
    OBVIOUS
  <2> QED BY <2>1, <2>2, <2>3, Zenon
<1>12. KeysApart(r)
  BY <1>10 DEF KeysApart
<1>13. OneMore(r, q, p)
  BY <1>11 DEF OneMore
<1> QED BY <1>1, <1>5, <1>12, <1>13

Ascending(q) == \A i, j \in 1..Len(q) : i < j => q[i] < q[j]

(* Removing a number from an ascending sequence.                           *)
LEMMA AscendingRemoved ==
    ASSUME NEW q \in Seq(Nat), NEW p, Ascending(q)
    PROVE  LET r == RemoveFirst(q, p)
           IN  r \in Seq(Nat) /\ Ascending(r) /\ OnlyLost(r, q, p)
<1>0. \A i \in 1..Len(q) : q[i] \in Nat
  OBVIOUS
<1>1. KeysApart(q)
  <2> SUFFICES ASSUME NEW i \in 1..Len(q), NEW j \in 1..Len(q), q[i] = q[j] PROVE i = j
    BY DEF KeysApart
  <2>1. ~(i < j) /\ ~(j < i)
    BY <1>0 DEF Ascending
  <2> QED BY <2>1
<1>2. PICK r : r = RemoveFirst(q, p)
  OBVIOUS
<1>3. r \in Seq(Nat) /\ OnlyLost(r, q, p)
  BY <1>1, <1>2, KeyRemoved
<1>4. Ascending(r)
  <2>1. CASE \A i \in 1..Len(q) : q[i] # p
    BY <1>2, <2>1 DEF RemoveFirst
  <2>2. CASE \E i \in 1..Len(q) : q[i] = p
    <3>1. PICK a \in 1..Len(q) : q[a] = p
      BY <2>2
    <3>2. {i \in 1..Len(q) : q[i] = p} = {a}
      BY <1>1, <3>1 DEF KeysApart
    <3>3. Min({a}) = a
      BY DEF Min
    <3>4. r = RemoveAt(q, a)
      BY <1>2, <2>2, <3>2, <3>3 DEF RemoveFirst, SelectInSeq
    <3>5. /\ r \in Seq(Nat) /\ Len(r) = Len(q) - 1
          /\ \A i \in 1..a - 1 : r[i] = q[i]
          /\ \A i \in a..Len(q) - 1 : r[i] = q[i + 1]
      BY <3>4, PlaceRemoved
    <3> SUFFICES ASSUME NEW i \in 1..Len(r), NEW j \in 1..Len(r), i < j PROVE r[i] < r[j]
      BY DEF Ascending
    <3>6. PICK x \in 1..Len(q) : r[i] = q[x] /\ x = (IF i < a THEN i ELSE i + 1)
      <4>1. CASE i < a
        <5>1. i \in 1..a - 1 /\ i \in 1..Len(q)
          BY <3>5, <4>1
        <5> QED BY <3>5, <4>1, <5>1
      <4>2. CASE ~(i < a)
        <5>1. i \in a..Len(q) - 1 /\ i + 1 \in 1..Len(q)
          BY <3>5, <4>2
        <5> QED BY <3>5, <4>2, <5>1
      <4> QED BY <4>1, <4>2
    <3>7. PICK y \in 1..Len(q) : r[j] = q[y] /\ y = (IF j < a THEN j ELSE j + 1)
      <4>1. CASE j < a
        <5>1. j \in 1..a - 1 /\ j \in 1..Len(q)
          BY <3>5, <4>1
        <5> QED BY <3>5, <4>1, <5>1
      <4>2. CASE ~(j < a)
        <5>1. j \in a..Len(q) - 1 /\ j + 1 \in 1..Len(q)
          BY <3>5, <4>2
        <5> QED BY <3>5, <4>2, <5>1
      <4> QED BY <4>1, <4>2
    <3>8. x < y
      BY <3>6, <3>7
    <3> QED BY <3>6, <3>7, <3>8 DEF Ascending
  <2> QED BY <2>1, <2>2
<1> QED BY <1>2, <1>3, <1>4

-----------------------------------------------------------------------------
(* Recursion towards the end: each place ends or goes on at a later one.   *)

RunsDown(f, N, next, base, upd) ==
    \A i \in 1..N : f[i] = IF next[i] = 0 THEN base[i] ELSE upd[i][f[next[i]]]
GoesOn(N, S, next, base, upd) ==
    \A i \in 1..N : /\ next[i] = 0 \/ next[i] \in i + 1..N
                    /\ base[i] \in S /\ \A v \in S : upd[i][v] \in S

LEMMA RunsDownExists ==
    ASSUME NEW N \in Nat, NEW S, NEW next, NEW base, NEW upd, GoesOn(N, S, next, base, upd)
    PROVE  \E f \in [1..N -> S] : RunsDown(f, N, next, base, upd)
<1> DEFINE Eq(f, i) == f[i] = IF next[i] = 0 THEN base[i] ELSE upd[i][f[next[i]]]
           Done == {n \in Nat : \E f \in [1..N -> S] : \A i \in 1..N : i > N - n => Eq(f, i)}
<1>0. \A i \in 1..N : /\ next[i] = 0 \/ next[i] \in i + 1..N
                      /\ base[i] \in S /\ \A v \in S : upd[i][v] \in S
  BY DEF GoesOn
<1>1. 0 \in Done
  <2>1. PICK f : f = [i \in 1..N |-> base[i]]
    OBVIOUS
  <2>2. f \in [1..N -> S]
    BY <1>0, <2>1
  <2>3. \A i \in 1..N : ~(i > N - 0)
    OBVIOUS
  <2> QED BY <2>2, <2>3
<1>2. ASSUME NEW n \in 1..N, n - 1 \in Done PROVE n \in Done
  <2>1. PICK f \in [1..N -> S] : \A i \in 1..N : i > N - (n - 1) => Eq(f, i)
    BY <1>2
  <2>2. PICK a \in 1..N : a = N - n + 1
    OBVIOUS
  <2>3. PICK x : x = IF next[a] = 0 THEN base[a] ELSE upd[a][f[next[a]]]
    OBVIOUS
  <2>4. x \in S
    <3>1. next[a] # 0 => next[a] \in 1..N
      BY <1>0, <2>2
    <3> QED BY <1>0, <2>3, <3>1
  <2>5. PICK g : g = [f EXCEPT ![a] = x]
    OBVIOUS
  <2>6. g \in [1..N -> S] /\ g[a] = x /\ \A i \in 1..N : i # a => g[i] = f[i]
    BY <2>4, <2>5
  <2>7. ASSUME NEW i \in 1..N, i > N - n PROVE Eq(g, i)
    <3>1. next[i] # 0 => next[i] \in 1..N /\ next[i] > i
      BY <1>0
    <3>2. i >= a
      BY <2>2, <2>7
    <3>3. next[i] # 0 => g[next[i]] = f[next[i]]
      BY <2>6, <3>1, <3>2
    <3>4. CASE i = a
      BY <2>3, <2>6, <3>3, <3>4
    <3>5. CASE i # a
      <4>1. i > N - (n - 1)
        BY <2>2, <3>2, <3>5
      <4>2. Eq(f, i)
        BY <2>1, <4>1
      <4> QED BY <2>6, <3>3, <3>5, <4>2
    <3> QED BY <3>4, <3>5
  <2> HIDE DEF Eq
  <2> QED BY <2>6, <2>7
<1>3. 0..N \subseteq Done
  <2> HIDE DEF Done
  <2> QED BY <1>1, <1>2, UpTo
<1>4. PICK f \in [1..N -> S] : \A i \in 1..N : i > N - N => Eq(f, i)
  BY <1>3
<1>5. \A i \in 1..N : i > N - N
  OBVIOUS
<1> QED BY <1>4, <1>5 DEF RunsDown

(* Induction towards the end.                                              *)
LEMMA DownTo ==
    ASSUME NEW N \in Nat, NEW P,
           \A i \in 1..N : (\A j \in i + 1..N : j \in P) => i \in P
    PROVE  1..N \subseteq P
<1> DEFINE Done == {n \in Nat : \A i \in 1..N : i > N - n => i \in P}
<1>1. 0 \in Done
  <2>3. \A i \in 1..N : ~(i > N - 0)
    OBVIOUS
  <2> QED BY <2>3
<1>2. ASSUME NEW n \in 1..N, n - 1 \in Done PROVE n \in Done
  <2> SUFFICES ASSUME NEW i \in 1..N, i > N - n PROVE i \in P
    OBVIOUS
  <2>1. \A j \in i + 1..N : j \in 1..N /\ j > N - (n - 1)
    OBVIOUS
  <2>2. \A j \in i + 1..N : j \in P
    BY <1>2, <2>1
  <2> QED BY <2>2
<1>3. 0..N \subseteq Done
  <2> HIDE DEF Done
  <2> QED BY <1>1, <1>2, UpTo
<1>4. \A i \in 1..N : i > N - N => i \in P
  BY <1>3
<1> QED BY <1>4

(* The end of a sequence from a place on.                                  *)
LEMMA RestOf ==
    ASSUME NEW S, NEW h \in Seq(S), NEW k \in 1..Len(h)
    PROVE  LET r == SubSeq(h, k, Len(h))
           IN  /\ r \in Seq(S) /\ Len(r) = Len(h) - k + 1
               /\ \A i \in 1..Len(r) : k + i - 1 \in 1..Len(h) /\ r[i] = h[k + i - 1]
<1>1. PICK r : r = SubSeq(h, k, Len(h))
  OBVIOUS
<1>2. r \in Seq(S)
  BY <1>1
<1>3. Len(r) = Len(h) - k + 1
  BY <1>1
<1>4. \A i \in 1..Len(h) - k + 1 : r[i] = h[k + i - 1]
  BY <1>1
<1>5. \A i \in 1..Len(h) - k + 1 : k + i - 1 \in 1..Len(h)
  OBVIOUS
<1> QED BY <1>1, <1>2, <1>3, <1>4, <1>5

(* A loop that goes from one place to the next, of a lower rank, until it  *)
(* is done.                                                                *)
Goes(f, D, Done, base, next) ==
    \A r \in D : f[r] = IF r \in Done THEN base[r] ELSE f[next[r]]
Nearer(D, Done, next, rank) ==
    \A r \in D : r \notin Done => next[r] \in D /\ rank[next[r]] < rank[r]

LEMMA GoesExists ==
    ASSUME NEW M \in Nat, NEW D, NEW Done, NEW S, NEW base \in [D -> S], NEW next,
           NEW rank \in [D -> 0..M], Nearer(D, Done, next, rank)
    PROVE  \E f \in [D -> S] : Goes(f, D, Done, base, next)
<1> DEFINE Eq(f, r) == f[r] = IF r \in Done THEN base[r] ELSE f[next[r]]
           Far == {n \in Nat : \E f \in [D -> S] : \A r \in D : rank[r] <= n => Eq(f, r)}
<1>0. \A r \in D : r \notin Done => next[r] \in D /\ rank[next[r]] < rank[r]
  BY DEF Nearer
<1>1. 0 \in Far
  <2>1. \A r \in D : rank[r] <= 0 => r \in Done
    BY <1>0
  <2>2. \A r \in D : rank[r] <= 0 => Eq(base, r)
    BY <2>1
  <2> HIDE DEF Eq
  <2> QED BY <2>2
<1>2. ASSUME NEW n \in 1..M, n - 1 \in Far PROVE n \in Far
  <2>1. PICK f \in [D -> S] : \A r \in D : rank[r] <= n - 1 => Eq(f, r)
    BY <1>2
  <2>2. PICK g : g = [r \in D |-> IF rank[r] <= n - 1 THEN f[r] ELSE IF r \in Done THEN base[r] ELSE f[next[r]]]
    OBVIOUS
  <2>3. g \in [D -> S]
    <3>1. \A r \in D : r \notin Done => next[r] \in D
      BY <1>0
    <3> QED BY <2>2, <3>1
  <2>4. ASSUME NEW r \in D, rank[r] <= n PROVE Eq(g, r)
    <3>1. r \notin Done => next[r] \in D /\ g[next[r]] = f[next[r]]
      <4>1. ASSUME r \notin Done PROVE next[r] \in D /\ rank[next[r]] <= n - 1
        BY <1>0, <2>4, <4>1
      <4> QED BY <2>2, <4>1
    <3>2. CASE rank[r] <= n - 1
      <4>1. Eq(f, r) /\ g[r] = f[r]
        BY <2>1, <2>2, <3>2
      <4> QED BY <3>1, <4>1
    <3>3. CASE ~(rank[r] <= n - 1)
      <4>1. g[r] = IF r \in Done THEN base[r] ELSE f[next[r]]
        BY <2>2, <3>3
      <4> QED BY <3>1, <4>1
    <3> QED BY <3>2, <3>3
  <2> HIDE DEF Eq
  <2> QED BY <2>3, <2>4
<1>3. 0..M \subseteq Far
  <2> HIDE DEF Far
  <2> QED BY <1>1, <1>2, UpTo
<1>4. PICK f \in [D -> S] : \A r \in D : rank[r] <= M => Eq(f, r)
  BY <1>3
<1>5. \A r \in D : rank[r] <= M
  OBVIOUS
<1> QED BY <1>4, <1>5 DEF Goes

(* What is kept at every place holds where the loop ends.                  *)
LEMMA GoesKeeps ==
    ASSUME NEW M \in Nat, NEW D, NEW Done, NEW base, NEW next, NEW f,
           NEW rank \in [D -> 0..M], Nearer(D, Done, next, rank), Goes(f, D, Done, base, next),
           NEW P, P \subseteq D, \A r \in P : r \notin Done => next[r] \in P, NEW r0 \in P
    PROVE  \E r \in P : r \in Done /\ f[r0] = base[r]
<1> DEFINE Far == {n \in Nat : \A r \in P : rank[r] <= n => \E e \in P : e \in Done /\ f[r] = base[e]}
<1>0. \A r \in D : r \notin Done => next[r] \in D /\ rank[next[r]] < rank[r]
  BY DEF Nearer
<1>1. 0 \in Far
  <2>1. \A r \in P : rank[r] <= 0 => r \in Done /\ f[r] = base[r]
    BY <1>0 DEF Goes
  <2> QED BY <2>1
<1>2. ASSUME NEW n \in 1..M, n - 1 \in Far PROVE n \in Far
  <2>1. ASSUME NEW r \in P, rank[r] <= n PROVE \E e \in P : e \in Done /\ f[r] = base[e]
    <3>1. CASE r \in Done
      BY <3>1 DEF Goes
    <3>2. CASE r \notin Done
      <4>1. next[r] \in P /\ rank[next[r]] <= n - 1
        BY <1>0, <2>1, <3>2
      <4>2. f[r] = f[next[r]]
        BY <3>2 DEF Goes
      <4> QED BY <1>2, <4>1, <4>2
    <3> QED BY <3>1, <3>2
  <2> QED BY <2>1
<1>3. 0..M \subseteq Far
  <2> HIDE DEF Far
  <2> QED BY <1>1, <1>2, UpTo
<1>4. rank[r0] <= M /\ M \in Far
  BY <1>3
<1> QED BY <1>4

(* A binary search.  Left holds the places whose element does not belong   *)
(* to the right of what is searched for.                                   *)
Span(N) == (0..N) \X (0..N)
Half(r) == (r[1] + r[2]) \div 2
Narrowed(r, Left) == IF Half(r) \in Left THEN <<Half(r) + 1, r[2]>> ELSE <<r[1], Half(r)>>
Finds(f, N, Left) ==
    \A r \in Span(N) : f[r] = IF r[1] >= r[2] THEN r[1] ELSE f[Narrowed(r, Left)]

LEMMA HalfBetween ==
    ASSUME NEW N \in Nat, NEW a \in 0..N, NEW b \in 0..N, a < b
    PROVE  (a + b) \div 2 \in a..b - 1
OBVIOUS

LEMMA NarrowedFacts ==
    ASSUME NEW N \in Nat, NEW Left, NEW r \in Span(N), r[1] < r[2]
    PROVE  LET s == Narrowed(r, Left)
           IN  s \in Span(N) /\ s[2] - s[1] < r[2] - r[1] /\ s[1] <= s[2]
<1>1. PICK a, b \in 0..N : r = <<a, b>>
  BY DEF Span
<1>2. PICK h : h = (a + b) \div 2
  OBVIOUS
<1>3. h \in a..b - 1 /\ Half(r) = h
  BY <1>1, <1>2, HalfBetween DEF Half
<1>4. h \in 0..N /\ h + 1 \in 0..N
  BY <1>3
<1>5. CASE Half(r) \in Left
  <2>1. Narrowed(r, Left) = <<h + 1, b>>
    BY <1>1, <1>3, <1>5 DEF Narrowed
  <2>2. <<h + 1, b>> \in Span(N)
    BY <1>4 DEF Span
  <2>3. b - (h + 1) < b - a /\ h + 1 <= b
    BY <1>3
  <2> QED BY <1>1, <2>1, <2>2, <2>3
<1>6. CASE Half(r) \notin Left
  <2>1. Narrowed(r, Left) = <<a, h>>
    BY <1>1, <1>3, <1>6 DEF Narrowed
  <2>2. <<a, h>> \in Span(N)
    BY <1>4 DEF Span
  <2>3. h - a < b - a /\ a <= h
    BY <1>3
  <2> QED BY <1>1, <2>1, <2>2, <2>3
<1> QED BY <1>5, <1>6

Ended(N) == {r \in Span(N) : r[1] >= r[2]}
Starts(N) == [r \in Span(N) |-> r[1]]
Steps(N, Left) == [r \in Span(N) |-> Narrowed(r, Left)]
Width(N) == [r \in Span(N) |-> IF r[1] >= r[2] THEN 0 ELSE r[2] - r[1]]

LEMMA FindGoes ==
    ASSUME NEW N \in Nat, NEW Left
    PROVE  /\ Starts(N) \in [Span(N) -> 0..N] /\ Width(N) \in [Span(N) -> 0..N]
           /\ Nearer(Span(N), Ended(N), Steps(N, Left), Width(N))
           /\ \A f : Goes(f, Span(N), Ended(N), Starts(N), Steps(N, Left)) <=> Finds(f, N, Left)
<1>0. \A r \in Span(N) : r[1] \in 0..N /\ r[2] \in 0..N
  BY DEF Span
<1>1. Starts(N) \in [Span(N) -> 0..N]
  BY <1>0 DEF Starts
<1>2. Width(N) \in [Span(N) -> 0..N]
  <2>1. \A a, b \in 0..N : (IF a >= b THEN 0 ELSE b - a) \in 0..N
    OBVIOUS
  <2>2. \A r \in Span(N) : (IF r[1] >= r[2] THEN 0 ELSE r[2] - r[1]) \in 0..N
    BY <1>0, <2>1
  <2> QED BY <2>2 DEF Width
<1>3. ASSUME NEW r \in Span(N), r \notin Ended(N)
      PROVE  Steps(N, Left)[r] \in Span(N) /\ Width(N)[Steps(N, Left)[r]] < Width(N)[r]
  <2>1. r[1] < r[2]
    BY <1>0, <1>3 DEF Ended
  <2>2. PICK s : s = Narrowed(r, Left)
    OBVIOUS
  <2>3. s \in Span(N) /\ s[2] - s[1] < r[2] - r[1] /\ s[1] <= s[2]
    BY <2>1, <2>2, NarrowedFacts
  <2>4. Steps(N, Left)[r] = s
    BY <2>2 DEF Steps
  <2>5. Width(N)[r] = r[2] - r[1] /\ Width(N)[s] = IF s[1] >= s[2] THEN 0 ELSE s[2] - s[1]
    BY <1>0, <2>1, <2>3 DEF Width
  <2>6. s[1] \in 0..N /\ s[2] \in 0..N /\ r[1] \in 0..N /\ r[2] \in 0..N
    BY <1>0, <2>3
  <2>7. Width(N)[s] < Width(N)[r]
    BY <2>1, <2>3, <2>5, <2>6
  <2> QED BY <2>3, <2>4, <2>7
<1>4. Nearer(Span(N), Ended(N), Steps(N, Left), Width(N))
  BY <1>3 DEF Nearer
<1>5. ASSUME NEW f PROVE Goes(f, Span(N), Ended(N), Starts(N), Steps(N, Left)) <=> Finds(f, N, Left)
  <2>1. \A r \in Span(N) : /\ r \in Ended(N) <=> r[1] >= r[2]
                           /\ Starts(N)[r] = r[1] /\ Steps(N, Left)[r] = Narrowed(r, Left)
    BY DEF Ended, Starts, Steps
  <2> QED BY <2>1 DEF Goes, Finds
<1> QED BY <1>1, <1>2, <1>4, <1>5

LEMMA FindExists ==
    ASSUME NEW N \in Nat, NEW Left
    PROVE  \E f \in [Span(N) -> 0..N] : Finds(f, N, Left)
<1>1. PICK D, E, b, s, w : /\ D = Span(N) /\ E = Ended(N) /\ b = Starts(N) /\ s = Steps(N, Left)
                           /\ w = Width(N)
  OBVIOUS
<1>2. b \in [D -> 0..N] /\ w \in [D -> 0..N] /\ Nearer(D, E, s, w)
  BY <1>1, FindGoes
<1>3. PICK f \in [D -> 0..N] : Goes(f, D, E, b, s)
  BY <1>2, GoesExists
<1> QED BY <1>1, <1>3, FindGoes

(* The search ends after an element on the left and before one that is not. *)
LEMMA FindEnds ==
    ASSUME NEW N \in Nat, NEW Left, NEW f, Finds(f, N, Left), NEW x, x = f[<<0, N>>]
    PROVE  x \in 0..N /\ (x = 0 \/ x - 1 \in Left) /\ (x = N \/ x \notin Left)
<1>1. PICK D, E, b, s, w : /\ D = Span(N) /\ E = Ended(N) /\ b = Starts(N) /\ s = Steps(N, Left)
                           /\ w = Width(N)
  OBVIOUS
<1>2. w \in [D -> 0..N] /\ Nearer(D, E, s, w) /\ Goes(f, D, E, b, s)
  BY <1>1, FindGoes
<1> DEFINE Kept(r) == /\ r[1] <= r[2] /\ (r[1] = 0 \/ r[1] - 1 \in Left)
                      /\ (r[2] = N \/ r[2] \notin Left)
<1>3. PICK P : P = {r \in Span(N) : Kept(r)}
  OBVIOUS
<1>4. PICK r0 : r0 = <<0, N>>
  OBVIOUS
<1>5. r0 \in P
  <2>1. r0 \in Span(N) /\ r0[1] = 0 /\ r0[2] = N
    BY <1>4 DEF Span
  <2> QED BY <1>3, <2>1
<1>6. ASSUME NEW r \in P, r \notin E PROVE s[r] \in P
  <2>1. r \in Span(N) /\ Kept(r)
    BY <1>3
  <2>2. PICK c, d \in 0..N : r = <<c, d>>
    BY <2>1 DEF Span
  <2>3. c < d
    BY <1>1, <1>6, <2>1, <2>2 DEF Ended
  <2>4. PICK h : h = (c + d) \div 2
    OBVIOUS
  <2>5. h \in c..d - 1 /\ Half(r) = h
    BY <2>2, <2>3, <2>4, HalfBetween DEF Half
  <2>6. s[r] = Narrowed(r, Left)
    BY <1>1, <2>1 DEF Steps
  <2>7. CASE h \in Left
    <3>1. s[r] = <<h + 1, d>> /\ h + 1 \in 0..N
      BY <2>2, <2>5, <2>6, <2>7 DEF Narrowed
    <3>2. <<h + 1, d>> \in Span(N) /\ h + 1 <= d /\ (h + 1) - 1 = h
      BY <2>5, <3>1 DEF Span
    <3>3. d = N \/ d \notin Left
      BY <2>1, <2>2
    <3>4. Kept(<<h + 1, d>>)
      BY <2>7, <3>2, <3>3
    <3> QED BY <1>3, <3>1, <3>2, <3>4
  <2>8. CASE h \notin Left
    <3>1. s[r] = <<c, h>> /\ h \in 0..N
      BY <2>2, <2>5, <2>6, <2>8 DEF Narrowed
    <3>2. <<c, h>> \in Span(N) /\ c <= h
      BY <2>5, <3>1 DEF Span
    <3>3. c = 0 \/ c - 1 \in Left
      BY <2>1, <2>2
    <3>4. Kept(<<c, h>>)
      BY <2>8, <3>2, <3>3
    <3> QED BY <1>3, <3>1, <3>2, <3>4
  <2> QED BY <2>7, <2>8
<1>7. P \subseteq D
  BY <1>1, <1>3
<1>8. PICK e \in P : e \in E /\ f[r0] = b[e]
  <2> HIDE DEF Kept
  <2> QED BY <1>2, <1>5, <1>6, <1>7, GoesKeeps
<1>9. e \in Span(N) /\ Kept(e) /\ e[1] >= e[2]
  BY <1>1, <1>3, <1>8 DEF Ended
<1>10. PICK c, d \in 0..N : e = <<c, d>>
  BY <1>9 DEF Span
<1>11. c = d /\ x = c
  BY <1>1, <1>4, <1>8, <1>9, <1>10 DEF Starts
<1> QED BY <1>9, <1>10, <1>11

-----------------------------------------------------------------------------
(* A loop that copies some numbers of a sequence to a new one.             *)

CopyOf(s, S) == FoldLeft(LAMBDA out, x : IF x \in S THEN Append(out, x) ELSE out, <<>>, s)

CopyStep(v, e, S) == IF e \in S THEN Append(v, e) ELSE v

(* What it has copied after n rounds.                                      *)
Copied(r, s, S, n) ==
    /\ \A j \in 1..Len(r) : \E k \in 1..n : r[j] = s[k] /\ s[k] \in S
    /\ \A k \in 1..n : s[k] \in S => \E j \in 1..Len(r) : r[j] = s[k]
    /\ Ascending(s) => Ascending(r)

LEMMA CopyLadder ==
    ASSUME NEW E, NEW s \in Seq(E), NEW S
    PROVE  \E st \in [0..Len(s) -> Seq(E)] :
              /\ st[0] = <<>>
              /\ \A n \in 1..Len(s) : st[n] = CopyStep(st[n - 1], s[n], S)
              /\ st[Len(s)] = CopyOf(s, S)
<1>1. PICK N \in Nat : N = Len(s) /\ DOMAIN s = 1..N
  OBVIOUS
<1>2. PICK Out, start : Out = Seq(E) /\ start = <<>>
  OBVIOUS
<1> DEFINE Step(v, n) == IF s[n] \in S THEN Append(v, s[n]) ELSE v
<1>3. start \in Out
  BY <1>2
<1>4. PICK F : F = [n \in 1..N |-> [v \in Out |-> Step(v, n)]]
  OBVIOUS
<1>5. \A n \in 1..N, v \in Out : F[n][v] = Step(v, n)
  BY <1>4
<1>6. \A n \in 1..N, v \in Out : F[n][v] \in Out
  <2>1. \A n \in 1..N : s[n] \in E
    BY <1>1
  <2>2. \A v \in Out, e \in E : Append(v, e) \in Out
    BY <1>2
  <2>3. ASSUME NEW n \in 1..N, NEW v \in Out PROVE Step(v, n) \in Out
    BY <2>1, <2>2
  <2> HIDE DEF Step
  <2> QED BY <1>5, <2>3
<1>7. PICK g \in [SUBSET (1..N) -> Out] : FoldsLeft(g, N, Out, F, start)
  BY <1>3, <1>6, FoldLeftExists
<1> DEFINE iter[d \in SUBSET (1..N)] == IF d = {} THEN start ELSE Step(iter[d \ {Max(d)}], Max(d))
<1>8. g = [d \in SUBSET (1..N) |-> IF d = {} THEN start ELSE Step(g[d \ {Max(d)}], Max(d))]
  <2>1. \A d \in SUBSET (1..N) : d # {} => Max(d) \in 1..N /\ g[d \ {Max(d)}] \in Out
    BY GreatestUpTo
  <2>2. \A d \in SUBSET (1..N) : g[d] = IF d = {} THEN start ELSE Step(g[d \ {Max(d)}], Max(d))
    <3> HIDE DEF Step
    <3> QED BY <1>5, <1>7, <2>1 DEF FoldsLeft
  <2> QED BY <2>2
<1>9. iter = [d \in SUBSET (1..N) |-> IF d = {} THEN start ELSE Step(iter[d \ {Max(d)}], Max(d))]
  BY <1>8
<1>10. CopyOf(s, S) = iter[1..N]
  BY <1>1, <1>2 DEF CopyOf, FoldLeft, MapThenFoldSet, Max
<1> HIDE DEF iter, Step
<1>11. FoldsLeft(iter, N, Out, F, start)
  <2>1. \A d \in SUBSET (1..N) : d # {} => Max(d) \in 1..N
    BY GreatestUpTo
  <2> QED BY <1>9, <1>5, <2>1 DEF FoldsLeft
<1>12. PICK st \in [0..N -> Out] : Ladder(st, N, F, start) /\ st[N] = iter[1..N]
  <2>1. PICK it : it = iter
    OBVIOUS
  <2>2. FoldsLeft(it, N, Out, F, start)
    BY <1>11, <2>1
  <2>3. PICK st \in [0..N -> Out] : Ladder(st, N, F, start) /\ st[N] = it[1..N]
    BY <1>3, <1>6, <2>2, FoldLadder
  <2> QED BY <2>1, <2>3
<1>13. \A n \in 1..N : st[n - 1] \in Out /\ st[n] = Step(st[n - 1], n)
  <2>1. \A n \in 1..N : n - 1 \in 0..N
    BY <1>1
  <2>2. \A n \in 1..N : st[n - 1] \in Out
    BY <1>12, <2>1
  <2> QED BY <1>5, <1>12, <2>2 DEF Ladder
<1>14. \A n \in 1..N : st[n] = CopyStep(st[n - 1], s[n], S)
  BY <1>13 DEF Step, CopyStep
<1> QED BY <1>1, <1>2, <1>10, <1>12, <1>14 DEF Ladder

LEMMA CopyRound ==
    ASSUME NEW s \in Seq(Nat), NEW S, NEW n \in 1..Len(s), NEW v \in Seq(Nat), Copied(v, s, S, n - 1),
           NEW r, r = CopyStep(v, s[n], S)
    PROVE  Copied(r, s, S, n)
<1>1. Len(s) \in Nat /\ n \in Nat /\ s[n] \in Nat /\ 1..n - 1 \subseteq 1..n /\ n \in 1..n
  OBVIOUS
<1>2. \A k \in 1..n : k = n \/ k \in 1..n - 1
  OBVIOUS
<1>3. CASE s[n] \notin S
  <2>1. r = v
    BY <1>3 DEF CopyStep
  <2> QED BY <1>1, <1>2, <1>3, <2>1 DEF Copied
<1>4. CASE s[n] \in S
  <2>1. r \in Seq(Nat) /\ Len(r) = Len(v) + 1 /\ Len(v) \in Nat
    BY <1>1, <1>4 DEF CopyStep
  <2>2. r[Len(v) + 1] = s[n] /\ \A j \in 1..Len(v) : r[j] = v[j]
    BY <1>1, <1>4 DEF CopyStep
  <2>3. \A j \in 1..Len(r) : j = Len(v) + 1 \/ j \in 1..Len(v)
    BY <2>1
  <2>3a. Len(v) + 1 \in 1..Len(r) /\ 1..Len(v) \subseteq 1..Len(r)
    BY <2>1
  <2>4. \A j \in 1..Len(r) : \E k \in 1..n : r[j] = s[k] /\ s[k] \in S
    BY <1>1, <1>4, <2>2, <2>3 DEF Copied
  <2>5. \A k \in 1..n : s[k] \in S => \E j \in 1..Len(r) : r[j] = s[k]
    BY <1>2, <2>2, <2>3a DEF Copied
  <2>6. ASSUME Ascending(s), NEW i \in 1..Len(r), NEW j \in 1..Len(r), i < j PROVE r[i] < r[j]
    <3>1. i \in 1..Len(v)
      BY <2>1, <2>6
    <3>2. CASE j \in 1..Len(v)
      BY <2>2, <2>6, <3>1, <3>2 DEF Copied, Ascending
    <3>3. CASE j \notin 1..Len(v)
      <4>1. r[j] = s[n]
        BY <2>2, <2>3, <3>3
      <4>2. PICK k \in 1..n - 1 : v[i] = s[k]
        BY <3>1 DEF Copied
      <4>3. k < n /\ k \in 1..Len(s)
        OBVIOUS
      <4>4. s[k] < s[n]
        BY <2>6, <4>3 DEF Ascending
      <4> QED BY <2>2, <3>1, <4>1, <4>2, <4>4
    <3> QED BY <3>2, <3>3
  <2>7. Ascending(s) => Ascending(r)
    BY <2>6 DEF Ascending
  <2> QED BY <2>4, <2>5, <2>7 DEF Copied
<1> QED BY <1>3, <1>4

(* The loop copies what it is to copy, in order.                           *)
LEMMA CopyIs ==
    ASSUME NEW s \in Seq(Nat), NEW S, NEW r, r = CopyOf(s, S)
    PROVE  r \in Seq(Nat) /\ Copied(r, s, S, Len(s))
<1>1. PICK N \in Nat : N = Len(s)
  OBVIOUS
<1>2. PICK st \in [0..N -> Seq(Nat)] :
         /\ st[0] = <<>> /\ st[N] = r
         /\ \A n \in 1..N : st[n] = CopyStep(st[n - 1], s[n], S)
  BY <1>1, CopyLadder
<1> DEFINE G == {n \in 0..N : Copied(st[n], s, S, n)}
<1>3. 0 \in G
  <2>1. \A j : j \notin 1..Len(<<>>)
    OBVIOUS
  <2>2. \A k : k \notin 1..0
    OBVIOUS
  <2>3. Copied(<<>>, s, S, 0)
    BY <2>1, <2>2 DEF Copied, Ascending
  <2> QED BY <1>1, <1>2, <2>3
<1>4. ASSUME NEW n \in 1..N, n - 1 \in G PROVE n \in G
  <2>1. st[n - 1] \in Seq(Nat) /\ Copied(st[n - 1], s, S, n - 1)
    BY <1>2, <1>4
  <2>2. Copied(st[n], s, S, n)
    BY <1>1, <1>2, <2>1, CopyRound
  <2> QED BY <2>2
<1>5. N \in G
  <2> HIDE DEF G
  <2>1. 0..N \subseteq G
    BY <1>3, <1>4, UpTo
  <2> QED BY <2>1
<1> QED BY <1>1, <1>2, <1>5
=============================================================================
