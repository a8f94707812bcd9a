------------------------- MODULE SessionStoreProofs -------------------------
(***************************************************************************)
(* Theorems about SessionStore, for any set of tasks, any length of a run, *)
(* any tables and any snapshots that add to the logs.                      *)
(***************************************************************************)
EXTENDS SessionStore, FiniteSetTheorems, SequenceTheorems,
        WellFoundedInduction, TLAPS

-----------------------------------------------------------------------------
(* Ascending *)

(* Induction on the natural numbers, by a smallest counterexample. *)
LEMMA Least ==
  ASSUME NEW T \in SUBSET Nat, T # {}
  PROVE  \E x \in T : \A y \in T : x <= y
<1>1. \E x \in T : \A y \in T : <<y, x>> \notin OpToRel(<, Nat)
  BY NatLessThanWellFounded, WFMin
<1>2. OpToRel(<, Nat) = {ss \in Nat \X Nat : ss[1] < ss[2]}
  BY DEF OpToRel
<1>3. PICK x \in T : \A y \in T : <<y, x>> \notin {ss \in Nat \X Nat : ss[1] < ss[2]}
  BY <1>1, <1>2
<1>4. ASSUME NEW y \in T PROVE x <= y
  <2>1. x \in Nat /\ y \in Nat
    OBVIOUS
  <2>2. ~(y < x)
    BY <1>3, <2>1
  <2> QED
    BY <2>1, <2>2
<1> QED
  BY <1>4

Enumerates(s, S) ==
  /\ s \in [1..Cardinality(S) -> S]
  /\ \A i, j \in 1..Cardinality(S) : i < j => s[i] < s[j]

LEMMA BoundedFinite ==
  ASSUME NEW n \in Nat, NEW S \in SUBSET (1..n)
  PROVE  /\ IsFiniteSet(S)
         /\ Cardinality(S) \in Nat
         /\ Cardinality(S) <= n
         /\ \A x \in S : x \in Nat /\ 1 <= x /\ x <= n
<1>1. IsFiniteSet(1..n) /\ Cardinality(1..n) = n
  BY FS_Interval
<1>2. IsFiniteSet(S) /\ Cardinality(S) <= Cardinality(1..n)
  BY <1>1, FS_Subset
<1> QED
  BY <1>1, <1>2, FS_CardinalityType

LEMMA EnumerateOneMore ==
  ASSUME NEW n \in Nat, NEW S \in SUBSET (1..n), NEW s, Enumerates(s, S)
  PROVE  LET k == Cardinality(S)
         IN  /\ Cardinality(S \cup {n + 1}) = k + 1
             /\ Enumerates([i \in 1..(k + 1) |-> IF i <= k THEN s[i] ELSE n + 1],
                           S \cup {n + 1})
<1> DEFINE k == Cardinality(S)
           r == [i \in 1..(k + 1) |-> IF i <= k THEN s[i] ELSE n + 1]
<1>1. k \in Nat /\ IsFiniteSet(S)
  BY BoundedFinite
<1>2. n + 1 \notin S
  OBVIOUS
<1>3. Cardinality(S \cup {n + 1}) = k + 1
  BY <1>1, <1>2, FS_AddElement
<1>4. s \in [1..k -> S] /\ \A i, j \in 1..k : i < j => s[i] < s[j]
  BY DEF Enumerates
<1> HIDE DEF k
<1>5. r \in [1..(k + 1) -> S \cup {n + 1}]
  BY <1>1, <1>4
<1>6. ASSUME NEW i \in 1..(k + 1), NEW j \in 1..(k + 1), i < j
      PROVE  r[i] < r[j]
  <2>1. i \in 1..k /\ r[i] = s[i]
    BY <1>1, <1>6
  <2>2. s[i] \in Nat /\ s[i] <= n
    BY <1>4, <2>1, BoundedFinite
  <2>3. CASE j \in 1..k
    <3>1. r[j] = s[j] /\ s[i] < s[j]
      BY <1>1, <1>4, <1>6, <2>1, <2>3
    <3> QED
      BY <2>1, <3>1
  <2>4. CASE j = k + 1
    <3>1. r[j] = n + 1
      BY <1>1, <2>4
    <3> QED
      BY <2>1, <2>2, <3>1
  <2> QED
    BY <1>1, <2>3, <2>4
<1> QED
  BY <1>3, <1>5, <1>6 DEF Enumerates, k

LEMMA EnumerationExists ==
  \A n \in Nat : \A S \in SUBSET (1..n) : \E s : Enumerates(s, S)
<1> DEFINE P(n) == \A S \in SUBSET (1..n) : \E s : Enumerates(s, S)
           Bad == {n \in Nat : ~P(n)}
<1>1. SUFFICES ASSUME Bad # {} PROVE FALSE
  OBVIOUS
<1> HIDE DEF P
<1>2. PICK n \in Bad : \A m \in Bad : n <= m
  BY <1>1, Least
<1>3. PICK S \in SUBSET (1..n) : ~\E s : Enumerates(s, S)
  BY <1>2 DEF P
<1>4. CASE S = {}
  <2>1. [i \in 1..0 |-> i] \in [1..0 -> {}]
    OBVIOUS
  <2>2. Enumerates([i \in 1..0 |-> i], {})
    BY <2>1, FS_EmptySet DEF Enumerates
  <2> QED
    BY <1>3, <1>4, <2>2
<1>5. CASE S # {}
  <2>1. n \in Nat /\ n - 1 \in Nat
    <3>1. n \in Nat
      BY <1>2
    <3>2. PICK x \in S : TRUE
      BY <1>5
    <3>3. x \in 1..n
      BY <1>3
    <3> QED
      BY <3>1, <3>3
  <2>2. P(n - 1)
    BY <1>2, <2>1
  <2> DEFINE R == S \ {n}
  <2>3. R \in SUBSET (1..(n - 1))
    BY <1>3, <2>1
  <2>4. PICK r : Enumerates(r, R)
    BY <2>2, <2>3 DEF P
  <2>5. CASE n \notin S
    <3>1. R = S
      BY <2>5
    <3> QED
      BY <1>3, <2>4, <3>1
  <2>6. CASE n \in S
    <3>1. R \cup {(n - 1) + 1} = S
      BY <2>1, <2>6
    <3> HIDE DEF R
    <3>2. \E s : Enumerates(s, R \cup {(n - 1) + 1})
      BY <2>1, <2>3, <2>4, EnumerateOneMore
    <3> QED
      BY <1>3, <3>1, <3>2
  <2> QED
    BY <2>5, <2>6
<1> QED
  BY <1>4, <1>5

LEMMA AscendingEnumerates ==
  ASSUME NEW n \in Nat, NEW S \in SUBSET (1..n)
  PROVE  Enumerates(Ascending(S), S)
<1>1. PICK r : Enumerates(r, S)
  BY EnumerationExists
<1>2. /\ r \in [1..Cardinality(S) -> S]
      /\ \A i, j \in DOMAIN r : i < j => r[i] < r[j]
  BY <1>1 DEF Enumerates
<1>3. /\ Ascending(S) \in [1..Cardinality(S) -> S]
      /\ \A i, j \in DOMAIN Ascending(S) : i < j => Ascending(S)[i] < Ascending(S)[j]
  BY <1>2 DEF Ascending
<1> QED
  BY <1>3 DEF Enumerates

(* An enumeration leaves nothing out. *)
LEMMA EnumeratesAll ==
  ASSUME NEW S \in SUBSET Nat, IsFiniteSet(S), NEW s, Enumerates(s, S)
  PROVE  \A x \in S : \E i \in 1..Cardinality(S) : s[i] = x
<1> SUFFICES ASSUME NEW x \in S, \A i \in 1..Cardinality(S) : s[i] # x
             PROVE  FALSE
  OBVIOUS
<1> DEFINE k == Cardinality(S)
<1>1. k \in Nat /\ IsFiniteSet(S)
  BY FS_CardinalityType
<1>2. IsFiniteSet(S \ {x}) /\ Cardinality(S \ {x}) = k - 1
  BY <1>1, FS_RemoveElement
<1>3. s \in [1..k -> S \ {x}] /\ \A i, j \in 1..k : i < j => s[i] < s[j]
  BY DEF Enumerates
<1> HIDE DEF k
<1>4. IsFiniteSet(1..k) /\ Cardinality(1..k) = k
  BY <1>1, FS_Interval
<1>5. Cardinality(S \ {x}) < Cardinality(1..k)
  BY <1>1, <1>2, <1>4
<1>6. PICK i, j \in 1..k : i # j /\ s[i] = s[j]
  <2> DEFINE D == 1..k
             T == S \ {x}
  <2>1. /\ s \in [D -> T]
        /\ IsFiniteSet(D) /\ IsFiniteSet(T)
        /\ Cardinality(T) < Cardinality(D)
    BY <1>2, <1>3, <1>4, <1>5
  <2> HIDE DEF D, T
  <2>2. \E i, j \in D : i # j /\ s[i] = s[j]
    BY <2>1, FS_PigeonHole
  <2> QED
    BY <2>2 DEF D
<1>7. s[i] \in Nat /\ s[j] \in Nat
  BY <1>3
<1>8. i < j \/ j < i
  BY <1>1, <1>6
<1> QED
  BY <1>3, <1>6, <1>7, <1>8

(* There is one only. *)
LEMMA EnumerationUnique ==
  ASSUME NEW n \in Nat, NEW S \in SUBSET (1..n),
         NEW s, Enumerates(s, S), NEW r, Enumerates(r, S)
  PROVE  s = r
<1> DEFINE k == Cardinality(S)
           Bad == {i \in 1..k : s[i] # r[i]}
<1>1. /\ k \in Nat
      /\ s \in [1..k -> S] /\ \A i, j \in 1..k : i < j => s[i] < s[j]
      /\ r \in [1..k -> S] /\ \A i, j \in 1..k : i < j => r[i] < r[j]
  BY BoundedFinite DEF Enumerates
<1>0. \A i \in 1..k : s[i] \in Nat /\ r[i] \in Nat
  BY <1>1, BoundedFinite
<1>2. \A i \in 1..k : \E j \in 1..k : r[j] = s[i]
  <2>1. \A x \in S : \E i \in 1..Cardinality(S) : r[i] = x
    <3>1. S \in SUBSET Nat /\ IsFiniteSet(S)
      BY BoundedFinite
    <3> QED
      BY <3>1, EnumeratesAll
  <2> QED
    BY <1>1, <2>1
<1>3. \A i \in 1..k : \E j \in 1..k : s[j] = r[i]
  <2>1. \A x \in S : \E i \in 1..Cardinality(S) : s[i] = x
    <3>1. S \in SUBSET Nat /\ IsFiniteSet(S)
      BY BoundedFinite
    <3> QED
      BY <3>1, EnumeratesAll
  <2> QED
    BY <1>1, <2>1
<1> HIDE DEF k
<1>4. Bad = {}
  <2> SUFFICES ASSUME Bad # {} PROVE FALSE
    OBVIOUS
  <2>1. PICK i \in Bad : \A j \in Bad : i <= j
    <3>1. Bad \subseteq Nat
      OBVIOUS
    <3> HIDE DEF Bad
    <3> QED
      BY <3>1, Least
  <2>2. i \in 1..k /\ \A j \in 1..k : j < i => s[j] = r[j]
    BY <1>1, <2>1
  <2> HIDE DEF Bad
  <2>3. r[i] < s[i]
    <3>1. PICK j \in 1..k : r[j] = s[i]
      BY <1>2, <2>2
    <3>2. ~(j < i)
      BY <1>0, <1>1, <2>2, <3>1
    <3>3. j # i
      BY <2>1, <3>1 DEF Bad
    <3> QED
      BY <1>0, <1>1, <2>2, <3>1, <3>2, <3>3
  <2>4. s[i] < r[i]
    <3>1. PICK j \in 1..k : s[j] = r[i]
      BY <1>3, <2>2
    <3>2. ~(j < i)
      BY <1>0, <1>1, <2>2, <3>1
    <3>3. j # i
      BY <2>1, <3>1 DEF Bad
    <3> QED
      BY <1>0, <1>1, <2>2, <3>1, <3>2, <3>3
  <2> QED
    BY <1>0, <2>2, <2>3, <2>4
<1> QED
  BY <1>1, <1>4

-----------------------------------------------------------------------------
(* The logs of a run, and the requests that copy a snapshot *)

LEMMA FcnIsSeq ==
  ASSUME NEW k \in Nat, NEW S, NEW f \in [1..k -> S]
  PROVE  f \in Seq(S) /\ Len(f) = k /\ DOMAIN f = 1..k
BY IsASeq, LenProperties

LEMMA LogsAtType ==
  ASSUME NEW n \in Nat
  PROVE  /\ LogsAt(n) \in Seq(LogSteps)
         /\ Len(LogsAt(n)) = Cardinality(LogSteps \cap 1..n)
         /\ DOMAIN LogsAt(n) = 1..Len(LogsAt(n))
         /\ Len(LogsAt(n)) \in Nat /\ Len(LogsAt(n)) <= n
<1> DEFINE S == LogSteps \cap 1..n
<1>1. S \in SUBSET (1..n)
  OBVIOUS
<1> HIDE DEF S
<1>2. Enumerates(Ascending(S), S)
  BY <1>1, AscendingEnumerates
<1>3. Cardinality(S) \in Nat /\ Cardinality(S) <= n
  BY <1>1, BoundedFinite
<1>4. Ascending(S) \in [1..Cardinality(S) -> S]
  BY <1>2 DEF Enumerates
<1>5. Ascending(S) \in [1..Cardinality(S) -> LogSteps]
  BY <1>4 DEF S
<1>6. LogsAt(n) = Ascending(S)
  BY DEF LogsAt, S
<1>7. /\ LogsAt(n) \in Seq(LogSteps) /\ Len(LogsAt(n)) = Cardinality(S)
      /\ DOMAIN LogsAt(n) = 1..Cardinality(S)
  BY <1>3, <1>5, <1>6, FcnIsSeq
<1> QED
  BY <1>3, <1>7 DEF S

(* A snapshot more leaves the logs as they are, or adds one. *)
LEMMA LogsAtGrows ==
  ASSUME NEW n \in Nat
  PROVE  /\ Len(LogsAt(n)) <= Len(LogsAt(n + 1))
         /\ \A i \in 1..Len(LogsAt(n)) : LogsAt(n + 1)[i] = LogsAt(n)[i]
<1> DEFINE S == LogSteps \cap 1..n
           R == LogSteps \cap 1..(n + 1)
           k == Cardinality(S)
           r == [i \in 1..(k + 1) |-> IF i <= k THEN Ascending(S)[i] ELSE n + 1]
<1>1. S \in SUBSET (1..n) /\ R \in SUBSET (1..(n + 1)) /\ n + 1 \in Nat
  OBVIOUS
<1>2. R = S \/ R = S \cup {n + 1}
  OBVIOUS
<1> HIDE DEF S, R
<1>3. Enumerates(Ascending(S), S) /\ Enumerates(Ascending(R), R)
  BY <1>1, AscendingEnumerates
<1>4. /\ LogsAt(n) = Ascending(S) /\ LogsAt(n + 1) = Ascending(R)
      /\ k \in Nat /\ Len(LogsAt(n)) = k
      /\ Len(LogsAt(n + 1)) = Cardinality(R)
  BY <1>1, LogsAtType, BoundedFinite DEF LogsAt, S, R
<1>5. CASE R = S
  BY <1>4, <1>5
<1>6. CASE R = S \cup {n + 1}
  <2>1. Cardinality(R) = k + 1 /\ Enumerates(r, R)
    BY <1>1, <1>3, <1>6, EnumerateOneMore
  <2> HIDE DEF r
  <2>2. Ascending(R) = r
    BY <1>1, <1>3, <2>1, EnumerationUnique
  <2> HIDE DEF k
  <2> QED
    BY <1>4, <2>1, <2>2 DEF r
<1> QED
  BY <1>2, <1>5, <1>6

(* A sequence as far as another goes. *)
Starts(s, t) == /\ Len(s) <= Len(t)
                /\ \A i \in 1..Len(s) : s[i] = t[i]

LEMMA StartsIsPrefix ==
  ASSUME NEW S, NEW s \in Seq(S), NEW t \in Seq(S)
  PROVE  Starts(s, t) => IsPrefix(s, t)
<1> SUFFICES ASSUME Starts(s, t) PROVE IsPrefix(s, t)
  OBVIOUS
<1>1. Len(s) \in Nat /\ Len(t) \in Nat /\ Len(s) <= Len(t)
  BY DEF Starts
<1>2. SubSeq(s, 1, Len(s)) = [i \in 1..Len(s) |-> s[i]]
  BY <1>1
<1>3. SubSeq(t, 1, Len(s)) = [i \in 1..Len(s) |-> t[i]]
  BY <1>1
<1> QED
  BY <1>1, <1>2, <1>3 DEF Starts, IsPrefix

(* What is emptied is filled next, and all that is due is filled. *)
LEMMA ReplacingIs ==
  ASSUME NEW n \in Nat
  PROVE  /\ Replacing(n) \in Seq({"delete", "insert"} \X TableSet)
         /\ \A k \in DOMAIN Replacing(n), tb \in TableSet :
              Replacing(n)[k] = <<"delete", tb>> =>
                /\ k + 1 \in DOMAIN Replacing(n)
                /\ Replacing(n)[k + 1] = <<"insert", tb>>
         /\ \A tb \in TableSet : FirstStep[tb] <= n =>
              \E k \in DOMAIN Replacing(n) : Replacing(n)[k] = <<"insert", tb>>
<1> DEFINE D == {i \in DOMAIN Tables : FirstStep[Tables[i]] <= n}
           m == Cardinality(D)
           due == Ascending(D)
<1>1. Tables \in Seq(TableSet) /\ Len(Tables) \in Nat /\ DOMAIN Tables = 1..Len(Tables)
  BY TablesAssumption DEF TableSet
<1>2. D \in SUBSET (1..Len(Tables))
  BY <1>1
<1> HIDE DEF D
<1>3. m \in Nat /\ Enumerates(due, D) /\ IsFiniteSet(D) /\ D \in SUBSET Nat
  BY <1>1, <1>2, BoundedFinite, AscendingEnumerates
<1>4. due \in [1..m -> D]
  BY <1>3 DEF Enumerates
<1>5. Len(due) = m
  BY <1>3, <1>4, FcnIsSeq
<1>6. \A i \in D : \E k \in 1..m : due[k] = i
  BY <1>3, EnumeratesAll
<1> HIDE DEF m
<1>7. Replacing(n) = [k \in 1..(2 * m) |->
        <<IF k % 2 = 1 THEN "delete" ELSE "insert", Tables[due[(k + 1) \div 2]]>>]
  BY <1>5 DEF Replacing, D
<1> HIDE DEF due
<1>8. ASSUME NEW k \in 1..m
      PROVE  due[k] \in 1..Len(Tables) /\ Tables[due[k]] \in TableSet
  <2>1. due[k] \in D
    BY <1>4
  <2>2. due[k] \in 1..Len(Tables)
    BY <1>2, <2>1
  <2> QED
    BY <1>1, <2>2, ElementOfSeq
<1>9. \A k \in 1..(2 * m) : (k + 1) \div 2 \in 1..m
  BY <1>3
<1>10. Replacing(n) \in [1..(2 * m) -> {"delete", "insert"} \X TableSet]
  BY <1>7, <1>8, <1>9
<1>11. /\ Replacing(n) \in Seq({"delete", "insert"} \X TableSet)
       /\ DOMAIN Replacing(n) = 1..(2 * m)
  BY <1>3, <1>10, FcnIsSeq
<1>12. ASSUME NEW k \in 1..(2 * m), NEW tb \in TableSet,
              Replacing(n)[k] = <<"delete", tb>>
       PROVE  k + 1 \in 1..(2 * m) /\ Replacing(n)[k + 1] = <<"insert", tb>>
  <2>1. k % 2 = 1 /\ Tables[due[(k + 1) \div 2]] = tb
    BY <1>7, <1>12
  <2>2. k + 1 \in 1..(2 * m) /\ (k + 1) % 2 # 1 /\ (k + 2) \div 2 = (k + 1) \div 2
    BY <1>3, <2>1
  <2> QED
    BY <1>7, <2>1, <2>2
<1>13. ASSUME NEW tb \in TableSet, FirstStep[tb] <= n
       PROVE  \E k \in 1..(2 * m) : Replacing(n)[k] = <<"insert", tb>>
  <2>1. PICK i \in 1..Len(Tables) : Tables[i] = tb
    BY <1>1 DEF TableSet, ToSet
  <2>2. i \in D
    BY <1>1, <1>13, <2>1 DEF D
  <2>3. PICK j \in 1..m : due[j] = i
    BY <1>6, <2>2
  <2>4. 2 * j \in 1..(2 * m) /\ (2 * j) % 2 # 1 /\ (2 * j + 1) \div 2 = j
    BY <1>3
  <2> QED
    BY <1>7, <2>1, <2>3, <2>4
<1> QED
  BY <1>11, <1>12, <1>13

(* A table that is emptied is filled by the next request. *)
Paired(q) ==
  \A k \in DOMAIN q, tb \in TableSet :
    q[k] = <<"delete", tb>> => k + 1 \in DOMAIN q /\ q[k + 1] = <<"insert", tb>>

LEMMA PairedConcat ==
  ASSUME NEW S, NEW p \in Seq(S), NEW q \in Seq(S), Paired(p), Paired(q)
  PROVE  Paired(p \o q)
<1>1. /\ p \o q \in Seq(S)
      /\ Len(p \o q) = Len(p) + Len(q)
      /\ \A i \in 1..(Len(p) + Len(q)) :
           (p \o q)[i] = IF i <= Len(p) THEN p[i] ELSE q[i - Len(p)]
      /\ DOMAIN p = 1..Len(p) /\ DOMAIN q = 1..Len(q)
      /\ Len(p) \in Nat /\ Len(q) \in Nat
  BY ConcatProperties, LenProperties
<1>2. DOMAIN (p \o q) = 1..(Len(p) + Len(q))
  BY <1>1, LenProperties
<1> DEFINE r == p \o q
<1> HIDE DEF r
<1>3. ASSUME NEW k \in DOMAIN r, NEW tb \in TableSet, r[k] = <<"delete", tb>>
      PROVE  k + 1 \in DOMAIN r /\ r[k + 1] = <<"insert", tb>>
  <2>1. DOMAIN r = 1..(Len(p) + Len(q))
    BY <1>2 DEF r
  <2>2. \A i \in DOMAIN r : r[i] = IF i <= Len(p) THEN p[i] ELSE q[i - Len(p)]
    BY <1>1, <2>1 DEF r
  <2>3. CASE k <= Len(p)
    <3>1. k \in DOMAIN p /\ p[k] = <<"delete", tb>>
      BY <1>1, <1>3, <2>1, <2>2, <2>3
    <3>2. k + 1 \in DOMAIN p /\ p[k + 1] = <<"insert", tb>>
      BY <3>1 DEF Paired
    <3> QED
      BY <1>1, <2>1, <2>2, <3>2
  <2>4. CASE ~(k <= Len(p))
    <3>1. k - Len(p) \in DOMAIN q /\ q[k - Len(p)] = <<"delete", tb>>
      BY <1>1, <1>3, <2>1, <2>2, <2>4
    <3>2. (k - Len(p)) + 1 \in DOMAIN q /\ q[(k - Len(p)) + 1] = <<"insert", tb>>
      BY <3>1 DEF Paired
    <3>3. (k + 1) - Len(p) = (k - Len(p)) + 1 /\ k + 1 \in DOMAIN r /\ ~(k + 1 <= Len(p))
      BY <1>1, <2>1, <2>4, <3>2
    <3> QED
      BY <2>2, <3>2, <3>3
  <2> QED
    BY <2>3, <2>4
<1> QED
  BY <1>3 DEF Paired, r

LEMMA TailFacts ==
  ASSUME NEW S, NEW q \in Seq(S), q # <<>>
  PROVE  /\ Tail(q) \in Seq(S)
         /\ Head(q) = q[1] /\ q[1] \in S
         /\ Paired(q) => Paired(Tail(q))
         /\ \A r : Contains(q, r) => r = q[1] \/ Contains(Tail(q), r)
         /\ \A r : Contains(Tail(q), r) => Contains(q, r)
<1>1. /\ Tail(q) \in Seq(S) /\ Len(Tail(q)) = Len(q) - 1
      /\ \A i \in 1..Len(Tail(q)) : Tail(q)[i] = q[i + 1]
      /\ DOMAIN q = 1..Len(q) /\ Len(q) \in Nat \ {0}
      /\ DOMAIN Tail(q) = 1..Len(Tail(q))
      /\ Head(q) = q[1] /\ q[1] \in S
  BY HeadTailProperties, LenProperties, EmptySeq
<1> DEFINE p == Tail(q)
<1>2. /\ DOMAIN p = 1..(Len(q) - 1) /\ Len(p) = Len(q) - 1
      /\ \A i \in 1..(Len(q) - 1) : p[i] = q[i + 1]
  BY <1>1
<1> HIDE DEF p
<1>3. Paired(q) => Paired(p)
  BY <1>1, <1>2 DEF Paired
<1>4. ASSUME NEW r, Contains(q, r), r # q[1] PROVE Contains(p, r)
  <2>1. PICK i \in 1..Len(q) : q[i] = r
    BY <1>4 DEF Contains
  <2>2. i - 1 \in 1..(Len(q) - 1) /\ (i - 1) + 1 = i
    BY <1>1, <1>4, <2>1
  <2> QED
    BY <1>2, <2>1, <2>2 DEF Contains
<1>5. ASSUME NEW r, Contains(p, r) PROVE Contains(q, r)
  BY <1>1, <1>2, <1>5 DEF Contains
<1> QED
  BY <1>1, <1>3, <1>4, <1>5 DEF p

LEMMA ContainsConcat ==
  ASSUME NEW S, NEW p \in Seq(S), NEW q \in Seq(S), NEW r
  PROVE  Contains(p \o q, r) <=> Contains(p, r) \/ Contains(q, r)
<1>1. /\ Len(p \o q) = Len(p) + Len(q)
      /\ \A i \in 1..(Len(p) + Len(q)) :
           (p \o q)[i] = IF i <= Len(p) THEN p[i] ELSE q[i - Len(p)]
      /\ Len(p) \in Nat /\ Len(q) \in Nat
  BY ConcatProperties, LenProperties
<1> DEFINE c == p \o q
<1>2. /\ Len(c) = Len(p) + Len(q)
      /\ \A i \in 1..Len(p) : c[i] = p[i]
      /\ \A i \in 1..Len(q) : c[Len(p) + i] = q[i]
      /\ \A i \in 1..(Len(p) + Len(q)) : i \in 1..Len(p) \/ i - Len(p) \in 1..Len(q)
      /\ \A i \in 1..(Len(p) + Len(q)) : i \notin 1..Len(p) => c[i] = q[i - Len(p)]
  BY <1>1
<1> HIDE DEF c
<1>3. Contains(c, r) => Contains(p, r) \/ Contains(q, r)
  BY <1>1, <1>2 DEF Contains
<1>4. Contains(p, r) => Contains(c, r)
  BY <1>1, <1>2 DEF Contains
<1>5. Contains(q, r) => Contains(c, r)
  BY <1>1, <1>2 DEF Contains
<1> QED
  BY <1>3, <1>4, <1>5 DEF c

LEMMA OneRequest ==
  ASSUME NEW r \in Requests
  PROVE  /\ <<r>> \in Seq(Requests)
         /\ <<r>> # <<>> /\ <<r>>[1] = r
         /\ \A x : Contains(<<r>>, x) <=> x = r
         /\ r[1] # "delete" => Paired(<<r>>)
<1>1. <<r>> \in Seq(Requests) /\ Len(<<r>>) = 1 /\ <<r>>[1] = r /\ DOMAIN <<r>> = 1..1
  OBVIOUS
<1>2. ASSUME r[1] # "delete" PROVE Paired(<<r>>)
  <2>1. \A tb \in TableSet : <<"delete", tb>>[1] = "delete"
    OBVIOUS
  <2> QED
    BY <1>1, <1>2, <2>1 DEF Paired
<1> QED
  BY <1>1, <1>2 DEF Contains

LEMMA EmptyRequests ==
  /\ <<>> \in Seq(Requests)
  /\ Paired(<<>>)
  /\ \A r : ~Contains(<<>>, r)
<1>1. <<>> \in Seq(Requests) /\ Len(<<>>) = 0 /\ DOMAIN <<>> = {}
  BY EmptySeq
<1> QED
  BY <1>1 DEF Paired, Contains

Counted(t) == memory[job[t].store][t].counted

(* A copy begins with the session, fills every table that is due, and adds *)
(* the logs there are more of; that of an exception leaves both alone.     *)
LEMMA RequestsAre ==
  ASSUME NEW t, NEW raised \in BOOLEAN, NEW n \in Nat, Counted(t) \in Nat
  PROVE  LET q == PersistRequests(t, raised, n)
         IN  /\ q \in Seq(Requests) /\ q # <<>>
             /\ q[1] = <<"upsert">>
             /\ Paired(q)
             /\ raised => ~Contains(q, <<"logs">>)
             /\ ~raised =>
                  /\ \A tb \in TableSet :
                       FirstStep[tb] <= n => Contains(q, <<"insert", tb>>)
                  /\ Contains(q, <<"logs">>) \/ Len(LogsAt(n)) <= Counted(t)
<1> DEFINE A == <<<<"upsert">>>>
           B == IF raised THEN <<>> ELSE Replacing(n)
           L == raised \/ Len(LogsAt(n)) <= Counted(t)
           C == IF L THEN <<>> ELSE <<<<"logs">>>>
<1>1. PersistRequests(t, raised, n) = (A \o B) \o C
  BY DEF PersistRequests, Counted
<1>2. <<"upsert">> \in Requests /\ <<"logs">> \in Requests
  BY DEF Requests
<1>3. /\ A \in Seq(Requests) /\ A # <<>> /\ A[1] = <<"upsert">>
      /\ Paired(A) /\ Len(A) = 1
      /\ \A x : Contains(A, x) <=> x = <<"upsert">>
  BY <1>2, OneRequest
<1>4. /\ C \in Seq(Requests) /\ Paired(C)
      /\ Contains(C, <<"logs">>) <=> ~L
  BY <1>2, OneRequest, EmptyRequests
<1>5. /\ B \in Seq(Requests) /\ Paired(B)
      /\ ~Contains(B, <<"logs">>)
      /\ ~raised => \A tb \in TableSet :
                      FirstStep[tb] <= n => Contains(B, <<"insert", tb>>)
  <2>1. CASE raised
    BY <2>1, EmptyRequests
  <2>2. CASE ~raised
    <3>1. {"delete", "insert"} \X TableSet \subseteq Requests
      BY DEF Requests
    <3>2. /\ Replacing(n) \in Seq({"delete", "insert"} \X TableSet)
          /\ Replacing(n) \in Seq(Requests)
          /\ DOMAIN Replacing(n) = 1..Len(Replacing(n))
      BY <3>1, ReplacingIs, SeqMonotonic, LenProperties
    <3>3. Paired(Replacing(n))
      BY ReplacingIs DEF Paired
    <3>4. \A i \in 1..Len(Replacing(n)) : Replacing(n)[i] \in {"delete", "insert"} \X TableSet
      BY <3>2, ElementOfSeq
    <3>5. <<"logs">> \notin {"delete", "insert"} \X TableSet
      <4>1. <<"logs">>[1] = "logs"
        OBVIOUS
      <4>2. \A x \in {"delete", "insert"} \X TableSet : x[1] \in {"delete", "insert"}
        OBVIOUS
      <4> QED
        BY <4>1, <4>2
    <3>6. ~Contains(Replacing(n), <<"logs">>)
      BY <3>4, <3>5 DEF Contains
    <3>7. \A tb \in TableSet : FirstStep[tb] <= n => Contains(Replacing(n), <<"insert", tb>>)
      BY <3>2, ReplacingIs DEF Contains
    <3> QED
      BY <2>2, <3>2, <3>3, <3>6, <3>7
  <2> QED
    BY <2>1, <2>2
<1> HIDE DEF A, B, C, L
<1>6. /\ A \o B \in Seq(Requests) /\ Paired(A \o B)
      /\ \A x : Contains(A \o B, x) <=> Contains(A, x) \/ Contains(B, x)
      /\ Len(A \o B) \in Nat \ {0} /\ (A \o B)[1] = A[1]
  <2>1. A \o B \in Seq(Requests) /\ Paired(A \o B)
    BY <1>3, <1>5, ConcatProperties, PairedConcat
  <2>2. \A x : Contains(A \o B, x) <=> Contains(A, x) \/ Contains(B, x)
    BY <1>3, <1>5, ContainsConcat
  <2>3. Len(A \o B) \in Nat \ {0} /\ (A \o B)[1] = A[1]
    BY <1>3, <1>5, ConcatProperties, LenProperties
  <2> QED
    BY <2>1, <2>2, <2>3
<1> DEFINE q == (A \o B) \o C
<1>7. /\ q \in Seq(Requests) /\ Paired(q)
      /\ \A x : Contains(q, x) <=> Contains(A, x) \/ Contains(B, x) \/ Contains(C, x)
      /\ q # <<>> /\ q[1] = <<"upsert">>
  <2>1. q \in Seq(Requests) /\ Paired(q)
    BY <1>4, <1>6, ConcatProperties, PairedConcat
  <2>2. \A x : Contains(q, x) <=> Contains(A \o B, x) \/ Contains(C, x)
    BY <1>4, <1>6, ContainsConcat
  <2>3. Len(q) \in Nat \ {0} /\ q[1] = (A \o B)[1]
    BY <1>4, <1>6, ConcatProperties, LenProperties
  <2>4. q # <<>>
    BY <2>3, EmptySeq
  <2> QED
    BY <1>3, <1>6, <2>1, <2>2, <2>3, <2>4
<1> HIDE DEF q
<1>8. <<"logs">> # <<"upsert">>
  OBVIOUS
<1>9. raised => ~Contains(q, <<"logs">>)
  BY <1>3, <1>4, <1>5, <1>7, <1>8 DEF L
<1>10. ~raised => /\ \A tb \in TableSet :
                       FirstStep[tb] <= n => Contains(q, <<"insert", tb>>)
                  /\ Contains(q, <<"logs">>) \/ Len(LogsAt(n)) <= Counted(t)
  BY <1>4, <1>5, <1>7 DEF L
<1> QED
  BY <1>1, <1>7, <1>9, <1>10 DEF q

-----------------------------------------------------------------------------
(* The invariants *)

(* The job may yet write, or will be created by create_task. *)
Live(t) == job[t].pc \in {"none", "queued", "node", "persist"}

FreshInv(t) ==
  job[t].pc = "none" =>
    /\ job[t].step = 0
    /\ db[t].logs = <<>>
    /\ \A s \in Stores : memory[s][t].counted = 0

(* What the store counts is in the database, in order, and nothing else is *)
(* unless the answer to an insert was lost.                                *)
LogsInv(t) ==
  LET trace == LogsAt(job[t].step)
  IN  /\ ~job[t].doubled => Starts(db[t].logs, trace)
      /\ Live(t) =>
           /\ Counted(t) <= Len(trace)
           /\ ~job[t].doubled => Len(db[t].logs) = Counted(t)
           /\ \A i \in 1..Counted(t) : Contains(db[t].logs, trace[i])

(* While a snapshot is copied the session comes first, a table that was    *)
(* emptied is filled next, and what is not to come has been done.          *)
CopyInv(t) ==
  job[t].pc = "persist" =>
    /\ \/ job[t].todo # <<>> /\ job[t].todo[1] = <<"upsert">>
       \/ job[t].todo = <<>> /\ ~job[t].clean
       \/ db[t].step = job[t].step
    /\ Paired(job[t].todo)
    /\ job[t].raised => ~Contains(job[t].todo, <<"logs">>)
    /\ job[t].clean /\ ~job[t].raised =>
         /\ \A tb \in TableSet :
              FirstStep[tb] <= job[t].step =>
                \/ Contains(job[t].todo, <<"insert", tb>>)
                \/ db[t].row[tb] = job[t].step
         /\ \/ Contains(job[t].todo, <<"logs">>)
            \/ Len(LogsAt(job[t].step)) <= Counted(t)

RowsInv(t) ==
  /\ db[t].step <= job[t].step
  /\ \A tb \in TableSet : db[t].row[tb] <= db[t].step

TaskInv(t) == FreshInv(t) /\ LogsInv(t) /\ CopyInv(t) /\ RowsInv(t)

(* A process goes down only while there is a store left for the next. *)
ServerInv == ~server.up => server.store < MaxStores

StoreInv == TypeOK /\ ServerInv /\ \A t \in Tasks : TaskInv(t)

-----------------------------------------------------------------------------
(* Steps *)

(* What is known of t does not change. *)
Same(t) ==
  /\ job'[t] = job[t]
  /\ db'[t] = db[t]
  /\ \A s \in Stores : memory'[s][t].counted = memory[s][t].counted

LEMMA SameTask ==
  ASSUME TypeOK, NEW t \in Tasks, TaskInv(t), Same(t)
  PROVE  TaskInv(t)'
<1>1. job[t].store \in Stores
  BY DEF TypeOK, Jobs
<1>2. Counted(t)' = Counted(t) /\ (Live(t)' <=> Live(t))
  BY <1>1 DEF Same, Counted, Live
<1>3. FreshInv(t)'
  BY DEF TaskInv, FreshInv, Same, Stores
<1>4. LogsInv(t)'
  BY <1>2 DEF TaskInv, LogsInv, Same
<1>5. CopyInv(t)'
  BY <1>2 DEF TaskInv, CopyInv, Same
<1>6. RowsInv(t)'
  BY DEF TaskInv, RowsInv, Same
<1> QED
  BY <1>3, <1>4, <1>5, <1>6 DEF TaskInv

LEMMA JobMoves ==
  ASSUME TypeOK, NEW t \in Tasks, NEW r \in Jobs, job' = [job EXCEPT ![t] = r]
  PROVE  /\ job' \in [Tasks -> Jobs]
         /\ job'[t] = r
         /\ \A u \in Tasks \ {t} : job'[u] = job[u]
BY DEF TypeOK

LEMMA DbMoves ==
  ASSUME TypeOK, NEW t \in Tasks, NEW r \in Rows, db' = [db EXCEPT ![t] = r]
  PROVE  /\ db' \in [Tasks -> Rows]
         /\ db'[t] = r
         /\ \A u \in Tasks \ {t} : db'[u] = db[u]
BY DEF TypeOK

LEMMA CountedType ==
  ASSUME TypeOK, NEW t \in Tasks
  PROVE  /\ Counted(t) \in 0..Steps /\ Counted(t) \in Nat
         /\ job[t].step \in Nat /\ job[t].step <= Steps
         /\ job[t].store \in Stores
         /\ db[t].step \in Nat
         /\ \A tb \in TableSet : db[t].row[tb] \in Nat
         /\ db[t].logs \in Seq(LogSteps) /\ Len(db[t].logs) \in Nat
<1>1. job[t] \in Jobs /\ db[t] \in Rows
  BY DEF TypeOK
<1>2. job[t].store \in Stores
  BY <1>1 DEF Jobs
<1>3. memory[job[t].store][t] \in TaskRecords
  BY <1>2 DEF TypeOK
<1> QED
  BY <1>1, <1>2, <1>3, StepsAssumption, LenProperties
  DEF Jobs, Rows, TaskRecords, Counted

LEMMA CreateStep ==
  ASSUME StoreInv, NEW t \in Tasks, CreateTask(t)
  PROVE  StoreInv'
<1>1. TypeOK /\ ServerInv /\ \A u \in Tasks : TaskInv(u)
  BY DEF StoreInv
<1>2. server.store \in Stores /\ server.up
  BY <1>1 DEF TypeOK, CreateTask, Serving
<1> DEFINE m == [memory[server.store][t] EXCEPT !.status = "started"]
           j == [job[t] EXCEPT !.pc = "queued", !.store = server.store]
           d == [db[t] EXCEPT !.status = "started"]
<1>3. memory' = [memory EXCEPT ![server.store][t] = m]
  BY <1>1, <1>2 DEF CreateTask, TypeOK
<1>4. m \in TaskRecords /\ m.counted = memory[server.store][t].counted
  <2>1. memory[server.store][t] \in TaskRecords
    BY <1>1, <1>2 DEF TypeOK
  <2> QED
    BY <2>1 DEF TaskRecords
<1>5. job' = [job EXCEPT ![t] = j]
  BY <1>1 DEF CreateTask, TypeOK
<1>6. job[t] \in Jobs /\ db[t] \in Rows
  BY <1>1 DEF TypeOK
<1>7. j \in Jobs /\ j.pc = "queued" /\ j.store = server.store /\ j.step = job[t].step
  BY <1>2, <1>6 DEF Jobs
<1>8. db' = [db EXCEPT ![t] = d] \/ db' = db
  BY <1>1 DEF CreateTask, TypeOK
<1>9. d \in Rows /\ d.step = db[t].step /\ d.logs = db[t].logs /\ d.row = db[t].row
  BY <1>6 DEF Rows, RowStatuses
<1> HIDE DEF m, j, d
<1>10. /\ db' \in [Tasks -> Rows]
       /\ db'[t].step = db[t].step /\ db'[t].logs = db[t].logs /\ db'[t].row = db[t].row
       /\ \A u \in Tasks \ {t} : db'[u] = db[u]
  BY <1>1, <1>8, <1>9, DbMoves DEF TypeOK
<1>11. /\ memory' \in [Stores -> [Tasks -> TaskRecords]]
       /\ \A z \in Stores, u \in Tasks : memory'[z][u].counted = memory[z][u].counted
  <2>1. /\ memory' \in [Stores -> [Tasks -> TaskRecords]]
        /\ memory'[server.store][t] = m
        /\ \A z \in Stores, u \in Tasks :
             z # server.store \/ u # t => memory'[z][u] = memory[z][u]
    BY <1>1, <1>2, <1>3, <1>4 DEF TypeOK
  <2> QED
    BY <1>4, <2>1
<1>12. /\ job' \in [Tasks -> Jobs] /\ job'[t] = j
       /\ \A u \in Tasks \ {t} : job'[u] = job[u]
  BY <1>1, <1>5, <1>7, JobMoves
<1>13. TypeOK'
  BY <1>1, <1>10, <1>11, <1>12 DEF TypeOK, CreateTask, Pages
<1>14. \A u \in Tasks \ {t} : TaskInv(u)'
  BY <1>1, <1>10, <1>11, <1>12, SameTask DEF Same
<1>15. TaskInv(t)'
  <2>1. /\ job[t].pc = "none" /\ job[t].step = 0 /\ db[t].logs = <<>>
        /\ memory[server.store][t].counted = 0
    BY <1>1, <1>2 DEF CreateTask, TaskInv, FreshInv
  <2>2. Counted(t)' = 0 /\ job'[t].step = 0 /\ db'[t].logs = <<>>
    BY <1>2, <1>7, <1>10, <1>11, <1>12, <2>1 DEF Counted
  <2>3. Len(LogsAt(0)) \in Nat
    BY LogsAtType
  <2>4. LogsInv(t)'
    BY <2>2, <2>3 DEF LogsInv, Starts
  <2> QED
    BY <1>1, <1>7, <1>10, <1>12, <2>1, <2>4
    DEF TaskInv, FreshInv, CopyInv, RowsInv
<1> QED
  BY <1>1, <1>13, <1>14, <1>15 DEF StoreInv, ServerInv, CreateTask

LEMMA SnapshotStep ==
  ASSUME StoreInv, NEW t \in Tasks, NEW raised \in BOOLEAN, NEW ends \in BOOLEAN,
         NEW status \in {"started", "completed", "failed"},
         Snapshot(t, status, raised, ends)
  PROVE  StoreInv'
<1> DEFINE s == job[t].store
           n == job[t].step + 1
           m == [memory[s][t] EXCEPT !.step = n, !.status = status]
           j == [job[t] EXCEPT !.step = n, !.raised = raised, !.clean = TRUE,
                   !.ends = ends,
                   !.pc = IF persists[s] THEN "persist" ELSE AfterSnapshot(ends),
                   !.todo = IF persists[s] THEN PersistRequests(t, raised, n) ELSE <<>>]
<1>1. TypeOK /\ ServerInv /\ \A u \in Tasks : TaskInv(u)
  BY DEF StoreInv
<1>2. /\ job[t].pc \in {"queued", "node"} /\ n <= Steps
      /\ memory' = [memory EXCEPT ![s][t].step = n, ![s][t].status = status]
      /\ UNCHANGED <<server, persists, db, page>>
  BY DEF Snapshot
<1>3. /\ s \in Stores /\ n \in Nat /\ n \in 0..Steps /\ Counted(t) \in Nat
      /\ job[t].step \in Nat
  BY <1>1, <1>2, CountedType, StepsAssumption
<1>4. memory' = [memory EXCEPT ![s][t] = m]
  BY <1>1, <1>2, <1>3 DEF TypeOK
<1>5. m \in TaskRecords /\ m.counted = memory[s][t].counted
  <2>1. memory[s][t] \in TaskRecords
    BY <1>1, <1>3 DEF TypeOK
  <2> QED
    BY <1>3, <2>1 DEF TaskRecords
<1>6. job' = [job EXCEPT ![t] = j]
  BY <1>1 DEF Snapshot, TypeOK
<1>7. job[t] \in Jobs /\ persists[s] \in BOOLEAN
  BY <1>1, <1>3 DEF TypeOK
<1> DEFINE q == PersistRequests(t, raised, n)
<1>8. /\ q \in Seq(Requests) /\ q # <<>> /\ q[1] = <<"upsert">> /\ Paired(q)
      /\ raised => ~Contains(q, <<"logs">>)
      /\ ~raised => /\ \A tb \in TableSet :
                         FirstStep[tb] <= n => Contains(q, <<"insert", tb>>)
                    /\ Contains(q, <<"logs">>) \/ Len(LogsAt(n)) <= Counted(t)
  BY <1>3, RequestsAre
<1> HIDE DEF q, m
<1>9. /\ j \in Jobs
      /\ j.step = n /\ j.raised = raised /\ j.store = s /\ j.doubled = job[t].doubled
      /\ j.pc \in {"persist", "node", "done"}
      /\ j.pc = "persist" => j.todo = q
  <2>1. <<>> \in Seq(Requests)
    BY EmptyRequests
  <2>2. AfterSnapshot(ends) \in {"node", "done"}
    BY DEF AfterSnapshot
  <2>3. j = [job[t] EXCEPT !.step = n, !.raised = raised, !.clean = TRUE,
                   !.ends = ends,
                   !.pc = IF persists[s] THEN "persist" ELSE AfterSnapshot(ends),
                   !.todo = IF persists[s] THEN q ELSE <<>>]
    BY DEF q
  <2> HIDE DEF j
  <2> QED
    BY <1>3, <1>7, <1>8, <2>1, <2>2, <2>3 DEF Jobs
<1> HIDE DEF j
<1>10. /\ job' \in [Tasks -> Jobs] /\ job'[t] = j
       /\ \A u \in Tasks \ {t} : job'[u] = job[u]
  BY <1>1, <1>6, <1>9, JobMoves
<1>11. /\ memory' \in [Stores -> [Tasks -> TaskRecords]]
       /\ \A z \in Stores, u \in Tasks : memory'[z][u].counted = memory[z][u].counted
  <2>1. /\ memory' \in [Stores -> [Tasks -> TaskRecords]]
        /\ memory'[s][t] = m
        /\ \A z \in Stores, u \in Tasks : z # s \/ u # t => memory'[z][u] = memory[z][u]
    BY <1>1, <1>3, <1>4, <1>5 DEF TypeOK
  <2> QED
    BY <1>5, <2>1
<1>12. TypeOK'
  BY <1>1, <1>2, <1>10, <1>11 DEF TypeOK
<1>13. \A u \in Tasks \ {t} : TaskInv(u)'
  BY <1>1, <1>2, <1>10, <1>11, SameTask DEF Same
<1>14. TaskInv(t)'
  <2>1. Counted(t)' = Counted(t)
    BY <1>3, <1>9, <1>10, <1>11 DEF Counted
  <2>2. LogsInv(t)'
    <3>1. /\ ~job[t].doubled => Starts(db[t].logs, LogsAt(job[t].step))
          /\ Counted(t) <= Len(LogsAt(job[t].step))
          /\ ~job[t].doubled => Len(db[t].logs) = Counted(t)
          /\ \A i \in 1..Counted(t) : Contains(db[t].logs, LogsAt(job[t].step)[i])
      BY <1>1, <1>2 DEF TaskInv, LogsInv, Live
    <3>2. /\ Len(LogsAt(job[t].step)) <= Len(LogsAt(n))
          /\ \A i \in 1..Len(LogsAt(job[t].step)) :
               LogsAt(n)[i] = LogsAt(job[t].step)[i]
      BY <1>3, LogsAtGrows
    <3>3. Len(LogsAt(job[t].step)) \in Nat /\ Len(LogsAt(n)) \in Nat /\ Len(db[t].logs) \in Nat
      BY <1>1, <1>3, LogsAtType, CountedType
    <3> DEFINE before == LogsAt(job[t].step)
               after == LogsAt(n)
    <3>4. db'[t] = db[t] /\ job'[t].step = n /\ job'[t].doubled = job[t].doubled
      BY <1>2, <1>9, <1>10
    <3> HIDE DEF before, after, n
    <3>5. /\ ~job[t].doubled => Starts(db[t].logs, after)
          /\ Counted(t) <= Len(after)
          /\ \A i \in 1..Counted(t) : Contains(db[t].logs, after[i])
      BY <1>3, <3>1, <3>2, <3>3 DEF Starts, before, after
    <3>6. /\ ~job'[t].doubled => Starts(db'[t].logs, LogsAt(job'[t].step))
          /\ Counted(t)' <= Len(LogsAt(job'[t].step))
          /\ ~job'[t].doubled => Len(db'[t].logs) = Counted(t)'
          /\ \A i \in 1..Counted(t)' : Contains(db'[t].logs, LogsAt(job'[t].step)[i])
      BY <2>1, <3>1, <3>4, <3>5 DEF after
    <3> QED
      BY <3>6 DEF LogsInv
  <2>3. CopyInv(t)'
    <3> HIDE DEF n
    <3> QED
      BY <1>8, <1>9, <1>10, <2>1 DEF CopyInv
  <2>4. RowsInv(t)'
    BY <1>1, <1>2, <1>3, <1>9, <1>10, CountedType DEF TaskInv, RowsInv
  <2> QED
    BY <1>9, <1>10, <2>2, <2>3, <2>4 DEF TaskInv, FreshInv
<1> QED
  BY <1>1, <1>2, <1>12, <1>13, <1>14 DEF StoreInv, ServerInv

(* The entries beyond those that were counted make the logs the trace. *)
LEMMA LogsAppended ==
  ASSUME NEW logs \in Seq(LogSteps), NEW trace \in Seq(LogSteps), NEW c \in Nat,
         c <= Len(trace)
  PROVE  LET new == logs \o SubSeq(trace, c + 1, Len(trace))
         IN  /\ new \in Seq(LogSteps)
             /\ Starts(logs, trace) /\ Len(logs) = c =>
                  Starts(new, trace) /\ Len(new) = Len(trace)
             /\ (\A i \in 1..c : Contains(logs, trace[i])) =>
                  \A i \in 1..Len(trace) : Contains(new, trace[i])
             /\ \A x : Contains(logs, x) => Contains(new, x)
<1> DEFINE k == Len(trace)
           more == SubSeq(trace, c + 1, k)
           new == logs \o more
<1>1. k \in Nat /\ Len(logs) \in Nat /\ \A i \in 1..k : trace[i] \in LogSteps
  BY LenProperties, ElementOfSeq
<1>2. /\ more \in Seq(LogSteps) /\ Len(more) = k - c
      /\ \A i \in 1..(k - c) : more[i] = trace[c + i]
  <2>1. \A i \in (c + 1)..k : trace[i] \in LogSteps
    BY <1>1
  <2> HIDE DEF k
  <2>2. /\ more \in Seq(LogSteps)
        /\ Len(more) = IF c + 1 <= k THEN k - (c + 1) + 1 ELSE 0
        /\ \A i \in 1..(k - (c + 1) + 1) : more[i] = trace[(c + 1) + i - 1]
    BY <1>1, <2>1, SubSeqProperties
  <2>3. c <= k
    BY DEF k
  <2> HIDE DEF more
  <2>4. Len(more) = k - c
    <3>1. k \in Nat /\ c \in Nat
      BY <1>1
    <3>2. CASE c + 1 <= k
      BY <2>2, <3>1, <3>2
    <3>3. CASE ~(c + 1 <= k)
      BY <2>2, <2>3, <3>1, <3>3
    <3> QED
      BY <3>2, <3>3
  <2>5. ASSUME NEW i \in 1..(k - c) PROVE more[i] = trace[c + i]
    <3>1. i \in 1..(k - (c + 1) + 1) /\ (c + 1) + i - 1 = c + i
      BY <1>1
    <3> QED
      BY <2>2, <3>1
  <2> QED
    BY <2>2, <2>4, <2>5
<1> HIDE DEF more
<1>3. /\ new \in Seq(LogSteps)
      /\ Len(new) = Len(logs) + (k - c)
      /\ \A i \in 1..Len(new) :
           new[i] = IF i <= Len(logs) THEN logs[i] ELSE more[i - Len(logs)]
      /\ \A x : Contains(new, x) <=> Contains(logs, x) \/ Contains(more, x)
  <2>1. /\ new \in Seq(LogSteps)
        /\ Len(new) = Len(logs) + Len(more)
        /\ \A i \in 1..(Len(logs) + Len(more)) :
             new[i] = IF i <= Len(logs) THEN logs[i] ELSE more[i - Len(logs)]
    BY <1>2, ConcatProperties
  <2>2. \A x : Contains(new, x) <=> Contains(logs, x) \/ Contains(more, x)
    BY <1>2, ContainsConcat
  <2> HIDE DEF new
  <2> QED
    BY <1>2, <2>1, <2>2
<1> HIDE DEF new
<1>4. ASSUME Starts(logs, trace), Len(logs) = c
      PROVE  Starts(new, trace) /\ Len(new) = Len(trace)
  <2>1. Len(new) = k
    BY <1>1, <1>3, <1>4
  <2>2. ASSUME NEW i \in 1..k PROVE new[i] = trace[i]
    <3>1. CASE i <= c
      BY <1>1, <1>3, <1>4, <2>1, <3>1 DEF Starts
    <3>2. CASE ~(i <= c)
      <4>1. i - c \in 1..(k - c) /\ c + (i - c) = i
        BY <1>1, <3>2
      <4> QED
        BY <1>2, <1>3, <1>4, <2>1, <3>2, <4>1
    <3> QED
      BY <3>1, <3>2
  <2> QED
    BY <1>1, <2>1, <2>2 DEF Starts
<1>5. ASSUME \A i \in 1..c : Contains(logs, trace[i]), NEW i \in 1..k
      PROVE  Contains(new, trace[i])
  <2>1. CASE i <= c
    BY <1>1, <1>3, <1>5, <2>1
  <2>2. CASE ~(i <= c)
    <3>1. i - c \in 1..(k - c) /\ c + (i - c) = i
      BY <1>1, <2>2
    <3>2. more[i - c] = trace[i] /\ i - c \in 1..Len(more)
      BY <1>2, <3>1
    <3> QED
      BY <1>3, <3>2 DEF Contains
  <2> QED
    BY <2>1, <2>2
<1> QED
  BY <1>3, <1>4, <1>5 DEF new, more

LEMMA EffectIs ==
  ASSUME TypeOK, NEW t \in Tasks, TaskInv(t),
         job[t].pc = "persist", job[t].todo # <<>>
  PROVE  LET request == Head(job[t].todo)
             e == Effect(t, request)
         IN  /\ request = job[t].todo[1]
             /\ e \in Rows
             /\ \/ /\ request = <<"upsert">>
                   /\ e.step = job[t].step /\ e.row = db[t].row /\ e.logs = db[t].logs
                \/ \E tb \in TableSet :
                     /\ e.step = db[t].step /\ e.logs = db[t].logs
                     /\ \/ /\ request = <<"delete", tb>>
                           /\ e.row = [db[t].row EXCEPT ![tb] = 0]
                        \/ /\ request = <<"insert", tb>>
                           /\ e.row = [db[t].row EXCEPT ![tb] = job[t].step]
                \/ /\ request = <<"logs">> /\ ~job[t].raised
                   /\ e.step = db[t].step /\ e.row = db[t].row
                   /\ LET trace == LogsAt(job[t].step)
                      IN  e.logs = db[t].logs \o SubSeq(trace, Counted(t) + 1, Len(trace))
<1> DEFINE request == Head(job[t].todo)
           e == Effect(t, request)
<1>1. /\ job[t] \in Jobs /\ job[t].todo \in Seq(Requests)
      /\ db[t] \in Rows
      /\ job[t].step \in 0..Steps /\ job[t].store \in Stores
      /\ memory[job[t].store][t] \in TaskRecords
      /\ job[t].raised \in BOOLEAN
  BY DEF TypeOK, Jobs
<1>2. request = job[t].todo[1] /\ request \in Requests
  BY <1>1, TailFacts
<1> HIDE DEF request
<1>3. CASE request = <<"upsert">>
  <2>1. request[1] = "upsert"
    BY <1>3
  <2>2. e = [db[t] EXCEPT !.step = job[t].step, !.status = RowStatus(t)]
    BY <2>1 DEF Effect
  <2>3. RowStatus(t) \in RowStatuses
    BY <1>1 DEF RowStatus, RowStatuses, TaskRecords
  <2> HIDE DEF e
  <2> QED
    BY <1>1, <1>2, <1>3, <2>2, <2>3 DEF Rows, e, request
<1>4. CASE request = <<"logs">>
  <2>1. request[1] = "logs"
    BY <1>4
  <2>2. e = [db[t] EXCEPT !.logs = @ \o NewLogs(t)]
    BY <2>1 DEF Effect
  <2>3. ~job[t].raised
    <3>1. Contains(job[t].todo, <<"logs">>)
      <4>1. 1 \in 1..Len(job[t].todo)
        BY <1>1, EmptySeq
      <4> QED
        BY <1>2, <1>4, <4>1 DEF Contains
    <3> QED
      BY <3>1 DEF TaskInv, CopyInv
  <2> DEFINE trace == LogsAt(job[t].step)
             new == db[t].logs \o SubSeq(trace, Counted(t) + 1, Len(trace))
  <2>4. db[t].logs \o NewLogs(t) = new
    BY <2>3 DEF NewLogs, CarriedLogs, Counted
  <2>5. new \in Seq(LogSteps)
    <3>1. trace \in Seq(LogSteps)
      BY CountedType, LogsAtType
    <3>2. Counted(t) \in Nat /\ Counted(t) <= Len(trace) /\ db[t].logs \in Seq(LogSteps)
      BY CountedType DEF TaskInv, LogsInv, Live
    <3> HIDE DEF trace
    <3> QED
      BY <3>1, <3>2, LogsAppended
  <2> HIDE DEF new, e
  <2>6. e = [db[t] EXCEPT !.logs = new]
    BY <2>2, <2>4
  <2>7. /\ e \in Rows /\ e.step = db[t].step /\ e.row = db[t].row /\ e.logs = new
    BY <1>1, <2>5, <2>6 DEF Rows
  <2> QED
    BY <1>2, <1>4, <2>3, <2>7 DEF e, request, new
<1>5. CASE request \in {"delete", "insert"} \X TableSet
  <2>1. PICK tb \in TableSet : request = <<"delete", tb>> \/ request = <<"insert", tb>>
    BY <1>5
  <2>2. db[t].row \in [TableSet -> 0..Steps]
    BY <1>1 DEF Rows
  <2>3. 0 \in 0..Steps
    BY StepsAssumption
  <2>4. CASE request = <<"delete", tb>>
    <3>1. request[1] = "delete" /\ request[2] = tb
      BY <2>4
    <3>2. e = [db[t] EXCEPT !.row[tb] = 0]
      BY <3>1 DEF Effect
    <3> DEFINE r == [db[t].row EXCEPT ![tb] = 0]
    <3>3. e = [db[t] EXCEPT !.row = r]
      BY <1>1, <3>2 DEF Rows
    <3>4. r \in [TableSet -> 0..Steps]
      BY <2>2, <2>3
    <3> HIDE DEF e, r
    <3>5. e \in Rows /\ e.step = db[t].step /\ e.logs = db[t].logs /\ e.row = r
      BY <1>1, <3>3, <3>4 DEF Rows
    <3> QED
      BY <1>2, <2>4, <3>5 DEF e, request, r
  <2>5. CASE request = <<"insert", tb>>
    <3>1. request[1] = "insert" /\ request[2] = tb
      BY <2>5
    <3>2. e = [db[t] EXCEPT !.row[tb] = job[t].step]
      BY <3>1 DEF Effect
    <3> DEFINE r == [db[t].row EXCEPT ![tb] = job[t].step]
    <3>3. e = [db[t] EXCEPT !.row = r]
      BY <1>1, <3>2 DEF Rows
    <3>4. r \in [TableSet -> 0..Steps]
      BY <1>1, <2>2
    <3> HIDE DEF e, r
    <3>5. e \in Rows /\ e.step = db[t].step /\ e.logs = db[t].logs /\ e.row = r
      BY <1>1, <3>3, <3>4 DEF Rows
    <3> QED
      BY <1>2, <2>5, <3>5 DEF e, request, r
  <2> QED
    BY <2>1, <2>4, <2>5
<1> QED
  BY <1>2, <1>3, <1>4, <1>5 DEF Requests

(* What a request that takes effect leaves of the invariants: rows that are*)
(* not ahead, and all the entries there were.                              *)
LEMMA EffectKeeps ==
  ASSUME TypeOK, NEW t \in Tasks, TaskInv(t),
         job[t].pc = "persist", job[t].todo # <<>>
  PROVE  LET e == Effect(t, Head(job[t].todo))
         IN  /\ e.step = job[t].step
             /\ \A tb \in TableSet : e.row[tb] <= e.step
             /\ \A x : Contains(db[t].logs, x) => Contains(e.logs, x)
<1> DEFINE request == Head(job[t].todo)
           e == Effect(t, request)
<1>1. /\ request = job[t].todo[1]
      /\ e \in Rows
      /\ \/ /\ request = <<"upsert">>
            /\ e.step = job[t].step /\ e.row = db[t].row /\ e.logs = db[t].logs
         \/ \E tb \in TableSet :
              /\ e.step = db[t].step /\ e.logs = db[t].logs
              /\ \/ /\ request = <<"delete", tb>>
                    /\ e.row = [db[t].row EXCEPT ![tb] = 0]
                 \/ /\ request = <<"insert", tb>>
                    /\ e.row = [db[t].row EXCEPT ![tb] = job[t].step]
         \/ /\ request = <<"logs">> /\ ~job[t].raised
            /\ e.step = db[t].step /\ e.row = db[t].row
            /\ LET trace == LogsAt(job[t].step)
               IN  e.logs = db[t].logs \o SubSeq(trace, Counted(t) + 1, Len(trace))
  BY EffectIs
<1> HIDE DEF request, e
<1>2. /\ db[t].step \in Nat /\ job[t].step \in Nat /\ db[t].step <= job[t].step
      /\ \A tb \in TableSet : db[t].row[tb] \in Nat /\ db[t].row[tb] <= db[t].step
      /\ DOMAIN db[t].row = TableSet
  BY CountedType DEF TaskInv, RowsInv, TypeOK, Rows
<1>3. request # <<"upsert">> => db[t].step = job[t].step
  BY <1>1 DEF TaskInv, CopyInv
<1>4. \A tb \in TableSet : <<"delete", tb>> # <<"upsert">> /\ <<"insert", tb>> # <<"upsert">>
  OBVIOUS
<1>5. <<"logs">> # <<"upsert">>
  OBVIOUS
<1>6. e.step = job[t].step
  BY <1>1, <1>3, <1>4, <1>5
<1>7. ASSUME NEW tb \in TableSet PROVE e.row[tb] <= e.step
  <2>1. e.row[tb] \in {0, job[t].step, db[t].row[tb]}
    BY <1>1, <1>2
  <2> QED
    BY <1>2, <1>6, <2>1
<1>8. \A x : Contains(db[t].logs, x) => Contains(e.logs, x)
  <2> DEFINE trace == LogsAt(job[t].step)
  <2>1. /\ trace \in Seq(LogSteps) /\ db[t].logs \in Seq(LogSteps)
        /\ Counted(t) \in Nat /\ Counted(t) <= Len(trace)
    BY CountedType, LogsAtType DEF TaskInv, LogsInv, Live
  <2> HIDE DEF trace
  <2>2. \A x : Contains(db[t].logs, x) =>
               Contains(db[t].logs \o SubSeq(trace, Counted(t) + 1, Len(trace)), x)
    BY <2>1, LogsAppended
  <2> QED
    BY <1>1, <2>2 DEF trace
<1> QED
  BY <1>6, <1>7, <1>8 DEF e, request

LEMMA RequestsDiffer ==
  /\ <<"upsert">>[1] = "upsert" /\ <<"logs">>[1] = "logs"
  /\ <<"upsert">> # <<"logs">>
  /\ \A x : /\ <<"delete", x>>[1] = "delete" /\ <<"insert", x>>[1] = "insert"
           /\ <<"delete", x>> # <<"logs">> /\ <<"delete", x>> # <<"upsert">>
           /\ <<"insert", x>> # <<"logs">> /\ <<"insert", x>> # <<"upsert">>
  /\ \A x, y : <<"insert", x>> # <<"delete", y>>
  /\ \A x, y : <<"insert", x>> = <<"insert", y>> => x = y
  /\ \A x, y : <<"delete", x>> = <<"delete", y>> => x = y
<1>1. <<"upsert">>[1] = "upsert" /\ <<"logs">>[1] = "logs"
  OBVIOUS
<1>2. \A x : /\ <<"delete", x>>[1] = "delete" /\ <<"insert", x>>[1] = "insert"
            /\ <<"delete", x>>[2] = x /\ <<"insert", x>>[2] = x
  OBVIOUS
<1>3. \A x, y : <<"insert", x>> = <<"insert", y>> => x = y
  BY <1>2
<1>4. \A x, y : <<"delete", x>> = <<"delete", y>> => x = y
  BY <1>2
<1>5. /\ <<"upsert">> # <<"logs">>
      /\ \A x : /\ <<"delete", x>> # <<"logs">> /\ <<"delete", x>> # <<"upsert">>
               /\ <<"insert", x>> # <<"logs">> /\ <<"insert", x>> # <<"upsert">>
      /\ \A x, y : <<"insert", x>> # <<"delete", y>>
  BY <1>1, <1>2
<1> QED
  BY <1>1, <1>2, <1>3, <1>4, <1>5

LEMMA RequestStep ==
  ASSUME StoreInv, NEW t \in Tasks, PersistRequest(t)
  PROVE  StoreInv'
<1> DEFINE request == Head(job[t].todo)
           e == Effect(t, request)
           s == job[t].store
           trace == LogsAt(job[t].step)
           m == [memory[s][t] EXCEPT !.counted = Len(trace)]
           tail == [job[t] EXCEPT !.todo = Tail(@)]
           ended == [job[t] EXCEPT !.todo = <<>>, !.clean = FALSE]
           lost == [ended EXCEPT !.doubled = @ \/ request[1] = "logs"]
<1>1. TypeOK /\ ServerInv /\ \A u \in Tasks : TaskInv(u)
  BY DEF StoreInv
<1>2. /\ job[t].pc = "persist" /\ job[t].todo # <<>>
      /\ UNCHANGED <<server, persists, page>>
  BY DEF PersistRequest
<1>3. /\ request = job[t].todo[1]
      /\ e \in Rows
      /\ \/ /\ request = <<"upsert">>
            /\ e.step = job[t].step /\ e.row = db[t].row /\ e.logs = db[t].logs
         \/ \E tb \in TableSet :
              /\ e.step = db[t].step /\ e.logs = db[t].logs
              /\ \/ /\ request = <<"delete", tb>>
                    /\ e.row = [db[t].row EXCEPT ![tb] = 0]
                 \/ /\ request = <<"insert", tb>>
                    /\ e.row = [db[t].row EXCEPT ![tb] = job[t].step]
         \/ /\ request = <<"logs">> /\ ~job[t].raised
            /\ e.step = db[t].step /\ e.row = db[t].row
            /\ e.logs = db[t].logs \o SubSeq(trace, Counted(t) + 1, Len(trace))
  BY <1>1, <1>2, EffectIs
<1>4. /\ e.step = job[t].step
      /\ \A tb \in TableSet : e.row[tb] <= e.step
      /\ \A x : Contains(db[t].logs, x) => Contains(e.logs, x)
  BY <1>1, <1>2, EffectKeeps
<1>5. /\ trace \in Seq(LogSteps) /\ Len(trace) \in 0..Steps /\ Len(trace) \in Nat
      /\ s \in Stores /\ Counted(t) \in Nat /\ Counted(t) <= Len(trace)
      /\ db[t].logs \in Seq(LogSteps)
      /\ job[t] \in Jobs /\ job[t].todo \in Seq(Requests)
  <2>1. job[t].step \in Nat /\ job[t].step <= Steps
    BY <1>1, CountedType
  <2>2. Len(trace) \in Nat /\ Len(trace) <= job[t].step
    BY <2>1, LogsAtType
  <2>3. Len(trace) \in 0..Steps
    BY <2>1, <2>2, StepsAssumption
  <2> QED
    BY <1>1, <1>2, <2>1, <2>2, <2>3, CountedType, LogsAtType
    DEF TaskInv, LogsInv, Live, TypeOK, Jobs
<1>6. /\ Tail(job[t].todo) \in Seq(Requests) /\ Paired(Tail(job[t].todo))
      /\ \A r : Contains(job[t].todo, r) => r = request \/ Contains(Tail(job[t].todo), r)
      /\ \A r : Contains(Tail(job[t].todo), r) => Contains(job[t].todo, r)
  BY <1>1, <1>2, <1>3, <1>5, TailFacts DEF TaskInv, CopyInv
<1>7. (request[1] = "logs") <=> request = <<"logs">>
  <2> HIDE DEF request, e, trace
  <2> QED
    BY <1>3, RequestsDiffer
<1>8. /\ tail \in Jobs /\ tail = [job[t] EXCEPT !.todo = Tail(job[t].todo)]
      /\ ended \in Jobs /\ lost \in Jobs
      /\ lost.doubled = (job[t].doubled \/ request = <<"logs">>)
      /\ lost.todo = <<>> /\ ~lost.clean /\ lost.pc = "persist"
      /\ lost.step = job[t].step /\ lost.store = s /\ lost.raised = job[t].raised
  BY <1>2, <1>5, <1>6, <1>7, EmptyRequests DEF Jobs
<1>9. /\ m \in TaskRecords /\ m.counted = Len(trace)
  <2>1. memory[s][t] \in TaskRecords
    BY <1>1, <1>5 DEF TypeOK
  <2> HIDE DEF trace
  <2> QED
    BY <1>5, <2>1 DEF TaskRecords
<1>10. \/ /\ db' = [db EXCEPT ![t] = e]
          /\ job' = [job EXCEPT ![t] = tail]
          /\ IF request = <<"logs">> THEN memory' = [memory EXCEPT ![s][t] = m]
             ELSE memory' = memory
       \/ /\ job' = [job EXCEPT ![t] = ended]
          /\ memory' = memory /\ db' = db
       \/ /\ db' = [db EXCEPT ![t] = e]
          /\ job' = [job EXCEPT ![t] = lost]
          /\ memory' = memory
  <2>1. request = <<"logs">> => CarriedLogs(t) = trace
    <3>1. request = <<"logs">> => ~job[t].raised
      <4> HIDE DEF request, e, trace
      <4> QED
        BY <1>3, RequestsDiffer
    <3> QED
      BY <3>1 DEF CarriedLogs
  <2>2. CountLogs(t) /\ request = <<"logs">> => memory' = [memory EXCEPT ![s][t] = m]
    BY <1>1, <1>5, <2>1 DEF CountLogs, TypeOK
  <2> HIDE DEF m, e
  <2> QED
    BY <1>1, <1>7, <2>2
    DEF PersistRequest, RequestFailed, CountOnFailure, TypeOK, e
<1> HIDE DEF e, m, request, trace
<1>11. CASE /\ db' = [db EXCEPT ![t] = e]
            /\ job' = [job EXCEPT ![t] = tail]
            /\ IF request = <<"logs">> THEN memory' = [memory EXCEPT ![s][t] = m]
               ELSE memory' = memory
  <2>1. /\ db' \in [Tasks -> Rows] /\ db'[t] = e
        /\ \A u \in Tasks \ {t} : db'[u] = db[u]
    BY <1>1, <1>3, <1>11, DbMoves
  <2>2. /\ job' \in [Tasks -> Jobs] /\ job'[t] = tail
        /\ \A u \in Tasks \ {t} : job'[u] = job[u]
    BY <1>1, <1>8, <1>11, JobMoves
  <2>3. /\ memory' \in [Stores -> [Tasks -> TaskRecords]]
        /\ \A z \in Stores, u \in Tasks : z # s \/ u # t => memory'[z][u] = memory[z][u]
        /\ memory'[s][t] = IF request = <<"logs">> THEN m ELSE memory[s][t]
    <3>1. CASE request = <<"logs">>
      <4>1. memory' = [memory EXCEPT ![s][t] = m]
        BY <1>11, <3>1
      <4>2. memory \in [Stores -> [Tasks -> TaskRecords]]
        BY <1>1 DEF TypeOK
      <4> HIDE DEF s
      <4>3. s \in Stores /\ m \in TaskRecords
        BY <1>5, <1>9 DEF s
      <4> QED
        BY <3>1, <4>1, <4>2, <4>3
    <3>2. CASE request # <<"logs">>
      BY <1>1, <1>5, <1>11, <3>2 DEF TypeOK
    <3> QED
      BY <3>1, <3>2
  <2>4. /\ tail.pc = "persist" /\ tail.store = s /\ tail.step = job[t].step
        /\ tail.raised = job[t].raised /\ tail.clean = job[t].clean
        /\ tail.doubled = job[t].doubled /\ tail.todo = Tail(job[t].todo)
    BY <1>2, <1>5, <1>8 DEF Jobs
  <2> HIDE DEF tail
  <2>5. TypeOK'
    BY <1>1, <1>2, <2>1, <2>2, <2>3 DEF TypeOK
  <2>6. \A u \in Tasks \ {t} : TaskInv(u)'
    BY <1>1, <2>1, <2>2, <2>3, SameTask DEF Same
  <2>7. Counted(t)' = IF request = <<"logs">> THEN Len(trace) ELSE Counted(t)
    BY <1>5, <1>9, <2>2, <2>3, <2>4 DEF Counted
  <2>8. LogsInv(t)'
    <3>1. /\ ~job[t].doubled => Starts(db[t].logs, trace) /\ Len(db[t].logs) = Counted(t)
          /\ \A i \in 1..Counted(t) : Contains(db[t].logs, trace[i])
      BY <1>1, <1>2 DEF TaskInv, LogsInv, Live, trace
    <3>2. CASE request = <<"logs">>
      <4>1. e.logs = db[t].logs \o SubSeq(trace, Counted(t) + 1, Len(trace))
        BY <1>3, <3>2, RequestsDiffer
      <4>2. /\ ~job[t].doubled => Starts(e.logs, trace) /\ Len(e.logs) = Len(trace)
            /\ \A i \in 1..Len(trace) : Contains(e.logs, trace[i])
        <5> DEFINE new == db[t].logs \o SubSeq(trace, Counted(t) + 1, Len(trace))
        <5>1. /\ Starts(db[t].logs, trace) /\ Len(db[t].logs) = Counted(t) =>
                   Starts(new, trace) /\ Len(new) = Len(trace)
              /\ (\A i \in 1..Counted(t) : Contains(db[t].logs, trace[i])) =>
                   \A i \in 1..Len(trace) : Contains(new, trace[i])
          BY <1>5, LogsAppended
        <5> HIDE DEF new
        <5>2. e.logs = new
          BY <4>1 DEF new
        <5> QED
          BY <3>1, <5>1, <5>2
      <4> QED
        BY <1>5, <2>1, <2>2, <2>4, <2>7, <3>2, <4>2 DEF LogsInv, trace
    <3>3. CASE request # <<"logs">>
      <4>1. e.logs = db[t].logs
        BY <1>3, <3>3
      <4> QED
        BY <1>5, <2>1, <2>2, <2>4, <2>7, <3>1, <3>3, <4>1 DEF LogsInv, trace
    <3> QED
      BY <3>2, <3>3
  <2>9. CopyInv(t)'
    <3>1. ASSUME job[t].clean, ~job[t].raised, NEW tb \in TableSet,
                 FirstStep[tb] <= job[t].step
          PROVE  \/ Contains(Tail(job[t].todo), <<"insert", tb>>)
                 \/ e.row[tb] = job[t].step
      <4>1. \/ Contains(job[t].todo, <<"insert", tb>>)
            \/ db[t].row[tb] = job[t].step
        BY <1>1, <1>2, <3>1 DEF TaskInv, CopyInv
      <4>2. tb \in DOMAIN db[t].row
        BY <1>1 DEF TypeOK, Rows
      <4>3. CASE request = <<"insert", tb>>
        <5>1. PICK other \in TableSet :
                \/ /\ request = <<"delete", other>>
                   /\ e.row = [db[t].row EXCEPT ![other] = 0]
                \/ /\ request = <<"insert", other>>
                   /\ e.row = [db[t].row EXCEPT ![other] = job[t].step]
          <6>1. request # <<"upsert">> /\ request # <<"logs">>
            BY <4>3, RequestsDiffer
          <6> QED
            BY <1>3, <6>1
        <5>2. request # <<"delete", other>>
          BY <4>3, RequestsDiffer
        <5>3. request = <<"insert", other>> => other = tb
          BY <4>3, RequestsDiffer
        <5>4. e.row = [db[t].row EXCEPT ![tb] = job[t].step]
          BY <5>1, <5>2, <5>3
        <5> QED
          BY <4>2, <5>4
      <4>4. CASE request = <<"delete", tb>>
        <5>1. 1 \in DOMAIN job[t].todo /\ DOMAIN job[t].todo = 1..Len(job[t].todo)
          BY <1>2, <1>5, EmptySeq, LenProperties
        <5>2. 2 \in DOMAIN job[t].todo /\ job[t].todo[2] = <<"insert", tb>>
          <6>1. Paired(job[t].todo) /\ job[t].todo[1] = <<"delete", tb>>
            BY <1>1, <1>2, <1>3, <4>4 DEF TaskInv, CopyInv
          <6>2. 1 + 1 \in DOMAIN job[t].todo /\ job[t].todo[1 + 1] = <<"insert", tb>>
            BY <5>1, <6>1 DEF Paired
          <6> QED
            BY <6>2
        <5>3. Contains(job[t].todo, <<"insert", tb>>)
          BY <5>1, <5>2 DEF Contains
        <5>4. <<"insert", tb>> # <<"delete", tb>>
          OBVIOUS
        <5> QED
          BY <1>6, <4>4, <5>3, <5>4
      <4>5. CASE request # <<"insert", tb>> /\ request # <<"delete", tb>>
        <5>1. e.row[tb] = db[t].row[tb]
          BY <1>3, <4>2, <4>5
        <5> QED
          BY <1>6, <4>1, <4>5, <5>1
      <4> QED
        BY <4>3, <4>4, <4>5
    <3>2. ASSUME job[t].clean, ~job[t].raised
          PROVE  \/ Contains(Tail(job[t].todo), <<"logs">>)
                 \/ Len(trace) <= Counted(t)'
      <4>1. \/ Contains(job[t].todo, <<"logs">>)
            \/ Len(trace) <= Counted(t)
        BY <1>1, <1>2, <3>2 DEF TaskInv, CopyInv, trace
      <4> QED
        BY <1>5, <1>6, <2>7, <4>1
    <3>3. job[t].raised => ~Contains(Tail(job[t].todo), <<"logs">>)
      BY <1>1, <1>2, <1>6 DEF TaskInv, CopyInv
    <3> QED
      BY <1>4, <1>6, <2>1, <2>2, <2>4, <3>1, <3>2, <3>3 DEF CopyInv, trace
  <2>10. RowsInv(t)'
    <3>1. job[t].step <= job[t].step
      BY <1>1, CountedType
    <3> QED
      BY <1>4, <2>1, <2>2, <2>4, <3>1 DEF RowsInv
  <2> QED
    BY <1>1, <1>2, <2>2, <2>4, <2>5, <2>6, <2>8, <2>9, <2>10
    DEF StoreInv, ServerInv, TaskInv, FreshInv
<1>12. CASE /\ job' = [job EXCEPT ![t] = ended]
            /\ memory' = memory /\ db' = db
  <2>1. /\ job' \in [Tasks -> Jobs] /\ job'[t] = ended
        /\ \A u \in Tasks \ {t} : job'[u] = job[u]
    BY <1>1, <1>8, <1>12, JobMoves
  <2>2. /\ ended.pc = "persist" /\ ended.store = s /\ ended.step = job[t].step
        /\ ~ended.clean /\ ended.doubled = job[t].doubled /\ ended.todo = <<>>
    BY <1>2, <1>5 DEF Jobs
  <2> HIDE DEF ended
  <2>3. TypeOK'
    BY <1>1, <1>2, <1>12, <2>1 DEF TypeOK
  <2>4. \A u \in Tasks \ {t} : TaskInv(u)'
    BY <1>1, <1>12, <2>1, SameTask DEF Same
  <2>5. Counted(t)' = Counted(t)
    BY <1>12, <2>1, <2>2 DEF Counted
  <2>6. TaskInv(t)'
    BY <1>1, <1>2, <1>12, <2>1, <2>2, <2>5, EmptyRequests
    DEF TaskInv, FreshInv, LogsInv, CopyInv, RowsInv, Live
  <2> QED
    BY <1>1, <1>2, <2>3, <2>4, <2>6 DEF StoreInv, ServerInv
<1>13. CASE /\ db' = [db EXCEPT ![t] = e]
            /\ job' = [job EXCEPT ![t] = lost]
            /\ memory' = memory
  <2>1. /\ db' \in [Tasks -> Rows] /\ db'[t] = e
        /\ \A u \in Tasks \ {t} : db'[u] = db[u]
    BY <1>1, <1>3, <1>13, DbMoves
  <2> HIDE DEF lost
  <2>2. /\ job' \in [Tasks -> Jobs] /\ job'[t] = lost
        /\ \A u \in Tasks \ {t} : job'[u] = job[u]
    BY <1>1, <1>8, <1>13, JobMoves
  <2>3. TypeOK'
    BY <1>1, <1>2, <1>13, <2>1, <2>2 DEF TypeOK
  <2>4. \A u \in Tasks \ {t} : TaskInv(u)'
    BY <1>1, <1>13, <2>1, <2>2, SameTask DEF Same
  <2>5. Counted(t)' = Counted(t)
    BY <1>8, <1>13, <2>2 DEF Counted
  <2>6. LogsInv(t)'
    <3>1. /\ ~job[t].doubled => Starts(db[t].logs, trace) /\ Len(db[t].logs) = Counted(t)
          /\ \A i \in 1..Counted(t) : Contains(db[t].logs, trace[i])
      BY <1>1, <1>2 DEF TaskInv, LogsInv, Live, trace
    <3>2. request # <<"logs">> => e.logs = db[t].logs
      BY <1>3
    <3> QED
      BY <1>4, <1>5, <1>8, <2>1, <2>2, <2>5, <3>1, <3>2 DEF LogsInv, trace
  <2>7. CopyInv(t)'
    BY <1>8, <2>2, EmptyRequests DEF CopyInv
  <2>8. RowsInv(t)'
    <3>1. job[t].step <= job[t].step
      BY <1>1, CountedType
    <3> QED
      BY <1>4, <1>8, <2>1, <2>2, <3>1 DEF RowsInv
  <2> QED
    BY <1>1, <1>2, <1>8, <2>2, <2>3, <2>4, <2>6, <2>7, <2>8
    DEF StoreInv, ServerInv, TaskInv, FreshInv
<1> QED
  BY <1>10, <1>11, <1>12, <1>13

LEMMA PersistedStep ==
  ASSUME StoreInv, NEW t \in Tasks, Persisted(t)
  PROVE  StoreInv'
<1> DEFINE pc == AfterSnapshot(job[t].ends)
           j == [job[t] EXCEPT !.pc = pc]
<1>1. TypeOK /\ ServerInv /\ \A u \in Tasks : TaskInv(u)
  BY DEF StoreInv
<1>2. /\ job[t].pc = "persist"
      /\ UNCHANGED <<server, persists, memory, db, page>>
  BY DEF Persisted
<1>3. pc \in {"done", "node"}
  BY DEF AfterSnapshot
<1>4. job' = [job EXCEPT ![t] = j]
  BY <1>1 DEF Persisted, TypeOK
<1> HIDE DEF pc
<1>5. /\ j \in Jobs /\ j.pc = pc /\ j.store = job[t].store /\ j.step = job[t].step
      /\ j.doubled = job[t].doubled
  <2>1. job[t] \in Jobs
    BY <1>1 DEF TypeOK
  <2> QED
    BY <1>3, <2>1 DEF Jobs
<1> HIDE DEF j
<1>6. /\ job' \in [Tasks -> Jobs] /\ job'[t] = j
      /\ \A u \in Tasks \ {t} : job'[u] = job[u]
  BY <1>1, <1>4, <1>5, JobMoves
<1>7. TypeOK'
  BY <1>1, <1>2, <1>6 DEF TypeOK
<1>8. \A u \in Tasks \ {t} : TaskInv(u)'
  BY <1>1, <1>2, <1>6, SameTask DEF Same
<1>9. Counted(t)' = Counted(t)
  BY <1>2, <1>5, <1>6 DEF Counted
<1>10. LogsInv(t)'
  BY <1>1, <1>2, <1>5, <1>6, <1>9 DEF TaskInv, LogsInv, Live
<1>11. TaskInv(t)'
  BY <1>1, <1>2, <1>3, <1>5, <1>6, <1>10 DEF TaskInv, FreshInv, CopyInv, RowsInv
<1> QED
  BY <1>1, <1>2, <1>7, <1>8, <1>11 DEF StoreInv, ServerInv

(* The page, and the store new requests find, are in no other conjunct.    *)
LEMMA PageStep ==
  ASSUME StoreInv, NEW t \in Tasks, PollTask(t) \/ ReloadPage(t)
  PROVE  StoreInv'
<1>1. TypeOK /\ ServerInv /\ \A u \in Tasks : TaskInv(u)
  BY DEF StoreInv
<1>2. UNCHANGED <<server, persists, memory, db, job>>
  BY DEF PollTask, ReloadPage
<1>3. page' \in [Tasks -> Pages]
  <2>1. PICK p \in Pages : page' = [page EXCEPT ![t] = p]
    <3>1. CASE PollTask(t)
      <4> DEFINE status == memory[server.store][t].status
                 p == CASE status = "absent" -> AnsweredNotFound
                        [] Decided(status) -> "told"
                        [] OTHER -> "polling"
      <4>1. page' = [page EXCEPT ![t] = p]
        BY <3>1 DEF PollTask
      <4> HIDE DEF status
      <4>2. p \in Pages
        <5>1. Decided("absent") = FALSE
          BY DEF Decided
        <5> QED
          BY <5>1 DEF Pages, AnsweredNotFound
      <4> QED
        BY <4>1, <4>2
    <3>2. CASE ReloadPage(t)
      BY <3>2 DEF ReloadPage, Pages
    <3> QED
      BY <3>1, <3>2
  <2> QED
    BY <1>1, <2>1 DEF TypeOK
<1>4. TypeOK'
  BY <1>1, <1>2, <1>3 DEF TypeOK
<1>5. \A u \in Tasks : TaskInv(u)'
  BY <1>1, <1>2, SameTask DEF Same
<1> QED
  BY <1>1, <1>2, <1>4, <1>5 DEF StoreInv, ServerInv

LEMMA ServerStep ==
  ASSUME StoreInv, ReloadRuntimeSettings \/ Restart
  PROVE  StoreInv'
<1>1. TypeOK /\ ServerInv /\ \A u \in Tasks : TaskInv(u)
  BY DEF StoreInv
<1>2. UNCHANGED <<persists, memory, db, job, page>>
  BY DEF ReloadRuntimeSettings, Restart
<1>3. server' = [up |-> TRUE, store |-> server.store + 1]
  BY <1>1 DEF ReloadRuntimeSettings, Restart, Serving, TypeOK
<1>4. server.store \in Stores /\ server.store < MaxStores
  BY <1>1 DEF ReloadRuntimeSettings, Restart, ServerInv, TypeOK
<1>5. server.store + 1 \in Stores
  BY <1>4, MaxStoresAssumption DEF Stores
<1>6. TypeOK' /\ ServerInv'
  BY <1>1, <1>2, <1>3, <1>5 DEF TypeOK, ServerInv
<1>7. \A u \in Tasks : TaskInv(u)'
  BY <1>1, <1>2, SameTask DEF Same
<1> QED
  BY <1>6, <1>7 DEF StoreInv

(* A killed job is not live; one that was not created has counted nothing. *)
LEMMA CrashStep ==
  ASSUME StoreInv, Crash
  PROVE  StoreInv'
<1>1. TypeOK /\ ServerInv /\ \A u \in Tasks : TaskInv(u)
  BY DEF StoreInv
<1>2. /\ UNCHANGED <<persists, db, page>> /\ server.store < MaxStores
      /\ server' = [server EXCEPT !.up = FALSE]
  BY DEF Crash
<1>3. memory' \in [Stores -> [Tasks -> TaskRecords]]
  <2>1. Absent \in TaskRecords
    BY StepsAssumption DEF Absent, TaskRecords
  <2> QED
    BY <2>1 DEF Crash
<1>4. \A z \in Stores, u \in Tasks : memory'[z][u].counted = 0
  BY DEF Crash, Absent
<1>5. \A u \in Tasks :
        /\ job'[u] \in Jobs
        /\ job'[u].step = job[u].step /\ job'[u].store = job[u].store
        /\ job'[u].doubled = job[u].doubled
        /\ \/ job[u].pc = "none" /\ job'[u].pc = "none"
           \/ job'[u].pc \in {"done", "killed"}
  <2> TAKE u \in Tasks
  <2>1. job[u] \in Jobs /\ <<>> \in Seq(Requests)
    BY <1>1, EmptyRequests DEF TypeOK
  <2>2. job'[u] = IF job[u].pc \in {"none", "done"} THEN job[u]
                  ELSE [job[u] EXCEPT !.pc = "killed", !.todo = <<>>]
    BY DEF Crash
  <2> QED
    BY <2>1, <2>2 DEF Jobs
<1>6. job' \in [Tasks -> Jobs]
  <2>1. DOMAIN job' = Tasks /\ job' = [u \in Tasks |-> job'[u]]
    BY DEF Crash
  <2> QED
    BY <1>5, <2>1
<1>7. TypeOK' /\ ServerInv'
  BY <1>1, <1>2, <1>3, <1>6 DEF TypeOK, ServerInv
<1>8. ASSUME NEW u \in Tasks PROVE TaskInv(u)'
  <2>1. db'[u] = db[u] /\ job[u].store \in Stores /\ job[u].step \in Nat
    BY <1>1, <1>2, CountedType
  <2>2. Counted(u)' = 0
    BY <1>4, <1>5, <2>1 DEF Counted
  <2>3. job'[u].pc = "none" =>
          job[u].pc = "none" /\ job[u].step = 0 /\ db[u].logs = <<>>
    BY <1>1, <1>5 DEF TaskInv, FreshInv
  <2>4. FreshInv(u)'
    BY <1>4, <1>5, <2>1, <2>3 DEF FreshInv, Stores
  <2>5. LogsInv(u)'
    <3>1. ~job[u].doubled => Starts(db[u].logs, LogsAt(job[u].step))
      BY <1>1 DEF TaskInv, LogsInv
    <3>2. Len(LogsAt(job[u].step)) \in Nat
      BY <2>1, LogsAtType
    <3>3. Live(u)' => Len(db[u].logs) = 0
      BY <1>5, <2>3 DEF Live
    <3> QED
      BY <1>5, <2>1, <2>2, <3>1, <3>2, <3>3 DEF LogsInv
  <2>6. CopyInv(u)'
    BY <1>5 DEF CopyInv
  <2>7. RowsInv(u)'
    BY <1>1, <1>5, <2>1 DEF TaskInv, RowsInv
  <2> QED
    BY <2>4, <2>5, <2>6, <2>7 DEF TaskInv
<1> QED
  BY <1>7, <1>8 DEF StoreInv

LEMMA InitStore == Init => StoreInv
<1> SUFFICES ASSUME Init PROVE StoreInv
  OBVIOUS
<1>1. <<>> \in Seq(Requests) /\ <<>> \in Seq(LogSteps)
  BY EmptyRequests, EmptySeq
<1>2. 1 \in Stores /\ 0 \in 0..Steps /\ Absent \in TaskRecords
  BY MaxStoresAssumption, StepsAssumption DEF Stores, Absent, TaskRecords
<1>3. server \in [up : BOOLEAN, store : Stores] /\ ServerInv
  BY <1>2 DEF Init, ServerInv
<1>4. memory \in [Stores -> [Tasks -> TaskRecords]]
  BY <1>2 DEF Init
<1>5. db \in [Tasks -> Rows]
  <2>1. [step |-> 0, status |-> "absent",
         row |-> [tb \in TableSet |-> 0], logs |-> <<>>] \in Rows
    BY <1>1, <1>2 DEF Rows, RowStatuses
  <2> QED
    BY <2>1 DEF Init
<1>6. job \in [Tasks -> Jobs]
  <2>1. [pc |-> "none", store |-> 1, step |-> 0, raised |-> FALSE,
         ends |-> FALSE, todo |-> <<>>, clean |-> TRUE, doubled |-> FALSE] \in Jobs
    BY <1>1, <1>2 DEF Jobs
  <2> QED
    BY <2>1 DEF Init
<1>7. TypeOK
  BY <1>3, <1>4, <1>5, <1>6 DEF TypeOK, Init, Pages
<1>8. ASSUME NEW t \in Tasks PROVE TaskInv(t)
  <2>1. /\ job[t].pc = "none" /\ job[t].step = 0 /\ job[t].store = 1
        /\ db[t].step = 0 /\ db[t].logs = <<>>
        /\ \A tb \in TableSet : db[t].row[tb] = 0
        /\ \A z \in Stores : memory[z][t].counted = 0
    BY DEF Init, Absent
  <2>2. Counted(t) = 0 /\ Len(LogsAt(0)) \in Nat
    BY <1>2, <2>1, LogsAtType DEF Counted
  <2>3. LogsInv(t)
    BY <2>1, <2>2 DEF LogsInv, Starts
  <2> QED
    BY <2>1, <2>3 DEF TaskInv, FreshInv, CopyInv, RowsInv
<1> QED
  BY <1>3, <1>7, <1>8 DEF StoreInv

LEMMA NextStore == StoreInv /\ [Next]_vars => StoreInv'
<1> SUFFICES ASSUME StoreInv, [Next]_vars PROVE StoreInv'
  OBVIOUS
<1>1. ASSUME NEW t \in Tasks, SnapshotTask(t) PROVE StoreInv'
  <2>1. PICK status \in {"started", "completed", "failed"}, ends \in BOOLEAN :
          Snapshot(t, status, FALSE, ends)
    BY <1>1 DEF SnapshotTask
  <2> QED
    BY <2>1, SnapshotStep
<1>2. ASSUME NEW t \in Tasks, SnapshotFailure(t) PROVE StoreInv'
  BY <1>2, SnapshotStep DEF SnapshotFailure
<1>3. CASE UNCHANGED vars
  <2>1. TypeOK /\ \A u \in Tasks : TaskInv(u)
    BY DEF StoreInv
  <2>2. \A u \in Tasks : TaskInv(u)'
    BY <1>3, <2>1, SameTask DEF Same, vars
  <2> QED
    BY <1>3, <2>2 DEF StoreInv, TypeOK, ServerInv, vars
<1> QED
  BY <1>1, <1>2, <1>3, CreateStep, RequestStep, PersistedStep, PageStep,
     ServerStep, CrashStep
  DEF Next, Run

-----------------------------------------------------------------------------
(* Theorems *)

(* What the store counts as written is in the database, a copy writes the  *)
(* session before the tables, and a table it empties is filled next:       *)
(* create_task, snapshot_task, _persist_snapshot, and the crashes and      *)
(* reloads between their requests, keep all of it.                         *)
THEOREM StoreInvariant == Spec => []StoreInv
BY InitStore, NextStore, PTL DEF Spec

(* The records of a task and the rows of its tables have their types.      *)
THEOREM TypeCorrect == Spec => []TypeOK
<1>1. StoreInv => TypeOK
  BY DEF StoreInv
<1> QED
  BY <1>1, StoreInvariant, PTL

(* _replace_rows after _persist_snapshot of a failed one, over and over:   *)
(* the agent logs of a task are still a beginning of its trace, unless an  *)
(* insert took effect and its answer was lost.                             *)
THEOREM LogsStayTheTrace == Spec => []LogsAreTheTrace
<1>1. StoreInv => LogsAreTheTrace
  <2> SUFFICES ASSUME StoreInv, NEW t \in Tasks, ~job[t].doubled
               PROVE  IsPrefix(db[t].logs, LogsAt(job[t].step))
    BY DEF LogsAreTheTrace
  <2>1. TypeOK /\ TaskInv(t)
    BY DEF StoreInv
  <2>2. db[t].logs \in Seq(LogSteps) /\ LogsAt(job[t].step) \in Seq(LogSteps)
    BY <2>1, CountedType, LogsAtType
  <2> QED
    BY <2>1, <2>2, StartsIsPrefix DEF TaskInv, LogsInv
<1> QED
  BY <1>1, StoreInvariant, PTL

(* A copy of _persist_snapshot that meets no failure leaves the session,   *)
(* the tables and the logs of its snapshot, whatever failed before it.     *)
THEOREM CleanCopies == Spec => []CleanCopyHeals
<1>1. StoreInv => CleanCopyHeals
  <2> SUFFICES ASSUME StoreInv, NEW t \in Tasks,
                      job[t].pc = "persist", job[t].todo = <<>>, job[t].clean
               PROVE  /\ db[t].step = job[t].step
                      /\ \A tb \in Carried(t) : db[t].row[tb] = job[t].step
                      /\ \A i \in DOMAIN CarriedLogs(t) :
                           Contains(db[t].logs, CarriedLogs(t)[i])
    BY DEF CleanCopyHeals
  <2>1. TypeOK /\ TaskInv(t)
    BY DEF StoreInv
  <2>2. \A r : ~Contains(job[t].todo, r)
    BY EmptyRequests
  <2>3. db[t].step = job[t].step
    BY <2>1 DEF TaskInv, CopyInv
  <2>4. CASE job[t].raised
    BY <2>3, <2>4 DEF Carried, CarriedLogs
  <2>5. CASE ~job[t].raised
    <3>1. \A tb \in Carried(t) : db[t].row[tb] = job[t].step
      BY <2>1, <2>2, <2>5 DEF TaskInv, CopyInv, Carried
    <3> DEFINE trace == LogsAt(job[t].step)
    <3>2. DOMAIN trace = 1..Len(trace) /\ Len(trace) \in Nat /\ Counted(t) \in Nat
      BY <2>1, CountedType, LogsAtType
    <3>3. Len(trace) <= Counted(t)
      BY <2>1, <2>2, <2>5 DEF TaskInv, CopyInv
    <3>4. \A i \in 1..Counted(t) : Contains(db[t].logs, trace[i])
      BY <2>1 DEF TaskInv, LogsInv, Live
    <3>5. CarriedLogs(t) = trace
      BY <2>5 DEF CarriedLogs
    <3> HIDE DEF trace
    <3> QED
      BY <2>3, <3>1, <3>2, <3>3, <3>4, <3>5
  <2> QED
    BY <2>4, <2>5
<1> QED
  BY <1>1, StoreInvariant, PTL

(* Wherever _persist_snapshot breaks off, and whatever a crash leaves, no  *)
(* table holds rows of a later snapshot than the session they belong to.   *)
THEOREM RowsFollowSession == Spec => []RowsNotAheadOfSession
<1>1. StoreInv => RowsNotAheadOfSession
  BY DEF StoreInv, TaskInv, RowsInv, RowsNotAheadOfSession
<1> QED
  BY <1>1, StoreInvariant, PTL
=============================================================================
