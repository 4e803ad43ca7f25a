--------------------------- MODULE ReconcileProofs ---------------------------
(***************************************************************************)
(* What the operators of Reconcile return, for every list: the facts the   *)
(* proofs about the protocol rest on.                                      *)
(***************************************************************************)
EXTENDS Reconcile, FiniteSetTheorems, SequenceTheorems, WellFoundedInduction, TLAPS

(* The rank of a kept position is a position of the kept list. *)
LEMMA RankType ==
  ASSUME NEW n \in Nat, NEW idx \in SUBSET (1..n)
  PROVE  /\ IsFiniteSet(idx)
         /\ Cardinality(idx) \in Nat
         /\ \A i \in idx : Rank(idx, i) \in 1..Cardinality(idx)
<1>0. IsFiniteSet(1..n)
  BY 1 \in Int, n \in Int, FS_Interval
<1>1. IsFiniteSet(idx) /\ Cardinality(idx) \in Nat
  <2>1. IsFiniteSet(idx)
    BY <1>0, FS_Subset
  <2>2. QED
    BY <2>1, FS_CardinalityType
<1>2. ASSUME NEW i \in idx PROVE Rank(idx, i) \in 1..Cardinality(idx)
  <2> DEFINE below == {j \in idx : j <= i}
  <2>1. below \in SUBSET idx /\ i \in below
    OBVIOUS
  <2>2. IsFiniteSet(below) /\ Cardinality(below) <= Cardinality(idx)
    BY <1>1, <2>1, FS_Subset
  <2>3. Cardinality(below) \in Nat /\ Cardinality(below) # 0
    BY <2>1, <2>2, FS_CardinalityType, FS_EmptySet
  <2>4. QED
    BY <1>1, <2>2, <2>3 DEF Rank
<1>3. QED
  BY <1>1, <1>2

(* Ranks grow with the position, so no two positions share one. *)
LEMMA RankMonotonic ==
  ASSUME NEW n \in Nat, NEW idx \in SUBSET (1..n),
         NEW i \in idx, NEW j \in idx, i < j
  PROVE  Rank(idx, i) < Rank(idx, j)
<1> DEFINE upTo(k) == {m \in idx : m <= k}
<1>1. IsFiniteSet(idx)
  BY RankType
<1>2. IsFiniteSet(upTo(j)) /\ upTo(i) \in SUBSET upTo(j)
  <2>1. upTo(j) \in SUBSET idx
    OBVIOUS
  <2>2. IsFiniteSet(upTo(j))
    BY <1>1, <2>1, FS_Subset
  <2>3. \A m \in idx : m <= i => m <= j
    OBVIOUS
  <2>4. QED
    BY <2>2, <2>3
<1>3. j \in upTo(j) /\ j \notin upTo(i)
  OBVIOUS
<1>4. /\ Cardinality(upTo(i)) <= Cardinality(upTo(j))
      /\ Cardinality(upTo(i)) # Cardinality(upTo(j))
  BY <1>2, <1>3, FS_Subset
<1>5. Cardinality(upTo(i)) \in Nat /\ Cardinality(upTo(j)) \in Nat
  BY <1>2, FS_Subset, FS_CardinalityType
<1>6. QED
  BY <1>4, <1>5 DEF Rank

(* No two kept positions have one rank. *)
LEMMA RankInjective ==
  ASSUME NEW n \in Nat, NEW idx \in SUBSET (1..n),
         NEW i \in idx, NEW j \in idx, Rank(idx, i) = Rank(idx, j)
  PROVE  i = j
<1>1. Rank(idx, i) \in Int /\ Rank(idx, j) \in Int
  <2>1. Cardinality(idx) \in Nat /\ \A k \in idx : Rank(idx, k) \in 1..Cardinality(idx)
    BY RankType
  <2>2. QED
    BY <2>1
<1>2. ~(i < j)
  <2>1. SUFFICES ASSUME i < j PROVE FALSE
    OBVIOUS
  <2>2. Rank(idx, i) < Rank(idx, j)
    BY <2>1, RankMonotonic
  <2>3. QED
    BY <1>1, <2>2
<1>3. ~(j < i)
  <2>1. SUFFICES ASSUME j < i PROVE FALSE
    OBVIOUS
  <2>2. Rank(idx, j) < Rank(idx, i)
    BY <2>1, RankMonotonic
  <2>3. QED
    BY <1>1, <2>2
<1>4. QED
  BY <1>2, <1>3

(* Every position of the kept list is the rank of exactly one kept position. *)
LEMMA RankOnto ==
  ASSUME NEW n \in Nat, NEW idx \in SUBSET (1..n), NEW k \in 1..Cardinality(idx)
  PROVE  \E i \in idx : Rank(idx, i) = k
<1> DEFINE r == [i \in idx |-> Rank(idx, i)]
<1>1. r \in [idx -> 1..Cardinality(idx)]
  BY RankType
<1>2. IsInjective(r)
  BY RankInjective DEF IsInjective
<1>3. IsFiniteSet(1..Cardinality(idx)) /\ Cardinality(1..Cardinality(idx)) = Cardinality(idx)
  <2>1. Cardinality(idx) \in Nat
    BY RankType
  <2>2. 1 \in Int /\ Cardinality(idx) \in Int
    BY <2>1
  <2>3. QED
    BY <2>1, <2>2, FS_Interval
<1>4. r \in Injection(idx, 1..Cardinality(idx))
  BY <1>1, <1>2 DEF Injection
<1>5. r \in Surjection(idx, 1..Cardinality(idx))
  BY <1>3, <1>4, FS_Injection
<1>6. QED
  BY <1>5 DEF Surjection

(* The kept list holds exactly what stood at the kept positions. *)
LEMMA KeptAtProperties ==
  ASSUME NEW S, NEW s \in Seq(S), NEW idx \in SUBSET (DOMAIN s)
  PROVE  /\ KeptAt(s, idx) \in Seq({s[i] : i \in idx})
         /\ Len(KeptAt(s, idx)) = Cardinality(idx)
         /\ Range(KeptAt(s, idx)) = {s[i] : i \in idx}
<1> DEFINE pos(k) == CHOOSE i \in idx : Rank(idx, i) = k
           kept == KeptAt(s, idx)
           V == {s[i] : i \in idx}
<1>1. idx \in SUBSET (1..Len(s)) /\ Len(s) \in Nat
  BY LenProperties
<1>2. Cardinality(idx) \in Nat /\ \A i \in idx : Rank(idx, i) \in 1..Cardinality(idx)
  BY <1>1, RankType
<1>3. ASSUME NEW k \in 1..Cardinality(idx)
      PROVE  pos(k) \in idx /\ Rank(idx, pos(k)) = k
  BY <1>1, RankOnto
<1>4. kept = [k \in 1..Cardinality(idx) |-> s[pos(k)]]
  BY DEF KeptAt
<1>5. \A k \in 1..Cardinality(idx) : s[pos(k)] \in V
  BY <1>3
<1>6. kept \in [1..Cardinality(idx) -> V]
  <2> HIDE DEF pos, kept, V
  <2>1. QED
    BY <1>4, <1>5
<1>7. kept \in Seq(V) /\ Len(kept) = Cardinality(idx)
  <2> DEFINE c == Cardinality(idx)
  <2>1. c \in Nat /\ kept \in [1..c -> V]
    BY <1>2, <1>6
  <2> HIDE DEF pos, kept, V, c
  <2>2. kept \in Seq(V) /\ DOMAIN kept = 1..c
    BY <2>1, SeqDef
  <2>3. Len(kept) = c
    BY <2>1, <2>2, LenProperties
  <2>4. QED
    BY <2>2, <2>3 DEF c
<1>8. ASSUME NEW i \in idx PROVE \E k \in 1..Cardinality(idx) : kept[k] = s[i]
  <2> DEFINE k == Rank(idx, i)
  <2>1. k \in 1..Cardinality(idx)
    BY <1>2
  <2>2. pos(k) \in idx /\ Rank(idx, pos(k)) = k
    BY <1>3, <2>1
  <2>3. pos(k) = i
    BY <1>1, <2>2, RankInjective
  <2>4. QED
    BY <1>4, <2>1, <2>3
<1>9. Range(kept) = V
  BY <1>6, <1>8 DEF Range
<1>10. QED
  BY <1>7, <1>9

(* Filtering a list keeps exactly the elements asked for. *)
LEMMA KeptProperties ==
  ASSUME NEW T, NEW s \in Seq(T), NEW S
  PROVE  /\ Kept(s, S) \in Seq(T)
         /\ Range(Kept(s, S)) = Range(s) \cap S
<1> DEFINE idx == {i \in DOMAIN s : s[i] \in S}
<1>1. /\ KeptAt(s, idx) \in Seq({s[i] : i \in idx})
      /\ Range(KeptAt(s, idx)) = {s[i] : i \in idx}
  BY KeptAtProperties
<1>2. {s[i] : i \in idx} = Range(s) \cap S
  BY DEF Range
<1>3. {s[i] : i \in idx} \subseteq T
  BY LenProperties, ElementOfSeq
<1>4. QED
  BY <1>1, <1>2, <1>3, SeqMonotonic DEF Kept

-----------------------------------------------------------------------------
(* Lists built one element at a time.  The induction is over a set, the set of
   the numbers (or of the lists) a fact holds of. *)

(* A set that holds 0 and with each number the next holds them all. *)
LEMMA CountingUp ==
  ASSUME NEW E, 0 \in E, \A n \in Nat : n \in E => n + 1 \in E
  PROVE  Nat \subseteq E
<1> DEFINE rest == Nat \ E
<1>1. SUFFICES ASSUME rest # {} PROVE FALSE
  OBVIOUS
<1>2. PICK least \in rest : \A m \in rest : ~ (<<m, least>> \in OpToRel(<, Nat))
  BY <1>1, WFMin, NatLessThanWellFounded
<1>3. least - 1 \in Nat /\ least - 1 \notin rest
  <2>1. least # 0 /\ least \in Nat
    OBVIOUS
  <2>2. least - 1 \in Nat /\ least - 1 < least
    BY <2>1
  <2>3. <<least - 1, least>> \in OpToRel(<, Nat)
    BY <2>1, <2>2 DEF OpToRel
  <2>4. QED
    BY <1>2, <2>2, <2>3
<1>4. least = (least - 1) + 1
  OBVIOUS
<1>5. QED
  BY <1>3, <1>4

(* A set that holds the empty list and with each list every longer one by one
   element holds them all. *)
LEMMA AppendingUp ==
  ASSUME NEW T, NEW P, <<>> \in P,
         \A s \in Seq(T), x \in T : s \in P => Append(s, x) \in P
  PROVE  Seq(T) \subseteq P
<1> DEFINE E == {n \in Nat : \A s \in Seq(T) : Len(s) = n => s \in P}
<1>1. 0 \in E
  BY EmptySeq
<1>2. ASSUME NEW n \in Nat, n \in E PROVE n + 1 \in E
  <2>1. SUFFICES ASSUME NEW s \in Seq(T), Len(s) = n + 1 PROVE s \in P
    OBVIOUS
  <2>2. s # <<>>
    BY <2>1, EmptySeq
  <2>3. PICK r \in Seq(T), x \in T : s = Append(r, x)
    BY <2>2, SequenceEmptyOrAppend
  <2>4. Len(r) = n
    BY <2>1, <2>3, AppendProperties, LenProperties
  <2>5. QED
    BY <1>2, <2>3, <2>4
<1>3. Nat \subseteq E
  <2> HIDE DEF E
  <2>1. QED
    BY <1>1, <1>2, CountingUp
<1>4. QED
  BY <1>3, LenProperties

(* A filter of a longer list: the ranks of the old positions stay, and the new
   position comes last. *)
LEMMA RankOfLonger ==
  ASSUME NEW n \in Nat, NEW idx \in SUBSET (1..n)
  PROVE  /\ \A i \in idx : Rank(idx \cup {n + 1}, i) = Rank(idx, i)
         /\ Rank(idx \cup {n + 1}, n + 1) = Cardinality(idx) + 1
         /\ Cardinality(idx \cup {n + 1}) = Cardinality(idx) + 1
<1>1. ASSUME NEW i \in idx PROVE Rank(idx \cup {n + 1}, i) = Rank(idx, i)
  <2>1. {j \in idx \cup {n + 1} : j <= i} = {j \in idx : j <= i}
    OBVIOUS
  <2>2. QED
    BY <2>1 DEF Rank
<1>2. Cardinality(idx \cup {n + 1}) = Cardinality(idx) + 1
  <2>1. IsFiniteSet(idx)
    BY RankType
  <2>2. n + 1 \notin idx
    OBVIOUS
  <2>3. QED
    BY <2>1, <2>2, FS_AddElement
<1>3. {j \in idx \cup {n + 1} : j <= n + 1} = idx \cup {n + 1}
  <2>1. \A j \in idx \cup {n + 1} : j <= n + 1
    OBVIOUS
  <2>2. QED
    BY <2>1
<1>4. QED
  BY <1>1, <1>2, <1>3 DEF Rank

(* Filtering a list with one more element. *)
LEMMA KeptOfAppend ==
  ASSUME NEW T, NEW s \in Seq(T), NEW x \in T, NEW S
  PROVE  Kept(Append(s, x), S) = IF x \in S THEN Append(Kept(s, S), x) ELSE Kept(s, S)
<1> DEFINE n == Len(s)
           t == Append(s, x)
           idx == {i \in DOMAIN s : s[i] \in S}
           longer == {i \in DOMAIN t : t[i] \in S}
           c == Cardinality(idx)
           at(k) == CHOOSE i \in idx : Rank(idx, i) = k
           later(k) == CHOOSE i \in longer : Rank(longer, i) = k
<1>1. /\ n \in Nat /\ DOMAIN s = 1..n /\ DOMAIN t = 1..(n + 1)
      /\ \A i \in 1..n : t[i] = s[i]
      /\ t[n + 1] = x
  BY AppendProperties, LenProperties
<1>2. idx \in SUBSET (1..n) /\ c \in Nat
  BY <1>1, RankType
<1>3. ASSUME NEW k \in 1..c
      PROVE  /\ at(k) \in idx /\ Rank(idx, at(k)) = k
             /\ \A i \in idx : Rank(idx, i) = k => i = at(k)
  <2> HIDE DEF idx
  <2>1. \E i \in idx : Rank(idx, i) = k
    BY <1>1, <1>2, RankOnto
  <2>2. at(k) \in idx /\ Rank(idx, at(k)) = k
    BY <2>1
  <2> HIDE DEF at
  <2>3. QED
    BY <1>1, <1>2, <2>2, RankInjective
<1>4. CASE x \in S
  <2>1. longer = idx \cup {n + 1}
    BY <1>1, <1>4
  <2>2. /\ \A i \in idx : Rank(longer, i) = Rank(idx, i)
        /\ Rank(longer, n + 1) = c + 1
        /\ Cardinality(longer) = c + 1
    <3> HIDE DEF idx, longer
    <3>1. QED
      BY <1>1, <1>2, <2>1, RankOfLonger
  <2>3. ASSUME NEW k \in 1..c PROVE t[later(k)] = s[at(k)]
    <3> HIDE DEF idx, longer, at, c, t
    <3>1. at(k) \in longer /\ Rank(longer, at(k)) = k
      BY <1>3, <2>1, <2>2
    <3>2. \A i \in longer : Rank(longer, i) = k => i = at(k)
      BY <1>2, <1>3, <2>1, <2>2
    <3>3. later(k) = at(k)
      BY <3>1, <3>2
    <3>4. at(k) \in 1..n
      BY <1>2, <1>3
    <3>5. QED
      BY <1>1, <3>3, <3>4
  <2>4. t[later(c + 1)] = x
    <3> HIDE DEF idx, longer
    <3>1. n + 1 \in longer /\ Rank(longer, n + 1) = c + 1
      BY <2>1, <2>2
    <3>2. \A i \in idx : Rank(idx, i) \in 1..c
      BY <1>1, <1>2, RankType
    <3>3. \A i \in longer : Rank(longer, i) = c + 1 => i = n + 1
      BY <1>2, <2>1, <2>2, <3>2
    <3>4. later(c + 1) = n + 1
      BY <3>1, <3>3
    <3>5. QED
      BY <1>1, <3>4
  <2>5. Kept(t, S) = [k \in 1..(c + 1) |-> t[later(k)]]
    BY <2>2 DEF Kept, KeptAt
  <2>6. Kept(s, S) = [k \in 1..c |-> s[at(k)]]
    BY DEF Kept, KeptAt
  <2>7. Kept(s, S) \in Seq(T)
    BY KeptProperties
  <2>8. Len(Kept(s, S)) = c
    BY <1>2, <2>6, <2>7, LenProperties
  <2>9. QED
    <3> HIDE DEF later, at, idx, longer, c, t
    <3>1. Append(Kept(s, S), x) \in Seq(T) /\ Len(Append(Kept(s, S), x)) = c + 1
      BY <2>7, <2>8, AppendProperties
    <3>2. DOMAIN Append(Kept(s, S), x) = 1..(c + 1)
      BY <3>1, LenProperties
    <3>3. Append(Kept(s, S), x) = [k \in 1..(c + 1) |-> Append(Kept(s, S), x)[k]]
      BY <3>1, <3>2, LenProperties
    <3>4. \A k \in 1..(c + 1) : Append(Kept(s, S), x)[k] = t[later(k)]
      BY <1>2, <2>3, <2>4, <2>6, <2>7, <2>8, AppendProperties
    <3>5. QED
      BY <1>4, <2>5, <3>3, <3>4 DEF t
<1>5. CASE x \notin S
  <2>1. longer = idx
    BY <1>1, <1>5
  <2>2. \A k \in 1..c : t[at(k)] = s[at(k)]
    <3> HIDE DEF idx, t
    <3>1. QED
      BY <1>1, <1>2, <1>3
  <2>3. Kept(t, S) = [k \in 1..c |-> t[at(k)]]
    <3>1. Kept(t, S) = KeptAt(t, longer)
      BY DEF Kept
    <3> HIDE DEF idx, longer, t
    <3>2. QED
      BY <2>1, <3>1 DEF KeptAt
  <2>4. Kept(s, S) = [k \in 1..c |-> s[at(k)]]
    BY DEF Kept, KeptAt
  <2> HIDE DEF at, c
  <2>5. Kept(t, S) = Kept(s, S)
    BY <2>2, <2>3, <2>4
  <2>6. QED
    BY <1>5, <2>5
<1>6. QED
  BY <1>4, <1>5

(* Filtering the empty list. *)
LEMMA KeptOfEmpty ==
  ASSUME NEW S
  PROVE  Kept(<<>>, S) = <<>>
<1>1. <<>> \in Seq({})
  BY EmptySeq
<1>2. Kept(<<>>, S) \in Seq({})
  BY <1>1, KeptProperties
<1>3. QED
  BY <1>2, EmptySeq, LenProperties

(* Filtering two lists one after the other. *)
LEMMA KeptOfConcat ==
  ASSUME NEW T, NEW s \in Seq(T), NEW r \in Seq(T), NEW S
  PROVE  Kept(s \o r, S) = Kept(s, S) \o Kept(r, S)
<1> DEFINE P == {t \in Seq(T) : Kept(s \o t, S) = Kept(s, S) \o Kept(t, S)}
<1>1. <<>> \in P
  <2>1. Kept(s, S) \in Seq(T)
    BY KeptProperties
  <2>2. s \o <<>> = s /\ Kept(s, S) \o <<>> = Kept(s, S)
    BY <2>1, ConcatEmptySeq
  <2>3. Kept(<<>>, S) = <<>>
    BY KeptOfEmpty
  <2>4. <<>> \in Seq(T)
    BY EmptySeq
  <2>5. QED
    BY <2>2, <2>3, <2>4, Zenon
<1>2. ASSUME NEW t \in Seq(T), NEW x \in T, t \in P PROVE Append(t, x) \in P
  <2>1. s \o t \in Seq(T) /\ Append(t, x) \in Seq(T) /\ <<x>> \in Seq(T)
    BY ConcatProperties, AppendProperties
  <2>2. s \o Append(t, x) = Append(s \o t, x)
    BY <2>1, AppendIsConcat, ConcatAssociative
  <2>3. Kept(s, S) \in Seq(T) /\ Kept(t, S) \in Seq(T)
    BY KeptProperties
  <2>4. Kept(s, S) \o Append(Kept(t, S), x) = Append(Kept(s, S) \o Kept(t, S), x)
    <3>1. Append(Kept(t, S), x) = Kept(t, S) \o <<x>>
      BY <2>3, AppendIsConcat
    <3>2. Kept(s, S) \o Kept(t, S) \in Seq(T)
      BY <2>3, ConcatProperties
    <3>3. Append(Kept(s, S) \o Kept(t, S), x) = (Kept(s, S) \o Kept(t, S)) \o <<x>>
      BY <3>2, AppendIsConcat
    <3>4. Kept(s, S) \o (Kept(t, S) \o <<x>>) = (Kept(s, S) \o Kept(t, S)) \o <<x>>
      BY <2>1, <2>3, ConcatAssociative
    <3>5. QED
      BY <3>1, <3>3, <3>4
  <2>5. Kept(s \o t, S) = Kept(s, S) \o Kept(t, S)
    BY <1>2
  <2>6. CASE x \in S
    <3>1. Kept(Append(s \o t, x), S) = Append(Kept(s \o t, S), x)
      <4> DEFINE st == s \o t
      <4>1. st \in Seq(T)
        BY <2>1
      <4> HIDE DEF st, P
      <4>2. Kept(Append(st, x), S) = Append(Kept(st, S), x)
        BY <2>6, <4>1, KeptOfAppend
      <4>3. QED
        BY <4>2 DEF st
    <3>2. Kept(Append(t, x), S) = Append(Kept(t, S), x)
      BY <2>6, KeptOfAppend
    <3>3. QED
      BY <2>1, <2>2, <2>4, <2>5, <3>1, <3>2
  <2>7. CASE x \notin S
    <3>1. Kept(Append(s \o t, x), S) = Kept(s \o t, S)
      BY <2>1, <2>7, KeptOfAppend
    <3>2. Kept(Append(t, x), S) = Kept(t, S)
      BY <2>7, KeptOfAppend
    <3>3. QED
      BY <2>1, <2>2, <2>5, <3>1, <3>2
  <2>8. QED
    BY <2>6, <2>7
<1>3. Seq(T) \subseteq P
  <2> HIDE DEF P
  <2>1. QED
    BY <1>1, <1>2, AppendingUp
<1>4. QED
  BY <1>3

(* Filtering twice keeps what passes both filters. *)
LEMMA KeptOfKept ==
  ASSUME NEW T, NEW s \in Seq(T), NEW S, NEW U
  PROVE  Kept(Kept(s, S), U) = Kept(s, S \cap U)
<1> DEFINE P == {t \in Seq(T) : Kept(Kept(t, S), U) = Kept(t, S \cap U)}
<1>1. <<>> \in P
  BY EmptySeq, KeptOfEmpty
<1>2. ASSUME NEW t \in Seq(T), NEW x \in T, t \in P PROVE Append(t, x) \in P
  <2>1. Append(t, x) \in Seq(T) /\ Kept(t, S) \in Seq(T)
    BY AppendProperties, KeptProperties
  <2>2. Kept(Kept(t, S), U) = Kept(t, S \cap U)
    BY <1>2
  <2>3. CASE x \in S
    <3>1. Kept(Append(t, x), S) = Append(Kept(t, S), x)
      BY <2>3, KeptOfAppend
    <3>2. Kept(Append(Kept(t, S), x), U)
          = IF x \in U THEN Append(Kept(Kept(t, S), U), x) ELSE Kept(Kept(t, S), U)
      BY <2>1, KeptOfAppend
    <3>3. Kept(Append(t, x), S \cap U)
          = IF x \in U THEN Append(Kept(t, S \cap U), x) ELSE Kept(t, S \cap U)
      BY <2>3, KeptOfAppend
    <3>4. Kept(Kept(Append(t, x), S), U) = Kept(Append(t, x), S \cap U)
      <4> HIDE DEF P
      <4>1. QED
        BY <2>2, <3>1, <3>2, <3>3
    <3>5. QED
      BY <2>1, <3>4
  <2>4. CASE x \notin S
    <3>1. Kept(Append(t, x), S) = Kept(t, S)
      BY <2>4, KeptOfAppend
    <3>2. Kept(Append(t, x), S \cap U) = Kept(t, S \cap U)
      BY <2>4, KeptOfAppend
    <3>3. Kept(Kept(Append(t, x), S), U) = Kept(Append(t, x), S \cap U)
      BY <2>2, <3>1, <3>2
    <3>4. QED
      BY <2>1, <3>3
  <2>5. QED
    BY <2>3, <2>4
<1>3. Seq(T) \subseteq P
  <2> HIDE DEF P
  <2>1. QED
    BY <1>1, <1>2, AppendingUp
<1>4. QED
  BY <1>3

-----------------------------------------------------------------------------
(* The plan. *)

(* What stays was on the wall, and everything the journal does not own stays. *)
LEMMA StayingProperties ==
  ASSUME NEW wanted \in Seq(Numbers), NEW onWall \in Seq(Numbers), NEW owned
  PROVE  /\ Staying(wanted, onWall, owned) \in Seq(Numbers)
         /\ Range(Staying(wanted, onWall, owned)) \subseteq Range(onWall)
         /\ Range(onWall) \ owned \subseteq Range(Staying(wanted, onWall, owned))
<1> DEFINE S == (Range(onWall) \ owned) \cup Range(wanted)
<1>1. /\ Kept(onWall, S) \in Seq(Numbers)
      /\ Range(Kept(onWall, S)) = Range(onWall) \cap S
  BY KeptProperties
<1>2. QED
  BY <1>1 DEF Staying

(* The fresh numbers are the wanted ones the wall lacks. *)
LEMMA FreshProperties ==
  ASSUME NEW wanted \in Seq(Numbers), NEW onWall \in Seq(Numbers)
  PROVE  /\ Fresh(wanted, onWall) \in Seq(Numbers)
         /\ Range(Fresh(wanted, onWall)) = Range(wanted) \ Range(onWall)
<1> DEFINE S == Range(wanted) \ Range(onWall)
<1>1. /\ Kept(wanted, S) \in Seq(Numbers)
      /\ Range(Kept(wanted, S)) = Range(wanted) \cap S
  BY KeptProperties
<1>2. QED
  BY <1>1 DEF Fresh

(* A plan adds no more than there is room for under the cap. *)
LEMMA FittingProperties ==
  ASSUME NEW wanted \in Seq(Numbers), NEW onWall \in Seq(Numbers), NEW owned
  PROVE  LET fits == Fitting(wanted, onWall, owned)
             taken == Len(Staying(wanted, onWall, owned))
         IN  /\ fits \in 0..Len(Fresh(wanted, onWall))
             /\ fits # 0 => taken + fits <= Cap
<1>1. Len(Staying(wanted, onWall, owned)) \in Nat
  BY StayingProperties, LenProperties
<1>2. Len(Fresh(wanted, onWall)) \in Nat
  BY FreshProperties, LenProperties
<1>3. QED
  BY <1>1, <1>2, CapAssumption DEF Fitting

(* What is added is wanted, not on the wall, and as much as fits. *)
LEMMA AdditionsProperties ==
  ASSUME NEW wanted \in Seq(Numbers), NEW onWall \in Seq(Numbers), NEW owned
  PROVE  /\ Additions(wanted, onWall, owned) \in Seq(Numbers)
         /\ Len(Additions(wanted, onWall, owned)) = Fitting(wanted, onWall, owned)
         /\ Range(Additions(wanted, onWall, owned)) \subseteq Range(wanted) \ Range(onWall)
<1> DEFINE fresh == Fresh(wanted, onWall)
           fits == Fitting(wanted, onWall, owned)
           T == Range(wanted) \ Range(onWall)
<1>1. fresh \in Seq(Numbers) /\ Range(fresh) = T
  BY FreshProperties
<1>2. fits \in 0..Len(fresh) /\ Len(fresh) \in Nat /\ DOMAIN fresh = 1..Len(fresh)
  BY <1>1, FittingProperties, LenProperties
<1>3. \A i \in 1..fits : fresh[i] \in T /\ fresh[i] \in Numbers
  <2>1. SUFFICES ASSUME NEW i \in 1..fits PROVE fresh[i] \in T
    BY <1>1, RangeOfSeq
  <2>2. i \in DOMAIN fresh
    BY <1>2
  <2>3. QED
    BY <1>1, <2>2 DEF Range
<1>4. fits \in Int /\ 1 \in Int /\ fits >= 0
  BY <1>2
<1>5. /\ SubSeq(fresh, 1, fits) \in Seq(T)
      /\ Len(SubSeq(fresh, 1, fits)) = IF 1 <= fits THEN fits - 1 + 1 ELSE 0
  <2>1. \A i \in 1..fits : fresh[i] \in T
    BY <1>3
  <2> HIDE DEF fresh, fits, T
  <2>2. QED
    BY <1>4, <2>1, SubSeqProperties
<1>6. Len(SubSeq(fresh, 1, fits)) = fits
  BY <1>4, <1>5
<1>7. SubSeq(fresh, 1, fits) \in Seq(Numbers)
  <2>1. \A i \in 1..fits : fresh[i] \in Numbers
    BY <1>3
  <2> HIDE DEF fresh, fits, T
  <2>2. QED
    BY <1>4, <2>1, SubSeqProperties
<1>8. Range(SubSeq(fresh, 1, fits)) \subseteq T
  BY <1>5, RangeOfSeq
<1>9. QED
  BY <1>6, <1>7, <1>8 DEF Additions

(* Whatever the calendar wants, a plan keeps every number on the wall that the
   journal does not own, and asks for nothing but what the wall holds or the
   calendar wants. *)
THEOREM DesiredKeepsUnowned ==
  ASSUME NEW wanted \in Seq(Numbers), NEW onWall \in Seq(Numbers), NEW owned
  PROVE  /\ Desired(wanted, onWall, owned) \in Seq(Numbers)
         /\ Range(onWall) \ owned \subseteq Range(Desired(wanted, onWall, owned))
         /\ Range(Desired(wanted, onWall, owned)) \subseteq Range(onWall) \cup Range(wanted)
<1> DEFINE staying == Staying(wanted, onWall, owned)
           additions == Additions(wanted, onWall, owned)
<1>1. staying \in Seq(Numbers) /\ additions \in Seq(Numbers)
  BY StayingProperties, AdditionsProperties
<1>2. staying \o additions \in Seq(Numbers)
  BY <1>1, ConcatProperties
<1>3. Range(staying \o additions) = Range(staying) \cup Range(additions)
  BY <1>1, RangeConcatenation
<1>4. QED
  BY <1>2, <1>3, StayingProperties, AdditionsProperties DEF Desired

(* A plan with an addition never exceeds the cap. *)
THEOREM AdditionsFitUnderCap ==
  ASSUME NEW wanted \in Seq(Numbers), NEW onWall \in Seq(Numbers), NEW owned,
         Additions(wanted, onWall, owned) # <<>>
  PROVE  Len(Desired(wanted, onWall, owned)) <= Cap
<1> DEFINE staying == Staying(wanted, onWall, owned)
           additions == Additions(wanted, onWall, owned)
<1>1. staying \in Seq(Numbers) /\ additions \in Seq(Numbers)
  BY StayingProperties, AdditionsProperties
<1>2. Len(staying \o additions) = Len(staying) + Len(additions)
  BY <1>1, ConcatProperties
<1>3. Len(additions) # 0
  BY <1>1, EmptySeq
<1>4. Len(additions) = Fitting(wanted, onWall, owned)
  BY AdditionsProperties
<1>5. Fitting(wanted, onWall, owned) # 0 => Len(staying) + Fitting(wanted, onWall, owned) <= Cap
  BY FittingProperties
<1>6. QED
  BY <1>2, <1>3, <1>4, <1>5 DEF Desired

(* Filtering a list without repeats leaves one without repeats. *)
LEMMA KeptAtInjective ==
  ASSUME NEW S, NEW s \in Seq(S), NEW idx \in SUBSET (DOMAIN s), IsInjective(s)
  PROVE  IsInjective(KeptAt(s, idx))
<1> DEFINE pos(k) == CHOOSE i \in idx : Rank(idx, i) = k
           kept == KeptAt(s, idx)
<1>1. idx \in SUBSET (1..Len(s)) /\ Len(s) \in Nat
  BY LenProperties
<1>2. ASSUME NEW k \in 1..Cardinality(idx)
      PROVE  pos(k) \in idx /\ Rank(idx, pos(k)) = k
  BY <1>1, RankOnto
<1>3. kept = [k \in 1..Cardinality(idx) |-> s[pos(k)]]
  BY DEF KeptAt
<1>4. ASSUME NEW a \in DOMAIN kept, NEW b \in DOMAIN kept, kept[a] = kept[b]
      PROVE  a = b
  <2>1. a \in 1..Cardinality(idx) /\ b \in 1..Cardinality(idx)
    BY <1>3
  <2>2. s[pos(a)] = s[pos(b)]
    BY <1>3, <1>4, <2>1
  <2>3. pos(a) = pos(b)
    BY <1>2, <2>1, <2>2 DEF IsInjective
  <2>4. QED
    BY <1>2, <2>1, <2>3
<1>5. QED
  BY <1>4 DEF IsInjective

(* A plan made from a wall and a calendar without repeats asks for no number
   twice. *)
THEOREM DesiredHasNoRepeats ==
  ASSUME NEW wanted \in Seq(Numbers), NEW onWall \in Seq(Numbers), NEW owned,
         IsInjective(wanted), IsInjective(onWall)
  PROVE  IsInjective(Desired(wanted, onWall, owned))
<1> DEFINE staying == Staying(wanted, onWall, owned)
           fresh == Fresh(wanted, onWall)
           fits == Fitting(wanted, onWall, owned)
           additions == Additions(wanted, onWall, owned)
<1>1. IsInjective(staying) /\ IsInjective(fresh)
  BY KeptAtInjective DEF Staying, Fresh, Kept
<1>2. staying \in Seq(Numbers) /\ Range(staying) \subseteq Range(onWall)
  BY StayingProperties
<1>3. /\ additions \in Seq(Numbers)
      /\ Len(additions) = fits
      /\ Range(additions) \cap Range(onWall) = {}
  BY AdditionsProperties
<1>4. fresh \in Seq(Numbers) /\ fits \in 0..Len(fresh)
  BY FreshProperties, FittingProperties
<1>5. ASSUME NEW k \in 1..fits PROVE additions[k] = fresh[k] /\ k \in DOMAIN fresh
  <2>1. Len(fresh) \in Nat /\ DOMAIN fresh = 1..Len(fresh)
    BY <1>4, LenProperties
  <2> HIDE DEF fresh, fits
  <2>2. SubSeq(fresh, 1, fits)[k] = fresh[k]
    BY <1>4, <2>1
  <2>3. QED
    BY <1>4, <2>1, <2>2 DEF Additions, fresh, fits
<1>6. DOMAIN additions = 1..fits /\ fits \in Nat
  BY <1>3, <1>4, LenProperties
<1>7. IsInjective(additions)
  BY <1>1, <1>5, <1>6 DEF IsInjective
<1>8. Len(staying) \in Nat /\ DOMAIN staying = 1..Len(staying)
  BY <1>2, LenProperties
<1>9. /\ DOMAIN (staying \o additions) = 1..(Len(staying) + fits)
      /\ \A i \in 1..(Len(staying) + fits) :
            (staying \o additions)[i] =
                IF i <= Len(staying) THEN staying[i] ELSE additions[i - Len(staying)]
  <2> HIDE DEF staying, additions, fits
  <2>1. staying \o additions \in Seq(Numbers) /\ Len(staying \o additions) = Len(staying) + fits
    BY <1>2, <1>3, ConcatProperties
  <2>2. QED
    BY <1>2, <1>3, <2>1, ConcatProperties, LenProperties
<1>10. \A i \in DOMAIN staying, j \in DOMAIN additions : staying[i] # additions[j]
  BY <1>2, <1>3 DEF Range
<1>11. IsInjective(staying \o additions)
  <2> DEFINE m == Len(staying)
             both == staying \o additions
  <2>1. SUFFICES ASSUME NEW a \in 1..(m + fits), NEW b \in 1..(m + fits), both[a] = both[b]
        PROVE  a = b
    BY <1>9 DEF IsInjective
  <2>2. ASSUME NEW i \in 1..(m + fits), i > m
        PROVE  i - m \in 1..fits /\ both[i] = additions[i - m]
    <3>1. i - m \in 1..fits /\ ~(i <= m)
      BY <1>6, <1>8, <2>2
    <3>2. QED
      BY <1>9, <3>1
  <2>3. ASSUME NEW i \in 1..(m + fits), i <= m
        PROVE  i \in 1..m /\ both[i] = staying[i]
    BY <1>8, <1>9, <2>3
  <2> HIDE DEF m, both
  <2>4. CASE a <= m /\ b <= m
    BY <1>1, <1>8, <2>1, <2>3, <2>4 DEF IsInjective, m
  <2>5. CASE a > m /\ b > m
    <3>1. a - m = b - m
      BY <1>6, <1>7, <2>1, <2>2, <2>5 DEF IsInjective
    <3>2. QED
      BY <1>6, <1>8, <3>1 DEF m
  <2>6. CASE a <= m /\ b > m
    BY <1>6, <1>8, <1>10, <2>1, <2>2, <2>3, <2>6 DEF m
  <2>7. CASE a > m /\ b <= m
    BY <1>6, <1>8, <1>10, <2>1, <2>2, <2>3, <2>7 DEF m
  <2>8. QED
    BY <1>6, <1>8, <2>4, <2>5, <2>6, <2>7 DEF m
<1>12. QED
  BY <1>11 DEF Desired

(* A list that is not empty holds something. *)
LEMMA NonEmptyHolds ==
  ASSUME NEW T, NEW s \in Seq(T), s # <<>>
  PROVE  Range(s) # {}
<1>1. Len(s) \in Nat /\ Len(s) # 0 /\ DOMAIN s = 1..Len(s)
  BY EmptySeq, LenProperties
<1>2. 1 \in DOMAIN s
  BY <1>1
<1>3. QED
  BY <1>2 DEF Range

(* A plan that changes something asks for another list than the wall's. *)
THEOREM ChangedMeansOther ==
  ASSUME NEW wanted \in Seq(Numbers), NEW onWall \in Seq(Numbers), NEW owned,
         Changed(Plan(wanted, onWall, owned))
  PROVE  Desired(wanted, onWall, owned) # onWall
<1> DEFINE staying == Staying(wanted, onWall, owned)
           additions == Additions(wanted, onWall, owned)
           removals == Kept(onWall, owned \ Range(wanted))
<1>1. staying \in Seq(Numbers) /\ additions \in Seq(Numbers)
  BY StayingProperties, AdditionsProperties
<1>2. Range(Desired(wanted, onWall, owned)) = Range(staying) \cup Range(additions)
  BY <1>1, RangeConcatenation DEF Desired
<1>3. CASE additions # <<>>
  <2>1. PICK n \in Range(additions) : n \notin Range(onWall)
    BY <1>1, <1>3, NonEmptyHolds, AdditionsProperties
  <2>2. QED
    BY <1>2, <2>1
<1>4. CASE removals # <<>>
  <2>1. removals \in Seq(Numbers) /\ Range(removals) = Range(onWall) \cap (owned \ Range(wanted))
    BY KeptProperties
  <2>2. PICK n \in Range(onWall) : n \in owned /\ n \notin Range(wanted)
    BY <1>4, <2>1, NonEmptyHolds
  <2>3. n \notin Range(staying)
    BY <2>2, KeptProperties DEF Staying
  <2>4. n \notin Range(additions)
    BY <2>2, AdditionsProperties
  <2>5. QED
    BY <1>2, <2>2, <2>3, <2>4
<1>5. QED
  BY <1>3, <1>4 DEF Changed, Plan

(* A filter leaves no more than there was, and all of it if it passes all. *)
LEMMA KeptLength ==
  ASSUME NEW T, NEW s \in Seq(T), NEW S
  PROVE  /\ Len(Kept(s, S)) \in Nat
         /\ Len(Kept(s, S)) <= Len(s)
         /\ Range(s) \subseteq S => Len(Kept(s, S)) = Len(s)
<1> DEFINE idx == {i \in DOMAIN s : s[i] \in S}
           n == Len(s)
<1>1. n \in Nat /\ DOMAIN s = 1..n /\ idx \in SUBSET (1..n)
  BY LenProperties
<1>2. Len(Kept(s, S)) = Cardinality(idx)
  BY KeptAtProperties DEF Kept
<1>3. IsFiniteSet(1..n) /\ Cardinality(1..n) = n
  <2> HIDE DEF n
  <2>1. 1 \in Int /\ n \in Int /\ n - 1 + 1 = n
    BY <1>1
  <2>2. QED
    BY <1>1, <2>1, FS_Interval
<1>4. Cardinality(idx) \in Nat /\ Cardinality(idx) <= n
  <2> HIDE DEF idx, n
  <2>1. Cardinality(idx) \in Nat
    BY <1>1, RankType
  <2>2. Cardinality(idx) <= Cardinality(1..n)
    BY <1>1, <1>3, FS_Subset
  <2>3. QED
    BY <1>3, <2>1, <2>2
<1>5. ASSUME Range(s) \subseteq S PROVE idx = 1..n
  BY <1>1, <1>5 DEF Range
<1>6. QED
  BY <1>2, <1>3, <1>4, <1>5

(* A settled write reaches a fixed point: a plan made from the list just
   written, with the journal just settled, adds and removes nothing. *)
THEOREM SettledPlanAsksNothing ==
  ASSUME NEW wanted \in Seq(Numbers), NEW onWall \in Seq(Numbers), NEW owned
  PROVE  LET written == Desired(wanted, onWall, owned)
         IN  ~Changed(Plan(wanted, written, OwnedAfter(owned, written, onWall)))
<1> DEFINE written == Desired(wanted, onWall, owned)
           owns == OwnedAfter(owned, written, onWall)
           staying == Staying(wanted, onWall, owned)
           fresh == Fresh(wanted, onWall)
           fits == Fitting(wanted, onWall, owned)
           additions == Additions(wanted, onWall, owned)
           removals == Kept(written, owns \ Range(wanted))
<1>1. /\ staying \in Seq(Numbers)
      /\ Range(staying) = Range(onWall) \cap ((Range(onWall) \ owned) \cup Range(wanted))
  BY KeptProperties DEF Staying
<1>2. /\ additions \in Seq(Numbers)
      /\ Len(additions) = fits
      /\ Range(additions) \subseteq Range(wanted) \ Range(onWall)
  BY AdditionsProperties
<1>3. /\ written \in Seq(Numbers)
      /\ Len(written) = Len(staying) + Len(additions)
      /\ Range(written) = Range(staying) \cup Range(additions)
  <2>1. written = staying \o additions
    BY DEF Desired
  <2> HIDE DEF written, staying, additions
  <2>2. written \in Seq(Numbers) /\ Len(written) = Len(staying) + Len(additions)
    BY <1>1, <1>2, <2>1, ConcatProperties
  <2>3. Range(written) = Range(staying) \cup Range(additions)
    BY <1>1, <1>2, <2>1, RangeConcatenation
  <2>4. QED
    BY <2>2, <2>3
<1>4. Range(written) \cap owns \subseteq Range(wanted)
  BY <1>1, <1>2, <1>3 DEF OwnedAfter
<1>5. removals = <<>>
  <2>1. removals \in Seq(Numbers) /\ Range(removals) = {}
    BY <1>3, <1>4, KeptProperties
  <2>2. QED
    BY <2>1, NonEmptyHolds
<1>6. Fitting(wanted, written, owns) = 0
  <2>1. fits \in 0..Len(fresh) /\ Len(fresh) \in Nat /\ Len(staying) \in Nat
    BY <1>1, FittingProperties, FreshProperties, LenProperties
  <2>2. CASE fits = Len(fresh)
    <3>1. additions = fresh
      <4>1. fresh \in Seq(Numbers)
        BY FreshProperties
      <4>2. SubSeq(fresh, 1, Len(fresh)) = fresh
        BY <4>1, SubSeqFull
      <4>3. QED
        BY <2>2, <4>2 DEF Additions
    <3>2. Range(wanted) \subseteq Range(written)
      BY <1>1, <1>3, <3>1, FreshProperties
    <3>3. Fresh(wanted, written) \in Seq(Numbers) /\ Range(Fresh(wanted, written)) = {}
      BY <1>3, <3>2, FreshProperties
    <3>4. Len(Fresh(wanted, written)) = 0
      BY <3>3, NonEmptyHolds, EmptySeq
    <3>5. QED
      BY <1>3, <3>4, FittingProperties
  <2>3. CASE fits < Len(fresh)
    <3>1. Len(staying) + fits >= Cap
      BY <2>1, <2>3, CapAssumption DEF Fitting
    <3>2. Len(Staying(wanted, written, owns)) = Len(written)
      BY <1>3, <1>4, KeptLength DEF Staying
    <3>3. Len(written) \in Nat /\ Len(written) >= Cap
      BY <1>2, <1>3, <2>1, <3>1
    <3>4. Len(Fresh(wanted, written)) \in Nat
      BY <1>3, FreshProperties, LenProperties
    <3>5. QED
      BY <3>2, <3>3, <3>4, CapAssumption DEF Fitting
  <2>4. QED
    BY <2>1, <2>2, <2>3
<1>7. Additions(wanted, written, owns) = <<>>
  BY <1>3, <1>6, AdditionsProperties, EmptySeq
<1>8. QED
  BY <1>5, <1>7 DEF Changed, Plan

(* A plan made from a list within the cap is within it. *)
LEMMA DesiredWithinCap ==
  ASSUME NEW wanted \in Seq(Numbers), NEW onWall \in Seq(Numbers), NEW owned, Len(onWall) <= Cap
  PROVE  Len(Desired(wanted, onWall, owned)) <= Cap
<1> DEFINE staying == Staying(wanted, onWall, owned)
           additions == Additions(wanted, onWall, owned)
<1>1. CASE additions # <<>>
  BY <1>1, AdditionsFitUnderCap
<1>2. CASE additions = <<>>
  <2>1. staying \in Seq(Numbers) /\ additions \in Seq(Numbers)
    BY StayingProperties, AdditionsProperties
  <2>2. Len(staying \o additions) = Len(staying) + 0
    BY <1>2, <2>1, ConcatProperties, EmptySeq
  <2>3. Len(staying) \in Nat /\ Len(staying) <= Len(onWall)
    BY KeptLength DEF Staying
  <2>4. Len(onWall) \in Nat
    BY LenProperties
  <2>5. QED
    BY <2>2, <2>3, <2>4, CapAssumption DEF Desired
<1>3. QED
  BY <1>1, <1>2

-----------------------------------------------------------------------------
(* The list a write sends. *)

(* The numbers of a wall are a list as long as the wall. *)
LEMMA FlightNumbersType ==
  ASSUME NEW flights \in Seq(Entry)
  PROVE  /\ FlightNumbers(flights) \in Seq(Numbers)
         /\ Len(FlightNumbers(flights)) = Len(flights)
         /\ DOMAIN FlightNumbers(flights) = DOMAIN flights
<1>1. Len(flights) \in Nat /\ DOMAIN flights = 1..Len(flights)
  BY LenProperties
<1>2. \A i \in 1..Len(flights) : flights[i].number \in Numbers
  <2>1. \A i \in 1..Len(flights) : flights[i] \in Entry
    BY ElementOfSeq
  <2>2. QED
    BY <2>1 DEF Entry
<1>3. FlightNumbers(flights) \in [1..Len(flights) -> Numbers]
  BY <1>1, <1>2 DEF FlightNumbers
<1>4. QED
  BY <1>1, <1>3, SeqDef, LenProperties

(* A number on the wall has a last entry with it. *)
LEMMA ExistingProperties ==
  ASSUME NEW flights \in Seq(Entry), NEW n \in Range(FlightNumbers(flights))
  PROVE  Existing(flights, n) \in Entry /\ Existing(flights, n).number = n
<1> DEFINE D == DOMAIN flights
           IsLast(i) == /\ flights[i].number = n
                        /\ \A j \in D : flights[j].number = n => j <= i
           idx == {i \in D : flights[i].number = n}
<1>1. Len(flights) \in Nat /\ D = 1..Len(flights) /\ idx \in SUBSET (1..Len(flights))
  BY LenProperties
<1>2. idx # {}
  BY DEF Range, FlightNumbers
<1>3. /\ IsFiniteSet(idx)
      /\ Cardinality(idx) \in Nat
      /\ \A i \in idx : Rank(idx, i) \in 1..Cardinality(idx)
  <2> HIDE DEF idx, D
  <2>1. QED
    BY <1>1, RankType
<1>4. Cardinality(idx) \in 1..Cardinality(idx)
  <2>1. Cardinality(idx) # 0
    BY <1>2, <1>3, FS_EmptySet
  <2> HIDE DEF idx, D
  <2>2. QED
    BY <1>3, <2>1
<1>5. PICK l \in idx : Rank(idx, l) = Cardinality(idx)
  <2> HIDE DEF idx, D
  <2>1. QED
    BY <1>1, <1>4, RankOnto
<1>6. ASSUME NEW j \in idx PROVE j <= l
  <2>1. j \in Int /\ l \in Int
    BY <1>1
  <2>2. ASSUME l < j PROVE FALSE
    <3> HIDE DEF idx, D
    <3>1. Rank(idx, l) < Rank(idx, j)
      BY <1>1, <2>2, RankMonotonic
    <3>2. QED
      BY <1>3, <1>5, <3>1
  <2>3. QED
    BY <2>1, <2>2
<1>7. \E k \in D : IsLast(k)
  BY <1>5, <1>6
<1>8. (CHOOSE k \in D : IsLast(k)) \in D /\ flights[CHOOSE k \in D : IsLast(k)].number = n
  BY <1>7
<1>9. QED
  BY <1>1, <1>8, ElementOfSeq DEF Existing

(* What a write sends carries exactly the desired numbers, in order. *)
LEMMA FlightsForProperties ==
  ASSUME NEW flights \in Seq(Entry), NEW desired \in Seq(Numbers)
  PROVE  /\ FlightsFor(desired, flights) \in Seq(Entry)
         /\ FlightNumbers(FlightsFor(desired, flights)) = desired
<1> DEFINE sending == FlightsFor(desired, flights)
<1>1. Len(desired) \in Nat /\ DOMAIN desired = 1..Len(desired)
  BY LenProperties
<1>2. ASSUME NEW k \in DOMAIN desired
      PROVE  sending[k] \in Entry /\ sending[k].number = desired[k]
  <2>1. CASE desired[k] \in Range(FlightNumbers(flights))
    BY <2>1, ExistingProperties DEF FlightsFor
  <2>2. CASE desired[k] \notin Range(FlightNumbers(flights))
    BY <1>1, <2>2, ElementOfSeq DEF FlightsFor, Entry
  <2>3. QED
    BY <2>1, <2>2
<1>3. sending \in [1..Len(desired) -> Entry]
  BY <1>1, <1>2 DEF FlightsFor
<1>4. sending \in Seq(Entry) /\ DOMAIN sending = DOMAIN desired
  BY <1>1, <1>3, SeqDef
<1>5. FlightNumbers(sending) = [k \in DOMAIN desired |-> desired[k]]
  BY <1>2, <1>4 DEF FlightNumbers
<1>6. QED
  BY <1>1, <1>4, <1>5, LenProperties

-----------------------------------------------------------------------------
(* Lists without repeats, and what the daemon made of one. *)

Distinct(flights) == IsInjective(FlightNumbers(flights))

(* The daemon's entries of a list. *)
MadeIn(flights) == {flights[i].number : i \in {j \in DOMAIN flights : flights[j].by = "daemon"}}

(* On a list without repeats the entry found for a number is the one with it. *)
LEMMA ExistingIsTheOne ==
  ASSUME NEW flights \in Seq(Entry), Distinct(flights), NEW i \in DOMAIN flights
  PROVE  Existing(flights, flights[i].number) = flights[i]
<1> DEFINE n == flights[i].number
           IsLast(k) == /\ flights[k].number = n
                        /\ \A j \in DOMAIN flights : flights[j].number = n => j <= k
<1>1. \A j \in DOMAIN flights : flights[j].number = n => j = i
  BY DEF Distinct, FlightNumbers, IsInjective
<1>2. i \in Nat
  BY LenProperties
<1>3. IsLast(i)
  BY <1>1, <1>2
<1>4. (CHOOSE k \in DOMAIN flights : IsLast(k)) = i
  BY <1>1, <1>3
<1>5. QED
  BY <1>4 DEF Existing

(* What a list without repeats desires of its own goes back as it was read. *)
LEMMA FlightsForKeeps ==
  ASSUME NEW flights \in Seq(Entry), Distinct(flights), NEW desired \in Seq(Numbers),
         NEW i \in DOMAIN flights, flights[i].number \in Range(desired)
  PROVE  flights[i] \in Range(FlightsFor(desired, flights))
<1>1. PICK k \in DOMAIN desired : desired[k] = flights[i].number
  BY DEF Range
<1>2. desired[k] \in Range(FlightNumbers(flights))
  BY <1>1 DEF FlightNumbers, Range
<1>3. FlightsFor(desired, flights)[k] = flights[i]
  BY <1>1, <1>2, ExistingIsTheOne DEF FlightsFor
<1>4. k \in DOMAIN FlightsFor(desired, flights)
  BY DEF FlightsFor
<1>5. QED
  BY <1>3, <1>4 DEF Range

(* Of a document the daemon made what it had made before and still desires, and
   what the list it starts from lacks: just what a settle owns. *)
LEMMA MadeInDocument ==
  ASSUME NEW flights \in Seq(Entry), Distinct(flights), NEW desired \in Seq(Numbers)
  PROVE  MadeIn(FlightsFor(desired, flights))
         = OwnedAfter(MadeIn(flights), desired, FlightNumbers(flights))
<1> DEFINE sending == FlightsFor(desired, flights)
           before == Range(FlightNumbers(flights))
<1>1. /\ sending \in Seq(Entry)
      /\ DOMAIN sending = DOMAIN desired
      /\ \A k \in DOMAIN desired : sending[k].number = desired[k]
  <2>1. sending \in Seq(Entry) /\ FlightNumbers(sending) = desired
    BY FlightsForProperties
  <2>2. QED
    BY <2>1 DEF FlightNumbers
<1>2. ASSUME NEW k \in DOMAIN desired
      PROVE  sending[k].by = "daemon" <=> desired[k] \in MadeIn(flights) \/ desired[k] \notin before
  <2>1. CASE desired[k] \in before
    <3>1. PICK i \in DOMAIN flights : flights[i].number = desired[k]
      BY <2>1 DEF FlightNumbers, Range
    <3>2. sending[k] = flights[i]
      BY <2>1, <3>1, ExistingIsTheOne DEF FlightsFor
    <3>3. \A j \in DOMAIN flights : flights[j].number = desired[k] => j = i
      BY <3>1 DEF Distinct, FlightNumbers, IsInjective
    <3>4. QED
      BY <2>1, <3>1, <3>2, <3>3 DEF MadeIn
  <2>2. CASE desired[k] \notin before
    BY <2>2 DEF FlightsFor
  <2>3. QED
    BY <2>1, <2>2
<1>3. MadeIn(sending) = {n \in Range(desired) : n \in MadeIn(flights) \/ n \notin before}
  <2> HIDE DEF sending, before
  <2>1. ASSUME NEW n \in MadeIn(sending)
        PROVE  n \in Range(desired) /\ (n \in MadeIn(flights) \/ n \notin before)
    <3>1. PICK k \in DOMAIN sending : sending[k].by = "daemon" /\ n = sending[k].number
      BY DEF MadeIn
    <3>2. QED
      BY <1>1, <1>2, <3>1 DEF Range
  <2>2. ASSUME NEW n \in Range(desired), n \in MadeIn(flights) \/ n \notin before
        PROVE  n \in MadeIn(sending)
    <3>1. PICK k \in DOMAIN desired : desired[k] = n
      BY DEF Range
    <3>2. sending[k].by = "daemon" /\ sending[k].number = n /\ k \in DOMAIN sending
      BY <1>1, <1>2, <2>2, <3>1
    <3>3. QED
      BY <3>2 DEF MadeIn
  <2>3. QED
    BY <2>1, <2>2
<1>4. QED
  BY <1>3 DEF OwnedAfter

(* The list a plan sends repeats nothing if neither the calendar nor the list
   it starts from does. *)
LEMMA PlannedDistinct ==
  ASSUME NEW wanted \in Seq(Numbers), NEW flights \in Seq(Entry), NEW owned,
         IsInjective(wanted), Distinct(flights)
  PROVE  LET desired == Desired(wanted, FlightNumbers(flights), owned)
         IN  /\ desired \in Seq(Numbers) /\ IsInjective(desired)
             /\ FlightsFor(desired, flights) \in Seq(Entry)
             /\ FlightNumbers(FlightsFor(desired, flights)) = desired
             /\ Distinct(FlightsFor(desired, flights))
<1> DEFINE desired == Desired(wanted, FlightNumbers(flights), owned)
<1>1. FlightNumbers(flights) \in Seq(Numbers)
  BY FlightNumbersType
<1>2. desired \in Seq(Numbers) /\ IsInjective(desired)
  BY <1>1, DesiredHasNoRepeats, DesiredKeepsUnowned DEF Distinct
<1>3. /\ FlightsFor(desired, flights) \in Seq(Entry)
      /\ FlightNumbers(FlightsFor(desired, flights)) = desired
  BY <1>2, FlightsForProperties
<1>4. QED
  BY <1>2, <1>3 DEF Distinct
=============================================================================
