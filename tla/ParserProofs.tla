----------------------------- MODULE ParserProofs -----------------------------
(***************************************************************************)
(* The wanted numbers, for every calendar and clock: none twice, none of   *)
(* today's left out, and the same whichever way a departure moves within   *)
(* the operator's day.                                                     *)
(***************************************************************************)
EXTENDS ParserCheck, FiniteSetTheorems, SequenceTheorems, WellFoundedInduction, TLAPS

(* A set that holds 0 and with each number the next holds them all. *)
LEMMA CountingUp ==
  ASSUME NEW E, 0 \in E, \A n \in Nat : n \in E => n + 1 \in E
  PROVE  Nat \subseteq E
<1> DEFINE rest == Nat \ E
<1>1. SUFFICES ASSUME rest # {} PROVE FALSE
  OBVIOUS
<1>2. PICK least \in rest : \A m \in rest : ~ (<<m, least>> \in OpToRel(<, Nat))
  BY <1>1, WFMin, NatLessThanWellFounded
<1>3. least - 1 \in Nat /\ least - 1 \notin rest
  <2>1. least # 0 /\ least \in Nat
    OBVIOUS
  <2>2. least - 1 \in Nat /\ least - 1 < least
    BY <2>1
  <2>3. <<least - 1, least>> \in OpToRel(<, Nat)
    BY <2>1, <2>2 DEF OpToRel
  <2> QED
    BY <1>2, <2>2, <2>3
<1>4. least = (least - 1) + 1
  OBVIOUS
<1> QED
  BY <1>3, <1>4

-----------------------------------------------------------------------------
(* Finite sets in a strict total order R, a set of pairs. *)

StrictTotal(S, R) ==
    /\ \A x \in S : <<x, x>> \notin R
    /\ \A x, y, z \in S : <<x, y>> \in R /\ <<y, z>> \in R => <<x, z>> \in R
    /\ \A x, y \in S : x = y \/ <<x, y>> \in R \/ <<y, x>> \in R

Below(S, R, x) == {y \in S : <<y, x>> \in R}

(* As many elements come before one as its place in the order, and there is
   one at each place. *)
LEMMA Places ==
  ASSUME NEW S, IsFiniteSet(S), NEW R, StrictTotal(S, R)
  PROVE  /\ Cardinality(S) \in Nat
         /\ \A x \in S : Cardinality(Below(S, R, x)) \in 0..(Cardinality(S) - 1)
         /\ \A x, y \in S : Cardinality(Below(S, R, x)) = Cardinality(Below(S, R, y)) => x = y
         /\ \A k \in 0..(Cardinality(S) - 1) : \E x \in S : Cardinality(Below(S, R, x)) = k
         /\ \A x, y \in S : Cardinality(Below(S, R, x)) < Cardinality(Below(S, R, y)) => <<x, y>> \in R
<1> DEFINE n == Cardinality(S)
           f == [x \in S |-> Cardinality(Below(S, R, x))]
<1>1. n \in Nat
  BY FS_CardinalityType
<1>2. ASSUME NEW x \in S
      PROVE  IsFiniteSet(Below(S, R, x)) /\ Cardinality(Below(S, R, x)) \in Nat
  <2>1. Below(S, R, x) \in SUBSET S
    BY DEF Below
  <2>2. IsFiniteSet(Below(S, R, x))
    BY <2>1, FS_Subset
  <2> QED
    BY <2>2, FS_CardinalityType
<1>3. ASSUME NEW x \in S PROVE Cardinality(Below(S, R, x)) \in 0..(n - 1)
  <2>1. Below(S, R, x) \in SUBSET S /\ x \notin Below(S, R, x)
    BY DEF Below, StrictTotal
  <2>2. Cardinality(Below(S, R, x)) <= n /\ Cardinality(Below(S, R, x)) # n
    BY <2>1, FS_Subset
  <2> QED
    BY <1>1, <1>2, <2>2
<1>4. ASSUME NEW x \in S, NEW y \in S, <<x, y>> \in R
      PROVE  Cardinality(Below(S, R, x)) < Cardinality(Below(S, R, y))
  <2>1. Below(S, R, x) \in SUBSET Below(S, R, y)
    BY <1>4, Zenon DEF Below, StrictTotal
  <2>2. x \in Below(S, R, y) /\ x \notin Below(S, R, x)
    BY <1>4 DEF Below, StrictTotal
  <2>3. IsFiniteSet(Below(S, R, y))
    BY <1>2
  <2>4. /\ Cardinality(Below(S, R, x)) <= Cardinality(Below(S, R, y))
        /\ Cardinality(Below(S, R, x)) # Cardinality(Below(S, R, y))
    BY <2>1, <2>2, <2>3, FS_Subset
  <2> QED
    BY <1>2, <2>4
<1>5. ASSUME NEW x \in S, NEW y \in S, Cardinality(Below(S, R, x)) = Cardinality(Below(S, R, y))
      PROVE  x = y
  <2>1. ~(<<x, y>> \in R) /\ ~(<<y, x>> \in R)
    BY <1>2, <1>4, <1>5
  <2> QED
    BY <2>1 DEF StrictTotal
<1>6. f \in Injection(S, 0..(n - 1))
  <2>1. f \in [S -> 0..(n - 1)]
    BY <1>3
  <2>2. \A x, y \in S : f[x] = f[y] => x = y
    BY <1>5
  <2> HIDE DEF f
  <2> QED
    BY <2>1, <2>2 DEF Injection, IsInjective
<1>7. IsFiniteSet(0..(n - 1)) /\ Cardinality(0..(n - 1)) = n
  <2>1. IsFiniteSet(0..(n - 1)) /\ Cardinality(0..(n - 1)) = IF 0 > n - 1 THEN 0 ELSE (n - 1) - 0 + 1
    BY <1>1, 0 \in Int, n - 1 \in Int, FS_Interval
  <2> QED
    BY <1>1, <2>1
<1>8. f \in Surjection(S, 0..(n - 1))
  <2> HIDE DEF f
  <2> QED
    BY <1>6, <1>7, FS_Injection
<1>9. ASSUME NEW k \in 0..(n - 1) PROVE \E x \in S : Cardinality(Below(S, R, x)) = k
  <2>1. \E x \in S : f[x] = k
    BY <1>8 DEF Surjection
  <2> QED
    BY <2>1
<1>10. ASSUME NEW x \in S, NEW y \in S,
              Cardinality(Below(S, R, x)) < Cardinality(Below(S, R, y))
       PROVE  <<x, y>> \in R
  <2>1. x # y /\ ~(<<y, x>> \in R)
    BY <1>2, <1>4, <1>10
  <2> QED
    BY <2>1 DEF StrictTotal
<1> QED
  BY <1>1, <1>3, <1>5, <1>9, <1>10

(* An increasing listing of the set is the only one. *)
LEMMA Increasing ==
  ASSUME NEW S, IsFiniteSet(S), NEW R, StrictTotal(S, R),
         NEW n \in Nat, NEW t \in [1..n -> S], Range(t) = S,
         \A i, j \in 1..n : i < j => <<t[i], t[j]>> \in R
  PROVE  /\ n = Cardinality(S)
         /\ \A k \in 1..n : t[k] = CHOOSE x \in S : Cardinality(Below(S, R, x)) = k - 1
<1>1. ASSUME NEW i \in 1..n, NEW j \in 1..n, t[i] = t[j] PROVE i = j
  <2>1. t[i] \in S /\ <<t[i], t[i]>> \notin R
    BY DEF StrictTotal
  <2>2. ~(i < j) /\ ~(j < i)
    BY <1>1, <2>1
  <2> QED
    BY <2>2
<1>2. \A x \in S : \E i \in 1..n : t[i] = x
  BY DEF Range
<1>3. n = Cardinality(S)
  <2>1. t \in Bijection(1..n, S)
    BY <1>1, <1>2 DEF Bijection, Injection, Surjection, IsInjective
  <2>2. ExistsBijection(1..n, S)
    BY <2>1 DEF ExistsBijection
  <2>3. IsFiniteSet(1..n) /\ Cardinality(1..n) = n
    <3>1. IsFiniteSet(1..n) /\ Cardinality(1..n) = IF 1 > n THEN 0 ELSE n - 1 + 1
      BY 1 \in Int, n \in Int, FS_Interval
    <3> QED
      BY <3>1
  <2> QED
    BY <2>2, <2>3, FS_Bijection
<1>4. ASSUME NEW k \in 1..n
      PROVE  t[k] = CHOOSE x \in S : Cardinality(Below(S, R, x)) = k - 1
  <2> DEFINE u == [i \in 1..(k - 1) |-> t[i]]
  <2>1. ASSUME NEW i \in 1..n PROVE t[i] \in Below(S, R, t[k]) <=> i < k
    <3>1. CASE i < k
      BY <3>1 DEF Below
    <3>2. CASE i = k
      BY <3>2 DEF Below, StrictTotal
    <3>3. CASE k < i
      <4>1. <<t[k], t[i]>> \in R
        BY <3>3
      <4>2. ~(<<t[i], t[k]>> \in R)
        BY <4>1 DEF StrictTotal
      <4> QED
        BY <3>3, <4>2 DEF Below
    <3> QED
      BY <3>1, <3>2, <3>3
  <2>2. u \in [1..(k - 1) -> Below(S, R, t[k])]
    BY <2>1
  <2>3. ASSUME NEW x \in Below(S, R, t[k]) PROVE \E i \in 1..(k - 1) : u[i] = x
    <3>1. PICK i \in 1..n : t[i] = x
      BY <1>2 DEF Below
    <3>2. i \in 1..(k - 1)
      BY <2>1, <3>1
    <3> QED
      BY <3>1, <3>2
  <2>4. \A i, j \in 1..(k - 1) : u[i] = u[j] => i = j
    BY <1>1
  <2> HIDE DEF u
  <2>5. u \in Bijection(1..(k - 1), Below(S, R, t[k]))
    BY <2>2, <2>3, <2>4 DEF Bijection, Injection, Surjection, IsInjective
  <2>6. ExistsBijection(1..(k - 1), Below(S, R, t[k]))
    BY <2>5 DEF ExistsBijection
  <2>7. IsFiniteSet(1..(k - 1)) /\ Cardinality(1..(k - 1)) = k - 1
    <3>1. IsFiniteSet(1..(k - 1)) /\ Cardinality(1..(k - 1)) = IF 1 > k - 1 THEN 0 ELSE (k - 1) - 1 + 1
      BY 1 \in Int, k - 1 \in Int, FS_Interval
    <3> QED
      BY <3>1
  <2>8. Cardinality(Below(S, R, t[k])) = k - 1
    BY <2>6, <2>7, FS_Bijection
  <2>9. \A x \in S : Cardinality(Below(S, R, x)) = k - 1 => x = t[k]
    <3>1. t[k] \in S
      OBVIOUS
    <3> QED
      BY <2>8, <3>1, Places
  <2>10. t[k] \in S
    OBVIOUS
  <2> QED
    BY <2>8, <2>9, <2>10
<1> QED
  BY <1>3, <1>4

(* There is a first element. *)
LEMMA First ==
  ASSUME NEW S, IsFiniteSet(S), S # {}, NEW R, StrictTotal(S, R)
  PROVE  \E x \in S : \A y \in S : y = x \/ <<x, y>> \in R
<1>1. Cardinality(S) \in Nat /\ Cardinality(S) # 0
  BY FS_CardinalityType, FS_EmptySet
<1>2. PICK x \in S : Cardinality(Below(S, R, x)) = 0
  <2>1. 0 \in 0..(Cardinality(S) - 1)
    BY <1>1
  <2> QED
    BY <2>1, Places
<1>3. Below(S, R, x) = {}
  <2>1. Below(S, R, x) \in SUBSET S
    BY DEF Below
  <2>2. IsFiniteSet(Below(S, R, x))
    BY <2>1, FS_Subset
  <2> QED
    BY <1>2, <2>2, FS_EmptySet
<1>4. \A y \in S : <<y, x>> \notin R
  BY <1>3, Zenon DEF Below
<1> QED
  BY <1>4, Zenon DEF StrictTotal

-----------------------------------------------------------------------------
(* The claims of a calendar. *)

(* Events as the reader hands them on: each id once. *)
Calendar(es) ==
    /\ es \in Seq(Event)
    /\ \A i, j \in DOMAIN es : es[i].id = es[j].id => i = j

(* The claims about the flight with key k. *)
Group(es, k) == {e \in Claims(es) : Key(e) = k}

LEMMA DayIsInt ==
  ASSUME NEW t \in Int, NEW offset \in Int
  PROVE  Day(t, offset) \in Int
BY DayLengthAssumption DEF Day

LEMMA ClaimsAreFlights ==
  ASSUME NEW es, Calendar(es)
  PROVE  /\ IsFiniteSet(Claims(es))
         /\ Claims(es) \subseteq Event
         /\ \A e, f \in Claims(es) : e.id = f.id => e = f
         /\ \A e \in Claims(es) : Key(e) = <<e.title.designator, e.title.origin, Day(e.start, 0)>>
         /\ \A e \in Claims(es) : Key(e) \in Int \X Int \X Int
<1>1. /\ es \in Seq(Event) /\ Len(es) \in Nat /\ DOMAIN es = 1..Len(es)
      /\ es \in [1..Len(es) -> Range(es)]
      /\ \A t \in Range(es) : \E i \in 1..Len(es) : es[i] = t
  BY DEF Calendar, Range
<1>2. IsFiniteSet(Range(es))
  <2>1. IsFiniteSet(1..Len(es))
    BY <1>1, 1 \in Int, Len(es) \in Int, FS_Interval
  <2>2. es \in Surjection(1..Len(es), Range(es))
    BY <1>1 DEF Surjection
  <2> QED
    BY <2>1, <2>2, FS_Surjection
<1>3. Claims(es) \in SUBSET Range(es)
  BY DEF Claims
<1>4. IsFiniteSet(Claims(es))
  BY <1>2, <1>3, FS_Subset
<1>5. Claims(es) \subseteq Event
  BY <1>1, <1>3 DEF Range
<1>6. \A e, f \in Claims(es) : e.id = f.id => e = f
  BY <1>1, <1>3 DEF Calendar
<1>7. ASSUME NEW e \in Claims(es)
      PROVE  /\ Key(e) = <<e.title.designator, e.title.origin, Day(e.start, 0)>>
             /\ Key(e) \in Int \X Int \X Int
  <2>1. e.title.designator \in Int /\ e.title.origin \in Int /\ e.start \in Int
    BY <1>5 DEF Event, Titles
  <2>2. Day(e.start, 0) \in Int
    BY <2>1, 0 \in Int, DayIsInt
  <2> QED
    BY <2>1, <2>2 DEF Key
<1> QED
  BY <1>4, <1>5, <1>6, <1>7

(* One claim of a flight is the freshest. *)
LEMMA FreshestIs ==
  ASSUME NEW es, Calendar(es), NEW group, group \subseteq Claims(es), group # {}
  PROVE  /\ Freshest(group) \in group
         /\ \A f \in group : \/ f.updated < Freshest(group).updated
                             \/ /\ f.updated = Freshest(group).updated
                                /\ f.id <= Freshest(group).id
<1> DEFINE R == {p \in group \X group : \/ p[2].updated < p[1].updated
                                        \/ p[2].updated = p[1].updated /\ p[2].id < p[1].id}
<1>1. ASSUME NEW e \in group PROVE e.updated \in Int /\ e.id \in Int
  BY ClaimsAreFlights DEF Event
<1>2. \A e, f \in group : e.id = f.id => e = f
  BY ClaimsAreFlights
<1>3. ASSUME NEW e \in group, NEW f \in group
      PROVE  <<e, f>> \in R <=> \/ f.updated < e.updated
                                \/ f.updated = e.updated /\ f.id < e.id
  OBVIOUS
<1> HIDE DEF R
<1>4. StrictTotal(group, R)
  <2>1. ASSUME NEW x \in group PROVE <<x, x>> \notin R
    BY <1>1, <1>3
  <2>2. ASSUME NEW x \in group, NEW y \in group, NEW z \in group,
               <<x, y>> \in R, <<y, z>> \in R
        PROVE  <<x, z>> \in R
    BY <1>1, <1>3, <2>2
  <2>3. ASSUME NEW x \in group, NEW y \in group
        PROVE  x = y \/ <<x, y>> \in R \/ <<y, x>> \in R
    BY <1>1, <1>2, <1>3
  <2> QED
    BY <2>1, <2>2, <2>3 DEF StrictTotal
<1>5. IsFiniteSet(group)
  BY ClaimsAreFlights, FS_Subset
<1>6. PICK e \in group : \A f \in group : f = e \/ <<e, f>> \in R
  BY <1>4, <1>5, First
<1>7. ASSUME NEW f \in group
      PROVE  f.updated < e.updated \/ (f.updated = e.updated /\ f.id <= e.id)
  <2>1. f.updated \in Int /\ f.id \in Int
    BY <1>1
  <2>2. CASE f = e
    BY <2>1, <2>2
  <2>3. CASE <<e, f>> \in R
    <3>1. \/ f.updated < e.updated
          \/ f.updated = e.updated /\ f.id < e.id
      BY <1>3, <2>3
    <3> QED
      BY <1>1, <2>1, <3>1
  <2> QED
    BY <1>6, <2>2, <2>3
<1> QED
  BY <1>7, Zenon DEF Freshest

-----------------------------------------------------------------------------
(* The flights the claims amount to. *)

(* A flight is what the freshest claim of its key says. *)
LEMMA FlightIs ==
  ASSUME NEW es, Calendar(es), NEW f \in DesiredFlights(es)
  PROVE  LET w == Freshest(Group(es, f.key))
         IN  /\ w \in Claims(es) /\ Key(w) = f.key
             /\ f = Merge(f.key, Group(es, f.key))
             /\ f.designator = w.title.designator
             /\ f.departure = w.start
             /\ f.key \in Int \X Int \X Int
             /\ f.key[1] = f.designator
             /\ f.departure \in Int
<1>1. PICK c \in Claims(es) : f = Merge(Key(c), Group(es, Key(c)))
  BY DEF DesiredFlights, Group
<1> DEFINE w == Freshest(Group(es, Key(c)))
<1>2. f.key = Key(c) /\ f.designator = w.title.designator /\ f.departure = w.start
  BY <1>1 DEF Merge
<1>3. w \in Group(es, Key(c))
  <2>1. c \in Group(es, Key(c)) /\ Group(es, Key(c)) \subseteq Claims(es)
    BY DEF Group
  <2> QED
    BY <2>1, FreshestIs
<1>4. w \in Claims(es) /\ Key(w) = Key(c)
  BY <1>3, Zenon DEF Group
<1>5. /\ Key(w) = <<w.title.designator, w.title.origin, Day(w.start, 0)>>
      /\ Key(w) \in Int \X Int \X Int
      /\ w \in Event
  BY <1>4, ClaimsAreFlights
<1>6. w.start \in Int /\ Key(w)[1] = w.title.designator
  <2> HIDE DEF w
  <2> QED
    BY <1>5 DEF Event
<1> QED
  <2> HIDE DEF w
  <2>1. w = Freshest(Group(es, f.key))
    BY <1>2 DEF w
  <2> QED
    BY <1>1, <1>2, <1>4, <1>5, <1>6, <2>1

(* Every claim's key is a flight's. *)
LEMMA ClaimHasFlight ==
  ASSUME NEW es, NEW e \in Claims(es)
  PROVE  /\ Merge(Key(e), Group(es, Key(e))) \in DesiredFlights(es)
         /\ Merge(Key(e), Group(es, Key(e))).key = Key(e)
BY DEF DesiredFlights, Group, Merge

Precedes(S) == {p \in S \X S : Before(p[1], p[2])}

(* The flights are finitely many, and no two tie in the order they are sorted
   in: the key, which no two share, breaks every tie. *)
LEMMA FlightsInOrder ==
  ASSUME NEW es, Calendar(es), NEW S, S \subseteq DesiredFlights(es)
  PROVE  /\ IsFiniteSet(S)
         /\ StrictTotal(S, Precedes(S))
         /\ \A f, g \in S : <<f, g>> \in Precedes(S) <=> Before(f, g)
<1> DEFINE flights == DesiredFlights(es)
<1>1. IsFiniteSet(flights)
  <2> DEFINE h == [e \in Claims(es) |-> Merge(Key(e), Group(es, Key(e)))]
  <2>1. h \in [Claims(es) -> flights]
    BY ClaimHasFlight
  <2>2. ASSUME NEW f \in flights PROVE \E e \in Claims(es) : h[e] = f
    BY DEF DesiredFlights, Group
  <2> HIDE DEF h, flights
  <2>3. h \in Surjection(Claims(es), flights)
    BY <2>1, <2>2 DEF Surjection
  <2>4. IsFiniteSet(Claims(es))
    BY ClaimsAreFlights
  <2> QED
    BY <2>3, <2>4, FS_Surjection
<1>2. IsFiniteSet(S)
  BY <1>1, FS_Subset
<1>3. ASSUME NEW f \in S
      PROVE  /\ f.departure \in Int
             /\ f.key[1] \in Int /\ f.key[2] \in Int /\ f.key[3] \in Int
             /\ f.key = <<f.key[1], f.key[2], f.key[3]>>
             /\ f = Merge(f.key, Group(es, f.key))
  <2>1. /\ f.departure \in Int /\ f.key \in Int \X Int \X Int
        /\ f = Merge(f.key, Group(es, f.key))
    BY FlightIs
  <2> QED
    BY <2>1
<1>4. ASSUME NEW f \in S, NEW g \in S, f.key[1] = g.key[1], f.key[2] = g.key[2], f.key[3] = g.key[3]
      PROVE  f = g
  <2>1. f.key = g.key
    BY <1>3, <1>4, Zenon
  <2> QED
    BY <1>3, <2>1, Zenon
<1>5. ASSUME NEW f \in S, NEW g \in S
      PROVE  Before(f, g) <=>
               \/ f.departure < g.departure
               \/ /\ f.departure = g.departure
                  /\ \/ f.key[1] < g.key[1]
                     \/ f.key[1] = g.key[1] /\ f.key[2] < g.key[2]
                     \/ f.key[1] = g.key[1] /\ f.key[2] = g.key[2] /\ f.key[3] < g.key[3]
  <2> DEFINE a == f.key
             b == g.key
             Nth(i) == a[i] < b[i] /\ \A j \in 1..(i - 1) : a[j] = b[j]
  <2>1. KeyBefore(a, b) <=> Nth(1) \/ Nth(2) \/ Nth(3)
    <3>1. KeyBefore(a, b) <=> \E i \in 1..3 : Nth(i)
      BY DEF KeyBefore
    <3>2. 1..3 = {1, 2, 3}
      OBVIOUS
    <3> HIDE DEF Nth
    <3> QED
      BY <3>1, <3>2
  <2>2. Nth(1) <=> a[1] < b[1]
    OBVIOUS
  <2>3. Nth(2) <=> a[1] = b[1] /\ a[2] < b[2]
    <3>1. 1..(2 - 1) = {1}
      OBVIOUS
    <3> QED
      BY <3>1
  <2>4. Nth(3) <=> a[1] = b[1] /\ a[2] = b[2] /\ a[3] < b[3]
    <3>1. 1..(3 - 1) = {1, 2}
      OBVIOUS
    <3> QED
      BY <3>1
  <2> HIDE DEF Nth
  <2> QED
    BY <2>1, <2>2, <2>3, <2>4 DEF Before
<1>6. \A f, g \in S : <<f, g>> \in Precedes(S) <=> Before(f, g)
  BY DEF Precedes
<1>7. ASSUME NEW x \in S PROVE <<x, x>> \notin Precedes(S)
  <2>1. ~Before(x, x)
    BY <1>3, <1>5
  <2> QED
    BY <1>6, <2>1
<1>8. ASSUME NEW x \in S, NEW y \in S, NEW z \in S,
             <<x, y>> \in Precedes(S), <<y, z>> \in Precedes(S)
      PROVE  <<x, z>> \in Precedes(S)
  <2>1. Before(x, y) /\ Before(y, z)
    BY <1>6, <1>8
  <2>2. Before(x, z)
    BY <1>3, <1>5, <2>1
  <2> QED
    BY <1>6, <2>2
<1>9. ASSUME NEW x \in S, NEW y \in S
      PROVE  x = y \/ <<x, y>> \in Precedes(S) \/ <<y, x>> \in Precedes(S)
  <2>1. x = y \/ Before(x, y) \/ Before(y, x)
    <3>1. CASE x.departure # y.departure
      BY <1>3, <1>5, <3>1
    <3>2. CASE x.departure = y.departure
      <4>1. \/ x.key[1] = y.key[1] /\ x.key[2] = y.key[2] /\ x.key[3] = y.key[3]
            \/ Before(x, y) \/ Before(y, x)
        BY <1>3, <1>5, <3>2
      <4> QED
        BY <1>4, <4>1
    <3> QED
      BY <3>1, <3>2
  <2> QED
    BY <1>6, <2>1
<1> QED
  BY <1>2, <1>6, <1>7, <1>8, <1>9 DEF StrictTotal

(* Sorting lists every element at one position and nothing else. *)
LEMMA SortedLists ==
  ASSUME NEW S, IsFiniteSet(S), StrictTotal(S, Precedes(S))
  PROVE  /\ Cardinality(S) \in Nat
         /\ DOMAIN Sorted(S, Before) = 1..Cardinality(S)
         /\ \A k \in 1..Cardinality(S) :
               /\ Sorted(S, Before)[k] \in S
               /\ Cardinality(Below(S, Precedes(S), Sorted(S, Before)[k])) = k - 1
         /\ \A x \in S : \E k \in 1..Cardinality(S) : Sorted(S, Before)[k] = x
<1> DEFINE n == Cardinality(S)
           place(x) == Cardinality(Below(S, Precedes(S), x))
           At(k) == CHOOSE x \in S : place(x) = k - 1
<1>1. n \in Nat
  BY FS_CardinalityType
<1>2. ASSUME NEW x \in S PROVE Below(S, Precedes(S), x) = {y \in S : Before(y, x)}
  BY DEF Below, Precedes
<1>3. Sorted(S, Before) = [k \in 1..n |-> At(k)]
  <2> DEFINE Chosen(k) == CHOOSE x \in S : Cardinality({y \in S : Before(y, x)}) = k - 1
  <2>1. ASSUME NEW k \in 1..n PROVE Chosen(k) = At(k)
    BY <1>2, Zenon
  <2>2. Sorted(S, Before) = [k \in 1..n |-> Chosen(k)]
    BY DEF Sorted
  <2> HIDE DEF Chosen, At
  <2> QED
    BY <2>1, <2>2, Zenon
<1>4. ASSUME NEW k \in 1..n PROVE At(k) \in S /\ place(At(k)) = k - 1
  <2>1. k - 1 \in 0..(n - 1)
    BY <1>1
  <2>2. \E x \in S : place(x) = k - 1
    BY <2>1, Places
  <2> QED
    BY <2>2
<1>5. ASSUME NEW x \in S PROVE \E k \in 1..n : At(k) = x
  <2>1. place(x) \in 0..(n - 1)
    BY Places
  <2>2. place(x) + 1 \in 1..n /\ (place(x) + 1) - 1 = place(x)
    BY <1>1, <2>1
  <2>3. At(place(x) + 1) \in S /\ place(At(place(x) + 1)) = place(x)
    BY <1>4, <2>2
  <2>4. At(place(x) + 1) = x
    BY <2>3, Places
  <2> QED
    BY <2>2, <2>4
<1> HIDE DEF At
<1> QED
  BY <1>1, <1>3, <1>4, <1>5

-----------------------------------------------------------------------------
(* The wanted list. *)

LEMMA TodaysAreFlights ==
  ASSUME NEW es, NEW now0, NEW offset
  PROVE  TodaysFlights(ParsedFlights(es), now0, offset) \subseteq DesiredFlights(es)
BY DEF TodaysFlights, ParsedFlights

(* Of each number the flight that departs soonest. *)
Soonest(today) ==
    {f \in today : \A g \in today : g.designator = f.designator => ~Before(g, f)}

(* There is one for every number, and no two. *)
LEMMA SoonestAre ==
  ASSUME NEW es, Calendar(es), NEW today, today \subseteq DesiredFlights(es)
  PROVE  /\ IsFiniteSet(Soonest(today))
         /\ StrictTotal(Soonest(today), Precedes(Soonest(today)))
         /\ \A f, g \in Soonest(today) : <<f, g>> \in Precedes(Soonest(today)) <=> Before(f, g)
         /\ \A f, g \in Soonest(today) : f.designator = g.designator => f = g
         /\ \A f \in today : \E x \in Soonest(today) : x.designator = f.designator
<1> DEFINE soonest == Soonest(today)
<1>1. soonest \subseteq today /\ soonest \subseteq DesiredFlights(es)
  BY DEF Soonest
<1>2. \A f, g \in soonest : f.designator = g.designator => ~Before(g, f)
  BY DEF Soonest
<1> HIDE DEF soonest
<1>3. /\ IsFiniteSet(soonest) /\ StrictTotal(soonest, Precedes(soonest))
      /\ \A f, g \in soonest : <<f, g>> \in Precedes(soonest) <=> Before(f, g)
  BY <1>1, FlightsInOrder
<1>4. \A f, g \in soonest : f.designator = g.designator => f = g
  BY <1>2, <1>3, Zenon DEF StrictTotal
<1>5. ASSUME NEW f \in today PROVE \E x \in soonest : x.designator = f.designator
  <2> DEFINE same == {g \in today : g.designator = f.designator}
  <2>1. same \subseteq DesiredFlights(es) /\ same # {}
    OBVIOUS
  <2>2. \A g \in today : g.designator = f.designator <=> g \in same
    OBVIOUS
  <2> HIDE DEF same
  <2>3. /\ IsFiniteSet(same) /\ StrictTotal(same, Precedes(same))
        /\ \A g, h \in same : <<g, h>> \in Precedes(same) <=> Before(g, h)
    BY <2>1, FlightsInOrder
  <2>4. PICK x \in same : \A y \in same : y = x \/ <<x, y>> \in Precedes(same)
    BY <2>1, <2>3, First
  <2>5. \A y \in same : <<y, x>> \notin Precedes(same)
    BY <2>3, <2>4, Zenon DEF StrictTotal
  <2>6. \A y \in same : ~Before(y, x)
    BY <2>3, <2>5
  <2>7. x \in today /\ x.designator = f.designator
    BY <2>2, <2>4 DEF same
  <2>8. x \in soonest
    BY <2>2, <2>6, <2>7 DEF soonest, Soonest
  <2> QED
    BY <2>7, <2>8
<1> QED
  BY <1>3, <1>4, <1>5 DEF soonest

(* The wanted list: every number that departs today, each once, in the order
   of their soonest flights. *)
LEMMA WantedLists ==
  ASSUME NEW es, Calendar(es), NEW now0, NEW offset
  PROVE  LET soonest == Soonest(TodaysFlights(ParsedFlights(es), now0, offset))
             n == Cardinality(soonest)
             list == Sorted(soonest, Before)
         IN  /\ n \in Nat
             /\ Wanted(es, now0, offset) = [k \in 1..n |-> list[k].designator]
             /\ \A k \in 1..n : list[k] \in soonest
             /\ \A i, j \in 1..n : i < j => Before(list[i], list[j])
             /\ \A i, j \in 1..n : list[i] = list[j] => i = j
             /\ \A x \in soonest : \E k \in 1..n : list[k] = x
<1> DEFINE today == TodaysFlights(ParsedFlights(es), now0, offset)
           soonest == Soonest(today)
           n == Cardinality(soonest)
           list == Sorted(soonest, Before)
           place(x) == Cardinality(Below(soonest, Precedes(soonest), x))
<1>1. today \subseteq DesiredFlights(es)
  BY TodaysAreFlights
<1>2. Wanted(es, now0, offset) = [k \in 1..n |-> list[k].designator]
  BY DEF Wanted, Soonest
<1> HIDE DEF today
<1>3. /\ IsFiniteSet(soonest) /\ StrictTotal(soonest, Precedes(soonest))
      /\ \A f, g \in soonest : <<f, g>> \in Precedes(soonest) <=> Before(f, g)
  BY <1>1, SoonestAre
<1> HIDE DEF soonest
<1>4. /\ n \in Nat
      /\ \A k \in 1..n : list[k] \in soonest /\ place(list[k]) = k - 1
      /\ \A x \in soonest : \E k \in 1..n : list[k] = x
  BY <1>3, SortedLists
<1>5. \A x, y \in soonest : place(x) < place(y) => <<x, y>> \in Precedes(soonest)
  BY <1>3, Places
<1> HIDE DEF n, list, place
<1>6. ASSUME NEW i \in 1..n, NEW j \in 1..n, i < j PROVE Before(list[i], list[j])
  <2>1. place(list[i]) < place(list[j])
    <3>1. place(list[i]) = i - 1 /\ place(list[j]) = j - 1
      BY <1>4
    <3> QED
      BY <1>4, <1>6, <3>1
  <2> QED
    BY <1>3, <1>4, <1>5, <2>1
<1>7. ASSUME NEW i \in 1..n, NEW j \in 1..n, list[i] = list[j] PROVE i = j
  <2>1. i - 1 = j - 1
    <3>1. place(list[i]) = i - 1 /\ place(list[j]) = j - 1
      BY <1>4
    <3> QED
      BY <1>7, <3>1
  <2> QED
    BY <1>4, <2>1
<1> QED
  BY <1>2, <1>4, <1>6, <1>7 DEF n, list, soonest, today

(* The wanted list names every number that departs today, and each once. *)
LEMMA WantedNames ==
  ASSUME NEW es, Calendar(es), NEW now0, NEW offset
  PROVE  /\ IsInjective(Wanted(es, now0, offset))
         /\ Range(Wanted(es, now0, offset)) =
               {f.designator : f \in TodaysFlights(ParsedFlights(es), now0, offset)}
<1> DEFINE today == TodaysFlights(ParsedFlights(es), now0, offset)
           soonest == Soonest(today)
           n == Cardinality(soonest)
           list == Sorted(soonest, Before)
           W == Wanted(es, now0, offset)
<1>1. /\ W = [k \in 1..n |-> list[k].designator]
      /\ \A i, j \in 1..n : list[i] = list[j] => i = j
  <2>1. W = [k \in 1..n |-> list[k].designator]
    BY WantedLists
  <2>2. \A i, j \in 1..n : list[i] = list[j] => i = j
    BY WantedLists
  <2> QED
    BY <2>1, <2>2
<1>2. today \subseteq DesiredFlights(es)
  BY TodaysAreFlights
<1> HIDE DEF today
<1>3. /\ IsFiniteSet(soonest) /\ StrictTotal(soonest, Precedes(soonest))
      /\ \A f, g \in soonest : <<f, g>> \in Precedes(soonest) <=> Before(f, g)
      /\ \A f, g \in soonest : f.designator = g.designator => f = g
      /\ \A f \in today : \E x \in soonest : x.designator = f.designator
  BY <1>2, SoonestAre
<1>4. soonest \subseteq today
  BY DEF Soonest
<1> HIDE DEF soonest
<1>5. /\ \A k \in 1..n : list[k] \in soonest
      /\ \A x \in soonest : \E k \in 1..n : list[k] = x
  BY <1>3, SortedLists
<1> HIDE DEF n, list, W
<1>6. DOMAIN W = 1..n /\ \A k \in 1..n : W[k] = list[k].designator
  BY <1>1
<1>7. IsInjective(W)
  <2>1. ASSUME NEW i \in 1..n, NEW j \in 1..n, W[i] = W[j] PROVE i = j
    <3>1. list[i] = list[j]
      BY <1>3, <1>5, <1>6, <2>1
    <3> QED
      BY <1>1, <3>1
  <2> QED
    BY <1>6, <2>1 DEF IsInjective
<1>8. Range(W) = {f.designator : f \in today}
  <2>1. Range(W) = {W[k] : k \in 1..n}
    BY <1>6, Zenon DEF Range
  <2>2. ASSUME NEW k \in 1..n PROVE W[k] \in {f.designator : f \in today}
    BY <1>4, <1>5, <1>6
  <2>3. ASSUME NEW f \in today PROVE f.designator \in {W[k] : k \in 1..n}
    <3>1. PICK x \in soonest : x.designator = f.designator
      BY <1>3
    <3>2. PICK k \in 1..n : list[k] = x
      BY <1>5
    <3>3. W[k] = f.designator
      BY <1>6, <3>1, <3>2
    <3> QED
      BY <3>3
  <2> QED
    BY <2>1, <2>2, <2>3
<1> QED
  BY <1>7, <1>8 DEF W, today

(* A number is wanted when the freshest claim of one of its flights has it
   depart on the operator's day. *)
LEMMA WantedWhen ==
  ASSUME NEW es, Calendar(es), NEW now0, NEW offset, NEW d
  PROVE  d \in Range(Wanted(es, now0, offset)) <=>
            /\ Authoritative(es)
            /\ \E e \in Claims(es) :
                  /\ e.title.designator = d
                  /\ Day(Freshest(Group(es, Key(e))).start, offset) = Day(now0, offset)
<1> DEFINE today == TodaysFlights(ParsedFlights(es), now0, offset)
           w(e) == Freshest(Group(es, Key(e)))
           flight(e) == Merge(Key(e), Group(es, Key(e)))
<1>1. d \in Range(Wanted(es, now0, offset)) <=> \E f \in today : f.designator = d
  <2>1. Range(Wanted(es, now0, offset)) = {f.designator : f \in today}
    BY WantedNames
  <2> HIDE DEF today
  <2> QED
    BY <2>1
<1>2. \A f : f \in today <=> /\ Authoritative(es)
                             /\ f \in DesiredFlights(es)
                             /\ Day(f.departure, offset) = Day(now0, offset)
  BY DEF TodaysFlights, ParsedFlights
<1>3. ASSUME NEW e \in Claims(es)
      PROVE  /\ flight(e) \in DesiredFlights(es)
             /\ flight(e).designator = e.title.designator
             /\ flight(e).departure = w(e).start
  <2>1. flight(e) \in DesiredFlights(es) /\ flight(e).key = Key(e)
    BY ClaimHasFlight
  <2>2. flight(e).designator = flight(e).key[1] /\ flight(e).departure = w(e).start
    BY <2>1, FlightIs
  <2>3. Key(e)[1] = e.title.designator
    BY ClaimsAreFlights
  <2> QED
    BY <2>1, <2>2, <2>3
<1>4. ASSUME NEW f \in DesiredFlights(es) PROVE \E e \in Claims(es) : f = flight(e)
  BY DEF DesiredFlights, Group
<1> HIDE DEF today, flight, w
<1>5. (\E f \in today : f.designator = d) <=>
         /\ Authoritative(es)
         /\ \E e \in Claims(es) : /\ e.title.designator = d
                                  /\ Day(w(e).start, offset) = Day(now0, offset)
  <2>1. ASSUME NEW f \in today, f.designator = d
        PROVE  /\ Authoritative(es)
               /\ \E e \in Claims(es) : /\ e.title.designator = d
                                        /\ Day(w(e).start, offset) = Day(now0, offset)
    <3>1. f \in DesiredFlights(es) /\ Authoritative(es) /\ Day(f.departure, offset) = Day(now0, offset)
      BY <1>2
    <3>2. PICK e \in Claims(es) : f = flight(e)
      BY <1>4, <3>1
    <3>3. e.title.designator = d /\ f.departure = w(e).start
      BY <1>3, <2>1, <3>2
    <3> QED
      BY <3>1, <3>3
  <2>2. ASSUME Authoritative(es), NEW e \in Claims(es), e.title.designator = d,
               Day(w(e).start, offset) = Day(now0, offset)
        PROVE  \E f \in today : f.designator = d
    <3>1. /\ flight(e) \in DesiredFlights(es) /\ flight(e).designator = d
          /\ Day(flight(e).departure, offset) = Day(now0, offset)
      BY <1>3, <2>2
    <3>2. flight(e) \in today
      BY <1>2, <2>2, <3>1
    <3> QED
      BY <3>1, <3>2
  <2> QED
    BY <2>1, <2>2
<1> QED
  BY <1>1, <1>5 DEF w

-----------------------------------------------------------------------------
(* The calendars reached. *)

CalendarInv ==
    /\ Calendar(events)
    /\ now \in Int
    /\ edits \in Nat

(* An event with an id of its own may stand anywhere in the listing. *)
LEMMA InsertKeepsCalendar ==
  ASSUME NEW es, Calendar(es), NEW e \in Event, e.id \notin {f.id : f \in Range(es)},
         NEW at \in 1..(Len(es) + 1)
  PROVE  Calendar(InsertAt(es, at, e))
<1> DEFINE n == Len(es)
           s == InsertAt(es, at, e)
           front == SubSeq(es, 1, at - 1)
           back == SubSeq(es, at, n)
<1>1. es \in Seq(Event) /\ n \in Nat /\ at \in Nat /\ at >= 1 /\ at <= n + 1
  BY DEF Calendar
<1>2. /\ front \in Seq(Event) /\ Len(front) = at - 1
      /\ \A i \in 1..(at - 1) : front[i] = es[i]
  BY <1>1
<1>3. /\ back \in Seq(Event) /\ Len(back) = n + 1 - at
      /\ \A i \in 1..(n + 1 - at) : back[i] = es[at + i - 1]
  BY <1>1
<1>4. s = (front \o <<e>>) \o back
  BY DEF InsertAt
<1> HIDE DEF front, back
<1>5. /\ front \o <<e>> \in Seq(Event) /\ Len(front \o <<e>>) = at
      /\ \A i \in 1..(at - 1) : (front \o <<e>>)[i] = es[i]
      /\ (front \o <<e>>)[at] = e
  BY <1>1, <1>2
<1>6. /\ s \in Seq(Event) /\ Len(s) = n + 1
      /\ \A i \in 1..at : s[i] = (front \o <<e>>)[i]
      /\ \A i \in (at + 1)..(n + 1) : s[i] = back[i - at]
  <2> DEFINE head == front \o <<e>>
  <2>1. head \in Seq(Event) /\ Len(head) = at /\ s = head \o back
    BY <1>4, <1>5
  <2> HIDE DEF head, s
  <2>2. s \in Seq(Event) /\ Len(s) = n + 1
    <3>1. /\ head \in Seq(Event) /\ back \in Seq(Event)
          /\ s = head \o back
      BY <1>3, <2>1
    <3>2. head \o back \in Seq(Event) /\ Len(head \o back) = Len(head) + Len(back)
      BY <3>1, ConcatProperties
    <3> QED
      BY <1>1, <1>3, <2>1, <3>1, <3>2
  <2>3. \A i \in 1..at : s[i] = head[i]
    BY <1>1, <1>3, <2>1
  <2>4. \A i \in (at + 1)..(n + 1) : s[i] = back[i - at]
    BY <1>1, <1>3, <2>1
  <2> QED
    BY <2>2, <2>3, <2>4 DEF head
<1>7. \A i \in (at + 1)..(n + 1) : s[i] = es[i - 1]
  BY <1>1, <1>3, <1>6
<1>8. s[at] = e /\ \A i \in 1..(at - 1) : s[i] = es[i]
  BY <1>1, <1>5, <1>6
<1> HIDE DEF s
<1>9. \A i \in 1..n : es[i].id # e.id
  BY <1>1 DEF Range
<1>10. \A i, j \in 1..n : es[i].id = es[j].id => i = j
  BY <1>1 DEF Calendar
<1>11. ASSUME NEW i \in 1..(n + 1), NEW j \in 1..(n + 1), s[i].id = s[j].id PROVE i = j
  <2> DEFINE old(k) == IF k < at THEN k ELSE k - 1
  <2>1. ASSUME NEW k \in 1..(n + 1)
        PROVE  k = at \/ (old(k) \in 1..n /\ s[k] = es[old(k)])
    BY <1>1, <1>7, <1>8
  <2>2. CASE i = at \/ j = at
    BY <1>8, <1>9, <1>11, <2>1, <2>2
  <2>3. CASE i # at /\ j # at
    <3>1. old(i) = old(j)
      <4>1. /\ old(i) \in 1..n /\ s[i] = es[old(i)]
            /\ old(j) \in 1..n /\ s[j] = es[old(j)]
        BY <2>1, <2>3
      <4> HIDE DEF old
      <4>2. es[old(i)].id = es[old(j)].id
        BY <1>11, <4>1
      <4> QED
        BY <1>10, <4>1, <4>2
    <3> QED
      BY <1>1, <2>3, <3>1
  <2> QED
    BY <2>2, <2>3
<1>12. DOMAIN s = 1..(n + 1)
  BY <1>1, <1>6
<1> QED
  BY <1>6, <1>11, <1>12 DEF Calendar, s

(* An event may be changed in place, if it keeps its id. *)
LEMMA EditKeepsCalendar ==
  ASSUME NEW es, Calendar(es), NEW i \in DOMAIN es, NEW e \in Event, e.id = es[i].id
  PROVE  /\ Calendar([es EXCEPT ![i] = e])
         /\ DOMAIN [es EXCEPT ![i] = e] = DOMAIN es
         /\ [es EXCEPT ![i] = e][i] = e
         /\ \A j \in DOMAIN es : j # i => [es EXCEPT ![i] = e][j] = es[j]
<1> DEFINE fs == [es EXCEPT ![i] = e]
<1>1. es \in Seq(Event) /\ \A j, k \in DOMAIN es : es[j].id = es[k].id => j = k
  BY DEF Calendar
<1>2. fs \in Seq(Event)
  BY <1>1
<1>3. /\ DOMAIN fs = DOMAIN es /\ fs[i] = e
      /\ \A j \in DOMAIN es : j # i => fs[j] = es[j]
  BY <1>1
<1> HIDE DEF fs
<1>4. \A j \in DOMAIN es : fs[j].id = es[j].id
  BY <1>3
<1>5. Calendar(fs)
  BY <1>1, <1>2, <1>3, <1>4 DEF Calendar
<1> QED
  BY <1>3, <1>5 DEF fs

(* What Delay and Cancel write. *)
LEMMA DelayWrites ==
  ASSUME CalendarInv, Delay
  PROVE  \E i \in DOMAIN events, e \in Event :
            /\ e.id = events[i].id /\ e.title = events[i].title
            /\ events' = [events EXCEPT ![i] = e]
<1>1. PICK i \in DOMAIN events, start \in Times :
        events' = [events EXCEPT ![i].start = start, ![i].updated = edits + 1]
  BY DEF Delay
<1> DEFINE e == [events[i] EXCEPT !.start = start, !.updated = edits + 1]
<1>2. events[i] \in Event /\ start \in Int /\ edits + 1 \in Int
  BY TimesAssumption DEF CalendarInv, Calendar
<1>3. e \in Event /\ e.id = events[i].id /\ e.title = events[i].title
  BY <1>2 DEF Event
<1>4. events' = [events EXCEPT ![i] = e]
  BY <1>1, Zenon
<1> QED
  BY <1>3, <1>4

LEMMA CancelWrites ==
  ASSUME CalendarInv, Cancel
  PROVE  \E i \in DOMAIN events, e \in Event :
            e.id = events[i].id /\ events' = [events EXCEPT ![i] = e]
<1>1. PICK i \in DOMAIN events :
        events' = [events EXCEPT ![i].cancelled = TRUE, ![i].updated = edits + 1]
  BY DEF Cancel
<1> DEFINE e == [events[i] EXCEPT !.cancelled = TRUE, !.updated = edits + 1]
<1>2. events[i] \in Event /\ edits + 1 \in Int
  BY DEF CalendarInv, Calendar
<1>3. e \in Event /\ e.id = events[i].id
  BY <1>2 DEF Event
<1>4. events' = [events EXCEPT ![i] = e]
  BY <1>1, Zenon
<1> QED
  BY <1>3, <1>4

LEMMA AddEventKeepsCalendar ==
  ASSUME CalendarInv, AddEvent
  PROVE  Calendar(events)'
<1>1. PICK id \in DOMAIN Kinds \ Ids, kind \in Kinds[Len(events) + 1],
           stamp \in {0, edits + 1}, at \in 1..(Len(events) + 1) :
        events' = InsertAt(events, at,
                    [id |-> id, cancelled |-> FALSE, title |-> kind.title,
                     start |-> kind.start, updated |-> stamp])
  BY DEF AddEvent
<1> DEFINE e == [id |-> id, cancelled |-> FALSE, title |-> kind.title,
                 start |-> kind.start, updated |-> stamp]
<1>2. Len(events) + 1 \in DOMAIN Kinds
  <2>1. Len(events) < Len(Kinds) /\ Len(events) \in Nat
    BY DEF AddEvent, CalendarInv, Calendar
  <2> QED
    BY <2>1, KindsAssumption
<1>3. Kinds[Len(events) + 1] \subseteq [title : Titles, start : Int]
  BY <1>2, KindsAssumption
<1>4. e \in Event
  <2>1. kind.title \in Titles /\ kind.start \in Int
    BY <1>3
  <2>2. id \in Int /\ stamp \in Int
    BY KindsAssumption DEF CalendarInv
  <2> QED
    BY <2>1, <2>2 DEF Event
<1>5. e.id \notin {f.id : f \in Range(events)}
  BY DEF Ids
<1>6. Calendar(events)
  BY DEF CalendarInv
<1> HIDE DEF e
<1>7. Calendar(InsertAt(events, at, e))
  BY <1>4, <1>5, <1>6, InsertKeepsCalendar
<1>8. events' = InsertAt(events, at, e)
  BY <1>1 DEF e
<1> QED
  BY <1>7, <1>8 DEF Calendar

(* Every calendar reached has typed events, each with an id of its own. *)
LEMMA CalendarAlways == Spec => []CalendarInv
<1>1. Init => CalendarInv
  BY DEF Init, CalendarInv, Calendar
<1>2. ASSUME CalendarInv, [Next]_vars PROVE CalendarInv'
  <2>1. CASE UNCHANGED vars
    BY <1>2, <2>1 DEF CalendarInv, Calendar, vars
  <2>2. CASE AddEvent
    <3>1. Calendar(events)'
      BY <1>2, <2>2, AddEventKeepsCalendar
    <3> QED
      BY <1>2, <2>2, <3>1 DEF CalendarInv, AddEvent
  <2>3. CASE Delay \/ Cancel
    <3>1. PICK i \in DOMAIN events, e \in Event :
            e.id = events[i].id /\ events' = [events EXCEPT ![i] = e]
      BY <1>2, <2>3, DelayWrites, CancelWrites
    <3>2. Calendar([events EXCEPT ![i] = e])
      BY <1>2, <3>1, EditKeepsCalendar DEF CalendarInv
    <3>3. Calendar(events)'
      BY <3>1, <3>2 DEF Calendar
    <3>4. edits' = edits + 1 /\ now' = now
      BY <2>3 DEF Delay, Cancel
    <3> QED
      BY <1>2, <3>3, <3>4 DEF CalendarInv
  <2>4. CASE Tick
    BY <1>2, <2>4, TimesAssumption DEF CalendarInv, Calendar, Tick
  <2> QED
    BY <1>2, <2>1, <2>2, <2>3, <2>4 DEF Next
<1> QED
  BY <1>1, <1>2, PTL DEF Spec

-----------------------------------------------------------------------------
(* No number is wanted twice, however many events, days, airports and friends'
   calendars it appears in: the planner's DuplicateWanted error is never met
   (parse_cycle, wanted). *)
THEOREM WantedHasNoRepeatsAlways == Spec => []WantedHasNoRepeats
<1>1. CalendarInv => WantedHasNoRepeats
  <2> SUFFICES ASSUME CalendarInv PROVE WantedHasNoRepeats
    OBVIOUS
  <2>1. Calendar(events)
    BY DEF CalendarInv
  <2>2. IsInjective(Wanted(events, now, Offset))
    BY <2>1, WantedNames
  <2> QED
    BY <2>2 DEF WantedHasNoRepeats, TheWanted
<1> QED
  BY <1>1, CalendarAlways, PTL

(* A number an event puts on today's board is wanted, unless a fresher event of
   the same flight moved it to another of the operator's days: neither the
   merge, nor the sort, nor the dropping of repeats loses it (merge, wanted). *)
THEOREM TodaysDeparturesWantedAlways == Spec => []TodaysDeparturesWanted
<1>1. CalendarInv => TodaysDeparturesWanted
  <2> SUFFICES ASSUME CalendarInv,
                      NEW e \in Claims(events),
                      Authoritative(events), Day(e.start, Offset) = Day(now, Offset),
                      \A f \in Claims(events) :
                         /\ Key(f) = Key(e)
                         /\ f.updated > e.updated \/ (f.updated = e.updated /\ f.id > e.id)
                         => Day(f.start, Offset) = Day(now, Offset)
               PROVE  e.title.designator \in Range(TheWanted)
    BY Zenon DEF TodaysDeparturesWanted
  <2> DEFINE group == Group(events, Key(e))
             w == Freshest(group)
  <2>1. Calendar(events)
    BY DEF CalendarInv
  <2>2. group \subseteq Claims(events) /\ e \in group
    BY DEF Group
  <2> HIDE DEF group
  <2>3. /\ w \in group
        /\ e.updated < w.updated \/ (e.updated = w.updated /\ e.id <= w.id)
    BY <2>1, <2>2, FreshestIs
  <2>4. w \in Claims(events) /\ Key(w) = Key(e)
    BY <2>3 DEF group, Group
  <2> HIDE DEF w
  <2>5. Day(w.start, Offset) = Day(now, Offset)
    <3>1. w \in Event /\ e \in Event /\ (e.id = w.id => e = w)
      BY <2>1, <2>4, ClaimsAreFlights
    <3>2. \/ w = e
          \/ w.updated > e.updated \/ (w.updated = e.updated /\ w.id > e.id)
      BY <2>3, <3>1 DEF Event
    <3> QED
      BY <2>4, <3>2
  <2>6. e.title.designator \in Range(Wanted(events, now, Offset))
    BY <2>1, <2>5, WantedWhen DEF w, group
  <2> QED
    BY <2>6 DEF TheWanted
<1> QED
  BY <1>1, CalendarAlways, PTL

-----------------------------------------------------------------------------
(* A departure that moves. *)

(* One of the claims has number d, and its flight departs on the day. *)
DepartsToday(claims, d, now0, offset) ==
    \E c \in claims :
       /\ c.title.designator = d
       /\ Day(Freshest({b \in claims : Key(b) = Key(c)}).start, offset) = Day(now0, offset)

(* Of a calendar with a claim x today, alone in its number, the wanted numbers
   are x's and those of the rest, whatever x's key is. *)
LEMMA WantedBeside ==
  ASSUME NEW es, Calendar(es), Authoritative(es), NEW now0, NEW offset,
         NEW rest, NEW x, Claims(es) = rest \cup {x},
         \A c \in rest : c.title.designator # x.title.designator,
         Day(x.start, offset) = Day(now0, offset),
         NEW d
  PROVE  d \in Range(Wanted(es, now0, offset)) <=>
            d = x.title.designator \/ DepartsToday(rest, d, now0, offset)
<1>1. \A b \in Claims(es) : Key(b)[1] = b.title.designator
  BY ClaimsAreFlights
<1>2. Group(es, Key(x)) = {x}
  <2>1. \A b \in rest : Key(b) # Key(x)
    BY <1>1
  <2> QED
    BY <2>1 DEF Group
<1>3. Freshest(Group(es, Key(x))) = x
  <2>1. Group(es, Key(x)) \subseteq Claims(es) /\ Group(es, Key(x)) # {}
    BY <1>2
  <2>2. Freshest(Group(es, Key(x))) \in Group(es, Key(x))
    BY <2>1, FreshestIs
  <2> QED
    BY <1>2, <2>2
<1>4. ASSUME NEW c \in rest
      PROVE  Group(es, Key(c)) = {b \in rest : Key(b) = Key(c)}
  <2>1. Key(x) # Key(c)
    BY <1>1
  <2> QED
    BY <2>1 DEF Group
<1> DEFINE Today(c) == Day(Freshest(Group(es, Key(c))).start, offset) = Day(now0, offset)
           TodayBeside(c) ==
               Day(Freshest({b \in rest : Key(b) = Key(c)}).start, offset) = Day(now0, offset)
<1>5. d \in Range(Wanted(es, now0, offset)) <=>
         \E c \in Claims(es) : c.title.designator = d /\ Today(c)
  BY WantedWhen
<1>6. Today(x)
  BY <1>3
<1>7. ASSUME NEW c \in rest PROVE Today(c) <=> TodayBeside(c)
  BY <1>4
<1> HIDE DEF Today, TodayBeside
<1>8. (\E c \in Claims(es) : c.title.designator = d /\ Today(c)) <=>
         \/ d = x.title.designator
         \/ \E c \in rest : c.title.designator = d /\ TodayBeside(c)
  BY <1>6, <1>7
<1> QED
  BY <1>5, <1>8 DEF TodayBeside, DepartsToday

(* The claims beside the i-th event's. *)
LEMMA ClaimsBeside ==
  ASSUME NEW es, Calendar(es), NEW i \in DOMAIN es, Outcome(es[i]) = "flight"
  PROVE  /\ es[i] \in Claims(es)
         /\ Claims(es) \ {es[i]} = {es[j] : j \in {k \in DOMAIN es : k # i /\ Outcome(es[k]) = "flight"}}
<1>1. \A j \in DOMAIN es : j # i => es[j] # es[i]
  BY DEF Calendar
<1>2. \A c : c \in Claims(es) <=> \E j \in DOMAIN es : c = es[j] /\ Outcome(es[j]) = "flight"
  BY DEF Claims, Range
<1>3. es[i] \in Claims(es)
  BY <1>2
<1>4. ASSUME NEW c
      PROVE  c \in Claims(es) \ {es[i]} <=>
                \E j \in DOMAIN es : j # i /\ c = es[j] /\ Outcome(es[j]) = "flight"
  BY <1>1, <1>2
<1> QED
  BY <1>3, <1>4

(* A departure moved within the operator's day keeps the same numbers wanted,
   even across midnight UTC, which changes the flight's key: for every offset
   and day length, when the number is in no other claim (key, merge, wanted). *)
THEOREM DelayKeepsWantedAlways == Spec => DelayKeepsWanted
<1> DEFINE OnToday(e) == Outcome(e) = "flight" /\ Day(e.start, Offset) = Day(now, Offset)
<1>1. ASSUME CalendarInv, Delay, Authoritative(events), Authoritative(events'),
             NEW i \in DOMAIN events, events'[i] # events[i],
             \A f \in Claims(events) \ {events[i]} :
                f.title.designator # events[i].title.designator,
             OnToday(events[i]), OnToday(events'[i])
      PROVE  Range(TheWanted') = Range(TheWanted)
  <2>1. PICK k \in DOMAIN events, e \in Event :
          /\ e.id = events[k].id /\ e.title = events[k].title
          /\ events' = [events EXCEPT ![k] = e]
    BY <1>1, DelayWrites
  <2>2. Calendar(events)
    BY <1>1 DEF CalendarInv
  <2>3. /\ Calendar([events EXCEPT ![k] = e])
        /\ DOMAIN [events EXCEPT ![k] = e] = DOMAIN events
        /\ [events EXCEPT ![k] = e][k] = e
        /\ \A j \in DOMAIN events : j # k => [events EXCEPT ![k] = e][j] = events[j]
    BY <2>1, <2>2, EditKeepsCalendar
  <2>4. /\ Calendar(events') /\ DOMAIN events' = DOMAIN events
        /\ events'[k] = e
        /\ \A j \in DOMAIN events : j # k => events'[j] = events[j]
    BY <2>1, <2>3
  <2>5. k = i
    BY <1>1, <2>4
  <2>6. /\ events'[i].title = events[i].title
        /\ \A j \in DOMAIN events : j # i => events'[j] = events[j]
    BY <2>1, <2>4, <2>5
  <2> DEFINE rest == Claims(events) \ {events[i]}
  <2>7. events[i] \in Claims(events) /\ events'[i] \in Claims(events')
    BY <1>1, <2>2, <2>4, ClaimsBeside
  <2>8. Claims(events') \ {events'[i]} = rest
    <3>1. rest = {events[j] : j \in {m \in DOMAIN events : m # i /\ Outcome(events[m]) = "flight"}}
      BY <1>1, <2>2, ClaimsBeside
    <3>2. Claims(events') \ {events'[i]} =
            {events'[j] : j \in {m \in DOMAIN events' : m # i /\ Outcome(events'[m]) = "flight"}}
      BY <1>1, <2>4, ClaimsBeside
    <3> HIDE DEF rest
    <3> QED
      BY <2>4, <2>6, <3>1, <3>2
  <2>9. Claims(events) = rest \cup {events[i]} /\ Claims(events') = rest \cup {events'[i]}
    BY <2>7, <2>8
  <2>10. \A c \in rest : /\ c.title.designator # events[i].title.designator
                         /\ c.title.designator # events'[i].title.designator
    BY <1>1, <2>6
  <2> DEFINE x == events[i]
             y == events'[i]
             then == events'
  <2>11. /\ Day(x.start, Offset) = Day(now, Offset)
         /\ Day(y.start, Offset) = Day(now, Offset)
         /\ y.title = x.title
    BY <1>1, <2>6
  <2> HIDE DEF rest, x, y, then
  <2>12. ASSUME NEW d
         PROVE  /\ d \in Range(Wanted(events, now, Offset)) <=> d = x.title.designator \/ DepartsToday(rest, d, now, Offset)
                /\ d \in Range(Wanted(then, now, Offset)) <=> d = y.title.designator \/ DepartsToday(rest, d, now, Offset)
    <3>1. Claims(events) = rest \cup {x} /\ Claims(then) = rest \cup {y}
      BY <2>9 DEF x, y, then
    <3>2. \A c \in rest : /\ c.title.designator # x.title.designator
                          /\ c.title.designator # y.title.designator
      BY <2>10 DEF x, y
    <3>3. Calendar(then) /\ Authoritative(then) /\ Calendar(events) /\ Authoritative(events)
      BY <1>1, <2>2, <2>4 DEF then
    <3>4. d \in Range(Wanted(events, now, Offset)) <=> d = x.title.designator \/ DepartsToday(rest, d, now, Offset)
      BY <2>11, <3>1, <3>2, <3>3, WantedBeside
    <3>5. d \in Range(Wanted(then, now, Offset)) <=> d = y.title.designator \/ DepartsToday(rest, d, now, Offset)
      BY <2>11, <3>1, <3>2, <3>3, WantedBeside
    <3> QED
      BY <3>4, <3>5
  <2>13. Range(Wanted(then, now, Offset)) = Range(Wanted(events, now, Offset))
    BY <2>11, <2>12
  <2>14. now' = now
    BY <1>1 DEF Delay
  <2> QED
    BY <2>13, <2>14 DEF TheWanted, then
<1>2. CalendarInv => [ (Delay /\ Authoritative(events) /\ Authoritative(events')) =>
        \A i \in DOMAIN events :
            LET Today(e) == Outcome(e) = "flight" /\ Day(e.start, Offset) = Day(now, Offset)
                alone == \A f \in Claims(events) \ {events[i]} :
                            f.title.designator # events[i].title.designator
            IN  (events'[i] # events[i] /\ alone /\ Today(events[i]) /\ Today(events'[i]))
                => Range(TheWanted') = Range(TheWanted) ]_vars
  BY <1>1
<1> QED
  BY <1>2, CalendarAlways, PTL DEF DelayKeepsWanted

-----------------------------------------------------------------------------
(* The loop that groups the claims and merges each group. *)

(* h is what the loop went through with the first m events. *)
ClaimsFollow(h, m) ==
    h = [k \in 0..m |-> IF k = 0 THEN <<>> ELSE Claim(h[k - 1], events[k])]

LEMMA ClaimsAreGoneThrough ==
  ASSUME NEW n \in Nat
  PROVE  \E h : ClaimsFollow(h, n)
<1> DEFINE E == {m \in Nat : \E h : ClaimsFollow(h, m)}
<1>1. 0 \in E
  <2> DEFINE h == [k \in 0..0 |-> <<>>]
  <2>1. \A k \in 0..0 : k = 0
    OBVIOUS
  <2>2. ClaimsFollow(h, 0)
    BY <2>1 DEF ClaimsFollow
  <2> QED
    BY <2>2
<1>2. ASSUME NEW m \in Nat, m \in E PROVE m + 1 \in E
  <2>1. PICK h : ClaimsFollow(h, m)
    BY <1>2
  <2> DEFINE g == [k \in 0..(m + 1) |-> IF k = m + 1 THEN Claim(h[m], events[m + 1]) ELSE h[k]]
             next == [k \in 0..(m + 1) |-> IF k = 0 THEN <<>> ELSE Claim(g[k - 1], events[k])]
  <2>2. ASSUME NEW k \in 0..(m + 1) PROVE g[k] = next[k]
    <3>1. CASE k = m + 1
      <4>1. g[k] = Claim(h[m], events[k]) /\ g[k - 1] = h[m] /\ k # 0
        BY <3>1
      <4> QED
        BY <4>1
    <3>2. CASE k = 0
      <4>1. g[k] = h[k] /\ k \in 0..m
        BY <3>2
      <4>2. h[k] = <<>>
        BY <2>1, <3>2, <4>1 DEF ClaimsFollow
      <4> QED
        BY <3>2, <4>1, <4>2
    <3>3. CASE k # m + 1 /\ k # 0
      <4>1. g[k] = h[k] /\ g[k - 1] = h[k - 1] /\ k \in 0..m
        BY <3>3
      <4>2. h[k] = Claim(h[k - 1], events[k])
        BY <2>1, <3>3, <4>1, Zenon DEF ClaimsFollow
      <4> QED
        BY <3>3, <4>1, <4>2
    <3> QED
      BY <3>1, <3>2, <3>3
  <2>3. g = next
    <3>1. next = [k \in 0..(m + 1) |-> next[k]]
      OBVIOUS
    <3>2. g = [k \in 0..(m + 1) |-> g[k]]
      OBVIOUS
    <3> HIDE DEF g, next
    <3> QED
      BY <2>2, <3>1, <3>2, Zenon
  <2>4. ClaimsFollow(g, m + 1)
    BY <2>3, Zenon DEF ClaimsFollow
  <2> QED
    BY <2>4
<1> HIDE DEF E
<1>3. Nat \subseteq E
  BY <1>1, <1>2, CountingUp
<1> QED
  BY <1>3 DEF E

NoFresher(f, e) == f.updated < e.updated \/ (f.updated = e.updated /\ f.id <= e.id)

(* acc holds, of the claims so far, the freshest of every key, once. *)
Winning(acc, claims) ==
    /\ acc \in Seq(Event)
    /\ \A i \in DOMAIN acc :
          /\ acc[i] \in claims
          /\ \A f \in claims : Key(f) = Key(acc[i]) => NoFresher(f, acc[i])
    /\ \A i, j \in DOMAIN acc : Key(acc[i]) = Key(acc[j]) => i = j
    /\ \A f \in claims : \E i \in DOMAIN acc : Key(acc[i]) = Key(f)

LEMMA ClaimOne ==
  ASSUME NEW acc, NEW claims \in SUBSET Event, Winning(acc, claims),
         NEW e \in Event, Outcome(e) = "flight"
  PROVE  Winning(Claim(acc, e), claims \cup {e})
<1>1. /\ acc \in Seq(Event) /\ Len(acc) \in Nat /\ DOMAIN acc = 1..Len(acc)
      /\ \A i \in DOMAIN acc :
            /\ acc[i] \in Event
            /\ acc[i] \in claims
            /\ \A f \in claims : Key(f) = Key(acc[i]) => NoFresher(f, acc[i])
      /\ \A i, j \in DOMAIN acc : Key(acc[i]) = Key(acc[j]) => i = j
      /\ \A f \in claims : \E i \in DOMAIN acc : Key(acc[i]) = Key(f)
  BY DEF Winning
<1>2. ASSUME NEW f \in Event PROVE f.updated \in Int /\ f.id \in Int
  BY DEF Event
<1>3. CASE \E i \in DOMAIN acc : Key(acc[i]) = Key(e)
  <2> DEFINE new == [i \in DOMAIN acc |->
                       IF Key(acc[i]) = Key(e) THEN Fresher(acc[i], e) ELSE acc[i]]
  <2>1. Claim(acc, e) = new
    BY <1>3 DEF Claim
  <2>2. ASSUME NEW i \in DOMAIN acc
        PROVE  /\ new[i] \in Event
               /\ new[i] \in claims \cup {e}
               /\ Key(new[i]) = Key(acc[i])
               /\ \A f \in claims \cup {e} : Key(f) = Key(acc[i]) => NoFresher(f, new[i])
    <3>1. acc[i] \in Event /\ acc[i] \in claims
          /\ \A f \in claims : Key(f) = Key(acc[i]) => NoFresher(f, acc[i])
      BY <1>1
    <3>2. CASE Key(acc[i]) # Key(e)
      <4>1. new[i] = acc[i]
        BY <3>2
      <4> HIDE DEF new
      <4> QED
        BY <3>1, <3>2, <4>1
    <3>3. CASE Key(acc[i]) = Key(e) /\ NoFresher(acc[i], e)
      <4>1. new[i] = e
        BY <3>3 DEF Fresher, NoFresher
      <4>2. ASSUME NEW f \in claims, Key(f) = Key(acc[i]) PROVE NoFresher(f, e)
        <5>1. NoFresher(f, acc[i])
          BY <3>1, <4>2
        <5>2. f \in Event
          OBVIOUS
        <5> QED
          BY <1>2, <3>1, <3>3, <5>1, <5>2 DEF NoFresher
      <4>3. NoFresher(e, e)
        BY <1>2 DEF NoFresher
      <4> HIDE DEF new
      <4> QED
        BY <3>3, <4>1, <4>2, <4>3
    <3>4. CASE Key(acc[i]) = Key(e) /\ ~NoFresher(acc[i], e)
      <4>1. new[i] = acc[i]
        BY <1>2, <3>1, <3>4 DEF Fresher, NoFresher
      <4>2. NoFresher(e, acc[i])
        BY <1>2, <3>1, <3>4 DEF NoFresher
      <4> HIDE DEF new
      <4> QED
        BY <3>1, <3>4, <4>1, <4>2
    <3> QED
      BY <3>2, <3>3, <3>4
  <2>3. DOMAIN new = DOMAIN acc
    OBVIOUS
  <2>4. new \in Seq(Event)
    <3>1. new \in [1..Len(acc) -> Event]
      BY <1>1, <2>2
    <3> QED
      BY <1>1, <3>1
  <2> HIDE DEF new
  <2>5. Winning(new, claims \cup {e})
    <3>1. \A i, j \in DOMAIN new : Key(new[i]) = Key(new[j]) => i = j
      BY <1>1, <2>2, <2>3
    <3>2. \A f \in claims \cup {e} : \E i \in DOMAIN new : Key(new[i]) = Key(f)
      BY <1>1, <1>3, <2>2, <2>3
    <3>3. \A i \in DOMAIN new :
            /\ new[i] \in claims \cup {e}
            /\ \A f \in claims \cup {e} : Key(f) = Key(new[i]) => NoFresher(f, new[i])
      BY <2>2, <2>3
    <3> QED
      BY <2>4, <3>1, <3>2, <3>3 DEF Winning
  <2> QED
    BY <2>1, <2>5
<1>4. CASE ~ \E i \in DOMAIN acc : Key(acc[i]) = Key(e)
  <2> DEFINE new == Append(acc, e)
             last == Len(acc) + 1
  <2>1. Claim(acc, e) = new
    BY <1>4 DEF Claim
  <2>2. /\ new \in Seq(Event) /\ DOMAIN new = DOMAIN acc \cup {last}
        /\ last \notin DOMAIN acc /\ new[last] = e
        /\ \A i \in DOMAIN acc : new[i] = acc[i]
    <3>1. DOMAIN new = 1..last /\ new \in Seq(Event) /\ new[last] = e
          /\ \A i \in DOMAIN acc : new[i] = acc[i]
      BY <1>1
    <3>2. 1..last = 1..Len(acc) \cup {last} /\ last \notin 1..Len(acc)
      BY <1>1
    <3> HIDE DEF new, last
    <3> QED
      BY <1>1, <3>1, <3>2
  <2> HIDE DEF new, last
  <2>3. NoFresher(e, e)
    BY <1>2 DEF NoFresher
  <2>4. \A f \in claims : Key(f) # Key(e)
    BY <1>1, <1>4
  <2>5. \A i \in DOMAIN new :
          /\ new[i] \in claims \cup {e}
          /\ \A f \in claims \cup {e} : Key(f) = Key(new[i]) => NoFresher(f, new[i])
    BY <1>1, <1>4, <2>2, <2>3, <2>4
  <2>6. \A i, j \in DOMAIN new : Key(new[i]) = Key(new[j]) => i = j
    BY <1>1, <1>4, <2>2
  <2>7. \A f \in claims \cup {e} : \E i \in DOMAIN new : Key(new[i]) = Key(f)
    BY <1>1, <2>2
  <2> QED
    BY <2>1, <2>2, <2>5, <2>6, <2>7 DEF Winning
<1> QED
  BY <1>3, <1>4

(* The first k events' claims. *)
ClaimsUpTo(es, k) == {es[j] : j \in {m \in 1..k : Outcome(es[m]) = "flight"}}

LEMMA WinnersWin ==
  ASSUME Calendar(events)
  PROVE  Winning(Winners, Claims(events))
<1> DEFINE n == Len(events)
           Loop(h) == [k \in 0..n |-> IF k = 0 THEN <<>> ELSE Claim(h[k - 1], events[k])]
           loop == CHOOSE h : h = Loop(h)
<1>1. n \in Nat /\ DOMAIN events = 1..n /\ \A k \in 1..n : events[k] \in Event
  BY DEF Calendar
<1>2. \E h : h = Loop(h)
  BY <1>1, ClaimsAreGoneThrough DEF ClaimsFollow
<1>3. loop = Loop(loop)
  BY <1>2
<1>4. Winners = loop[n]
  BY DEF Winners
<1> HIDE DEF loop
<1>5. /\ loop[0] = <<>>
      /\ \A k \in 1..n : loop[k] = Claim(loop[k - 1], events[k])
  <2>1. /\ Loop(loop)[0] = <<>>
        /\ \A k \in 1..n : Loop(loop)[k] = Claim(loop[k - 1], events[k])
    BY <1>1
  <2> HIDE DEF Loop
  <2> QED
    BY <1>3, <2>1, Zenon
<1> DEFINE E == {m \in Nat : m <= n => Winning(loop[m], ClaimsUpTo(events, m))}
<1>6. 0 \in E
  <2>1. ClaimsUpTo(events, 0) = {}
    BY DEF ClaimsUpTo
  <2>2. Winning(<<>>, {})
    BY DEF Winning
  <2> QED
    BY <1>5, <2>1, <2>2
<1>7. ASSUME NEW m \in Nat, m \in E PROVE m + 1 \in E
  <2>1. SUFFICES ASSUME m + 1 <= n
                 PROVE  Winning(loop[m + 1], ClaimsUpTo(events, m + 1))
    OBVIOUS
  <2>2. Winning(loop[m], ClaimsUpTo(events, m))
    BY <1>1, <1>7, <2>1
  <2>3. m + 1 \in 1..n /\ (m + 1) - 1 = m
    BY <1>1, <2>1
  <2>4. loop[m + 1] = Claim(loop[m], events[m + 1]) /\ events[m + 1] \in Event
    BY <1>1, <1>5, <2>3
  <2>5. 1..(m + 1) = 1..m \cup {m + 1}
    OBVIOUS
  <2>6. CASE Outcome(events[m + 1]) # "flight"
    <3>1. ClaimsUpTo(events, m + 1) = ClaimsUpTo(events, m)
      BY <2>5, <2>6, Zenon DEF ClaimsUpTo
    <3>2. Claim(loop[m], events[m + 1]) = loop[m]
      BY <2>6 DEF Claim
    <3> QED
      BY <2>2, <2>4, <3>1, <3>2
  <2>7. CASE Outcome(events[m + 1]) = "flight"
    <3>1. ClaimsUpTo(events, m + 1) = ClaimsUpTo(events, m) \cup {events[m + 1]}
      BY <2>5, <2>7 DEF ClaimsUpTo
    <3>2. ClaimsUpTo(events, m) \in SUBSET Event
      BY <1>1, <2>1 DEF ClaimsUpTo
    <3>3. Winning(Claim(loop[m], events[m + 1]), ClaimsUpTo(events, m) \cup {events[m + 1]})
      BY <2>2, <2>4, <2>7, <3>2, ClaimOne
    <3> QED
      BY <2>4, <3>1, <3>3
  <2> QED
    BY <2>6, <2>7
<1> HIDE DEF E
<1>8. n \in E
  BY <1>1, <1>6, <1>7, CountingUp
<1>9. ClaimsUpTo(events, n) = Claims(events)
  BY <1>1 DEF ClaimsUpTo, Claims, Range
<1> QED
  BY <1>1, <1>4, <1>8, <1>9 DEF E

-----------------------------------------------------------------------------
(* The winners in the order of their flights. *)

FlightOf(w) == Merge(Key(w), Group(events, Key(w)))

(* Each winner is the freshest claim of a flight, and each flight's is one. *)
LEMMA WinnersAreFlights ==
  ASSUME Calendar(events)
  PROVE  /\ \A w \in Range(Winners) :
               /\ w \in Claims(events)
               /\ w = Freshest(Group(events, Key(w)))
               /\ FlightOf(w) \in DesiredFlights(events)
               /\ FlightOf(w).key = Key(w)
               /\ FlightOf(w).departure = w.start
               /\ FlightOf(w).designator = w.title.designator
         /\ \A f \in DesiredFlights(events) :
               /\ Freshest(Group(events, f.key)) \in Range(Winners)
               /\ FlightOf(Freshest(Group(events, f.key))) = f
         /\ Len(Winners) = Cardinality(DesiredFlights(events))
<1> DEFINE flights == DesiredFlights(events)
           top(k) == Freshest(Group(events, k))
<1>1. /\ Winners \in Seq(Event) /\ Len(Winners) \in Nat /\ DOMAIN Winners = 1..Len(Winners)
      /\ \A i \in DOMAIN Winners :
            /\ Winners[i] \in Claims(events)
            /\ \A f \in Claims(events) : Key(f) = Key(Winners[i]) => NoFresher(f, Winners[i])
      /\ \A i, j \in DOMAIN Winners : Key(Winners[i]) = Key(Winners[j]) => i = j
      /\ \A f \in Claims(events) : \E i \in DOMAIN Winners : Key(Winners[i]) = Key(f)
  BY WinnersWin DEF Winning
<1>2. ASSUME NEW i \in DOMAIN Winners
      PROVE  Winners[i] = top(Key(Winners[i]))
  <2> DEFINE w == Winners[i]
             t == top(Key(w))
  <2>1. w \in Claims(events) /\ w \in Group(events, Key(w)) /\ Group(events, Key(w)) \subseteq Claims(events)
    BY <1>1 DEF Group
  <2> HIDE DEF w
  <2>2. t \in Group(events, Key(w)) /\ (w.updated < t.updated \/ (w.updated = t.updated /\ w.id <= t.id))
    BY <2>1, FreshestIs
  <2> HIDE DEF t
  <2>3. t \in Claims(events) /\ Key(t) = Key(w)
    BY <2>2 DEF Group
  <2>4. NoFresher(t, w)
    BY <1>1, <2>3 DEF w
  <2>5. t \in Event /\ w \in Event /\ (t.id = w.id => t = w)
    BY <2>1, <2>3, ClaimsAreFlights
  <2>6. t.id = w.id
    BY <2>2, <2>4, <2>5 DEF NoFresher, Event
  <2> QED
    BY <2>5, <2>6 DEF t, w
<1>3. ASSUME NEW w \in Range(Winners)
      PROVE  /\ w \in Claims(events)
             /\ w = top(Key(w))
             /\ FlightOf(w) \in flights
             /\ FlightOf(w).key = Key(w)
             /\ FlightOf(w).departure = w.start
             /\ FlightOf(w).designator = w.title.designator
  <2>1. w \in Claims(events) /\ w = top(Key(w))
    BY <1>1, <1>2 DEF Range
  <2>2. FlightOf(w) \in flights /\ FlightOf(w).key = Key(w)
    BY <2>1, ClaimHasFlight DEF FlightOf
  <2>3. FlightOf(w).departure = top(Key(w)).start /\ FlightOf(w).designator = top(Key(w)).title.designator
    BY DEF FlightOf, Merge
  <2> QED
    BY <2>1, <2>2, <2>3
<1>4. ASSUME NEW f \in flights
      PROVE  top(f.key) \in Range(Winners) /\ FlightOf(top(f.key)) = f
  <2>1. /\ top(f.key) \in Claims(events) /\ Key(top(f.key)) = f.key
        /\ f = Merge(f.key, Group(events, f.key))
    BY FlightIs
  <2>2. FlightOf(top(f.key)) = f
    BY <2>1 DEF FlightOf
  <2>3. PICK i \in DOMAIN Winners : Key(Winners[i]) = Key(top(f.key))
    BY <1>1, <2>1
  <2>4. Winners[i] = top(f.key)
    BY <1>2, <2>1, <2>3
  <2> QED
    BY <2>2, <2>4 DEF Range
<1> HIDE DEF flights, top
<1>5. Len(Winners) = Cardinality(flights)
  <2> DEFINE b == [i \in 1..Len(Winners) |-> FlightOf(Winners[i])]
  <2>1. \A i \in 1..Len(Winners) : Winners[i] \in Range(Winners)
    BY <1>1 DEF Range
  <2>2. b \in [1..Len(Winners) -> flights]
    BY <1>3, <2>1
  <2>3. ASSUME NEW i \in 1..Len(Winners), NEW j \in 1..Len(Winners), b[i] = b[j] PROVE i = j
    <3>1. FlightOf(Winners[i]) = FlightOf(Winners[j])
      BY <2>3
    <3>2. Key(Winners[i]) = Key(Winners[j])
      BY <1>3, <2>1, <3>1
    <3> QED
      BY <1>1, <3>2
  <2>4. ASSUME NEW f \in flights PROVE \E i \in 1..Len(Winners) : b[i] = f
    <3>1. PICK i \in 1..Len(Winners) : Winners[i] = top(f.key)
      BY <1>1, <1>4 DEF Range
    <3> QED
      BY <1>4, <3>1
  <2> HIDE DEF b
  <2>5. b \in Bijection(1..Len(Winners), flights)
    BY <2>2, <2>3, <2>4 DEF Bijection, Injection, Surjection, IsInjective
  <2>6. ExistsBijection(1..Len(Winners), flights)
    BY <2>5 DEF ExistsBijection
  <2>7. IsFiniteSet(1..Len(Winners)) /\ Cardinality(1..Len(Winners)) = Len(Winners)
    <3>1. /\ IsFiniteSet(1..Len(Winners))
          /\ Cardinality(1..Len(Winners)) = IF 1 > Len(Winners) THEN 0 ELSE Len(Winners) - 1 + 1
      BY <1>1, 1 \in Int, Len(Winners) \in Int, FS_Interval
    <3> QED
      BY <1>1, <3>1
  <2> QED
    BY <2>6, <2>7, FS_Bijection
<1> QED
  BY <1>3, <1>4, <1>5 DEF flights, top

LEMMA SoonestIsBefore ==
  ASSUME Calendar(events), NEW a \in Range(Winners), NEW b \in Range(Winners)
  PROVE  SoonestFirst(a, b) <=> Before(FlightOf(a), FlightOf(b))
<1>1. /\ FlightOf(a).key = Key(a) /\ FlightOf(a).departure = a.start
      /\ FlightOf(b).key = Key(b) /\ FlightOf(b).departure = b.start
  BY WinnersAreFlights
<1> QED
  BY <1>1 DEF SoonestFirst, Before

(* They can be put in order, and are. *)
LEMMA SortedWinnersAre ==
  ASSUME Calendar(events)
  PROVE  /\ SortedWinners \in [1..Len(Winners) -> Range(Winners)]
         /\ Range(SortedWinners) = Range(Winners)
         /\ \A i, j \in DOMAIN SortedWinners :
               i < j => SoonestFirst(SortedWinners[i], SortedWinners[j])
<1> DEFINE flights == DesiredFlights(events)
           n == Cardinality(flights)
           list == Sorted(flights, Before)
           t == [k \in 1..n |-> Freshest(Group(events, list[k].key))]
           Good(s) == /\ Range(s) = Range(Winners)
                      /\ \A i, j \in DOMAIN s : i < j => SoonestFirst(s[i], s[j])
<1>1. /\ \A w \in Range(Winners) :
            w = Freshest(Group(events, Key(w))) /\ FlightOf(w) \in flights /\ FlightOf(w).key = Key(w)
      /\ \A f \in flights : /\ Freshest(Group(events, f.key)) \in Range(Winners)
                            /\ FlightOf(Freshest(Group(events, f.key))) = f
      /\ Len(Winners) = n
  BY WinnersAreFlights
<1>2. /\ IsFiniteSet(flights) /\ StrictTotal(flights, Precedes(flights))
      /\ \A f, g \in flights : <<f, g>> \in Precedes(flights) <=> Before(f, g)
  BY FlightsInOrder
<1>3. /\ n \in Nat
      /\ \A k \in 1..n : /\ list[k] \in flights
                         /\ Cardinality(Below(flights, Precedes(flights), list[k])) = k - 1
      /\ \A f \in flights : \E k \in 1..n : list[k] = f
  BY <1>2, SortedLists
<1> HIDE DEF flights, n, list
<1>4. ASSUME NEW k \in 1..n PROVE t[k] \in Range(Winners) /\ FlightOf(t[k]) = list[k]
  BY <1>1, <1>3
<1>5. t \in [1..n -> Range(Winners)]
  BY <1>4
<1>6. ASSUME NEW w \in Range(Winners) PROVE \E k \in 1..n : t[k] = w
  <2>1. PICK k \in 1..n : list[k] = FlightOf(w)
    BY <1>1, <1>3
  <2>2. t[k] = Freshest(Group(events, Key(w)))
    BY <1>1, <2>1
  <2> QED
    BY <1>1, <2>2
<1>7. ASSUME NEW i \in 1..n, NEW j \in 1..n, i < j PROVE SoonestFirst(t[i], t[j])
  <2>1. Cardinality(Below(flights, Precedes(flights), list[i]))
          < Cardinality(Below(flights, Precedes(flights), list[j]))
    <3>1. /\ Cardinality(Below(flights, Precedes(flights), list[i])) = i - 1
          /\ Cardinality(Below(flights, Precedes(flights), list[j])) = j - 1
      BY <1>3
    <3> QED
      BY <1>3, <1>7, <3>1
  <2>2. list[i] \in flights /\ list[j] \in flights
    BY <1>3
  <2>3. <<list[i], list[j]>> \in Precedes(flights)
    BY <1>2, <2>1, <2>2, Places
  <2>4. Before(list[i], list[j])
    BY <1>2, <2>2, <2>3
  <2>5. /\ t[i] \in Range(Winners) /\ FlightOf(t[i]) = list[i]
        /\ t[j] \in Range(Winners) /\ FlightOf(t[j]) = list[j]
    BY <1>4
  <2> HIDE DEF t
  <2> QED
    BY <2>4, <2>5, SoonestIsBefore
<1>8. DOMAIN t = 1..n
  OBVIOUS
<1> HIDE DEF t
<1>9. Range(t) = Range(Winners)
  <2>1. Range(t) = {t[k] : k \in 1..n}
    BY <1>8 DEF Range
  <2> QED
    BY <1>4, <1>6, <2>1
<1>10. Good(t)
  BY <1>7, <1>8, <1>9
<1>11. \E s \in [1..Len(Winners) -> Range(Winners)] : Good(s)
  BY <1>1, <1>5, <1>10
<1>12. SortedWinners = CHOOSE s \in [1..Len(Winners) -> Range(Winners)] : Good(s)
  BY DEF SortedWinners
<1> HIDE DEF Good
<1>13. SortedWinners \in [1..Len(Winners) -> Range(Winners)] /\ Good(SortedWinners)
  BY <1>11, <1>12, Zenon
<1> QED
  BY <1>13 DEF Good

-----------------------------------------------------------------------------
(* The loop that keeps each number's first departure today. *)

(* h is what the loop went through with the first m of s. *)
KeepsFollow(h, s, m) ==
    h = [k \in 0..m |-> IF k = 0 THEN <<>> ELSE KeepFirst(h[k - 1], s[k])]

LEMMA KeepsAreGoneThrough ==
  ASSUME NEW s, NEW n \in Nat
  PROVE  \E h : KeepsFollow(h, s, n)
<1> DEFINE E == {m \in Nat : \E h : KeepsFollow(h, s, m)}
<1>1. 0 \in E
  <2> DEFINE h == [k \in 0..0 |-> <<>>]
  <2>1. \A k \in 0..0 : k = 0
    OBVIOUS
  <2>2. KeepsFollow(h, s, 0)
    BY <2>1 DEF KeepsFollow
  <2> QED
    BY <2>2
<1>2. ASSUME NEW m \in Nat, m \in E PROVE m + 1 \in E
  <2>1. PICK h : KeepsFollow(h, s, m)
    BY <1>2
  <2> DEFINE g == [k \in 0..(m + 1) |-> IF k = m + 1 THEN KeepFirst(h[m], s[m + 1]) ELSE h[k]]
             next == [k \in 0..(m + 1) |-> IF k = 0 THEN <<>> ELSE KeepFirst(g[k - 1], s[k])]
  <2>2. ASSUME NEW k \in 0..(m + 1) PROVE g[k] = next[k]
    <3>1. CASE k = m + 1
      <4>1. g[k] = KeepFirst(h[m], s[k]) /\ g[k - 1] = h[m] /\ k # 0
        BY <3>1
      <4> QED
        BY <4>1
    <3>2. CASE k = 0
      <4>1. g[k] = h[k] /\ k \in 0..m
        BY <3>2
      <4>2. h[k] = <<>>
        BY <2>1, <3>2, <4>1 DEF KeepsFollow
      <4> QED
        BY <3>2, <4>1, <4>2
    <3>3. CASE k # m + 1 /\ k # 0
      <4>1. g[k] = h[k] /\ g[k - 1] = h[k - 1] /\ k \in 0..m
        BY <3>3
      <4>2. h[k] = KeepFirst(h[k - 1], s[k])
        BY <2>1, <3>3, <4>1, Zenon DEF KeepsFollow
      <4> QED
        BY <3>3, <4>1, <4>2
    <3> QED
      BY <3>1, <3>2, <3>3
  <2>3. g = next
    <3>1. next = [k \in 0..(m + 1) |-> next[k]]
      OBVIOUS
    <3>2. g = [k \in 0..(m + 1) |-> g[k]]
      OBVIOUS
    <3> HIDE DEF g, next
    <3> QED
      BY <2>2, <3>1, <3>2, Zenon
  <2>4. KeepsFollow(g, s, m + 1)
    BY <2>3, Zenon DEF KeepsFollow
  <2> QED
    BY <2>4
<1> HIDE DEF E
<1>3. Nat \subseteq E
  BY <1>1, <1>2, CountingUp
<1> QED
  BY <1>3 DEF E

OnBoard(s, i) == Day(s[i].start, Offset) = Day(now, Offset)

FirstAt(s, i) ==
    /\ OnBoard(s, i)
    /\ \A j \in 1..(i - 1) : OnBoard(s, j) => s[j].title.designator # s[i].title.designator

(* acc holds the numbers on the board among the first m, each once, in the
   order of their first departures. *)
Keeping(acc, s, m) ==
    /\ acc \in Seq(Int)
    /\ \A i \in 1..m : OnBoard(s, i) => \E b \in DOMAIN acc : acc[b] = s[i].title.designator
    /\ \A b \in DOMAIN acc : \E i \in 1..m : FirstAt(s, i) /\ acc[b] = s[i].title.designator
    /\ \A b, c \in DOMAIN acc, i, j \in 1..m :
          /\ b < c /\ FirstAt(s, i) /\ FirstAt(s, j)
          /\ acc[b] = s[i].title.designator /\ acc[c] = s[j].title.designator
          => i < j

LEMMA OneFirst ==
  ASSUME NEW s, NEW i \in Nat \ {0}, NEW j \in Nat \ {0}, FirstAt(s, i), FirstAt(s, j),
         s[i].title.designator = s[j].title.designator
  PROVE  i = j
<1>1. ASSUME i < j PROVE FALSE
  <2>1. i \in 1..(j - 1)
    BY <1>1
  <2> QED
    BY <2>1 DEF FirstAt
<1>2. ASSUME j < i PROVE FALSE
  <2>1. j \in 1..(i - 1)
    BY <1>2
  <2> QED
    BY <2>1 DEF FirstAt
<1> QED
  BY <1>1, <1>2

LEMMA KeepOne ==
  ASSUME NEW s, NEW m \in Nat, NEW acc, Keeping(acc, s, m),
         s[m + 1].title.designator \in Int
  PROVE  Keeping(KeepFirst(acc, s[m + 1]), s, m + 1)
<1> DEFINE d(i) == s[i].title.designator
           next == m + 1
<1>1. /\ acc \in Seq(Int) /\ Len(acc) \in Nat /\ DOMAIN acc = 1..Len(acc)
      /\ \A i \in 1..m : OnBoard(s, i) => \E b \in DOMAIN acc : acc[b] = d(i)
      /\ \A b \in DOMAIN acc : \E i \in 1..m : FirstAt(s, i) /\ acc[b] = d(i)
      /\ \A b, c \in DOMAIN acc, i, j \in 1..m :
            b < c /\ FirstAt(s, i) /\ FirstAt(s, j) /\ acc[b] = d(i) /\ acc[c] = d(j) => i < j
  BY DEF Keeping
<1>2. 1..next = 1..m \cup {next} /\ next \in Nat /\ next - 1 = m /\ next \notin 1..m
  OBVIOUS
<1>3. d(next) \in Range(acc) <=> \E b \in DOMAIN acc : acc[b] = d(next)
  BY Zenon DEF Range
<1>4. ASSUME NEW i \in 1..m, NEW j \in 1..m, FirstAt(s, i), FirstAt(s, j), d(i) = d(j)
      PROVE  i = j
  BY <1>4, OneFirst
<1>5. ASSUME d(next) \in Range(acc) PROVE ~FirstAt(s, next)
  <2>1. PICK b \in DOMAIN acc : acc[b] = d(next)
    BY <1>3, <1>5
  <2>2. PICK i \in 1..m : FirstAt(s, i) /\ d(i) = d(next)
    BY <1>1, <2>1
  <2> QED
    BY <1>2, <2>2 DEF FirstAt
<1> HIDE DEF next, d
<1>6. CASE ~OnBoard(s, next) \/ d(next) \in Range(acc)
  <2>1. KeepFirst(acc, s[next]) = acc
    BY <1>6 DEF KeepFirst, OnBoard, d
  <2>2. ~FirstAt(s, next)
    BY <1>5, <1>6 DEF FirstAt
  <2>3. \A i \in 1..next : OnBoard(s, i) => \E b \in DOMAIN acc : acc[b] = d(i)
    BY <1>1, <1>2, <1>3, <1>6
  <2>4. \A b \in DOMAIN acc : \E i \in 1..next : FirstAt(s, i) /\ acc[b] = d(i)
    BY <1>1, <1>2
  <2>5. \A b, c \in DOMAIN acc, i, j \in 1..next :
            b < c /\ FirstAt(s, i) /\ FirstAt(s, j) /\ acc[b] = d(i) /\ acc[c] = d(j) => i < j
    BY <1>1, <1>2, <2>2
  <2>6. Keeping(acc, s, next)
    BY <1>1, <2>3, <2>4, <2>5 DEF Keeping, d
  <2> QED
    BY <2>1, <2>6 DEF next
<1>7. CASE OnBoard(s, next) /\ d(next) \notin Range(acc)
  <2> DEFINE new == Append(acc, d(next))
             last == Len(acc) + 1
  <2>1. KeepFirst(acc, s[next]) = new
    BY <1>7 DEF KeepFirst, OnBoard, d
  <2>2. d(next) \in Int
    BY DEF d, next
  <2>3. /\ new \in Seq(Int) /\ DOMAIN new = DOMAIN acc \cup {last}
        /\ last \notin DOMAIN acc /\ new[last] = d(next)
        /\ \A b \in DOMAIN acc : new[b] = acc[b] /\ b < last
        /\ last \in Nat
    <3>1. DOMAIN new = 1..last /\ new \in Seq(Int) /\ new[last] = d(next)
          /\ \A b \in DOMAIN acc : new[b] = acc[b]
      BY <1>1, <2>2
    <3>2. 1..last = 1..Len(acc) \cup {last} /\ last \notin 1..Len(acc) /\ last \in Nat
          /\ \A b \in 1..Len(acc) : b < last
      BY <1>1
    <3> HIDE DEF new, last
    <3> QED
      BY <1>1, <3>1, <3>2
  <2> HIDE DEF new, last
  <2>4. FirstAt(s, next)
    <3>1. ASSUME NEW j \in 1..m, OnBoard(s, j) PROVE d(j) # d(next)
      BY <1>1, <1>3, <1>7, <3>1
    <3> QED
      BY <1>2, <1>7, <3>1 DEF FirstAt, d
  <2>5. ASSUME NEW i \in 1..next, OnBoard(s, i) PROVE \E b \in DOMAIN new : new[b] = d(i)
    BY <1>1, <1>2, <2>3, <2>5
  <2>6. ASSUME NEW b \in DOMAIN new
        PROVE  \E i \in 1..next : FirstAt(s, i) /\ new[b] = d(i)
    BY <1>1, <1>2, <2>3, <2>4
  <2>7. ASSUME NEW b \in DOMAIN new, NEW c \in DOMAIN new, NEW i \in 1..next, NEW j \in 1..next,
               b < c, FirstAt(s, i), FirstAt(s, j), new[b] = d(i), new[c] = d(j)
        PROVE  i < j
    <3>1. b \in DOMAIN acc /\ new[b] = acc[b]
      <4>1. c \in Nat /\ c <= last
        BY <1>1, <2>3
      <4>2. b # last
        BY <2>3, <2>7, <4>1
      <4> QED
        BY <2>3, <4>2
    <3>2. i \in 1..m
      <4>1. i # next
        BY <1>3, <1>7, <2>7, <3>1
      <4> QED
        BY <1>2, <4>1
    <3>3. CASE c \in DOMAIN acc
      <4>1. j # next
        BY <1>3, <1>7, <2>3, <2>7, <3>3
      <4>2. j \in 1..m /\ new[c] = acc[c]
        BY <1>2, <2>3, <3>3, <4>1
      <4> QED
        BY <1>1, <2>7, <3>1, <3>2, <3>3, <4>2
    <3>4. CASE c = last
      <4>1. d(j) = d(next)
        BY <2>3, <2>7, <3>4
      <4>2. j \in Nat \ {0} /\ next \in Nat \ {0}
        BY <1>2 DEF next
      <4>3. j = next
        BY <2>4, <2>7, <4>1, <4>2, OneFirst DEF d
      <4> QED
        BY <3>2, <4>3 DEF next
    <3> QED
      BY <2>3, <3>3, <3>4
  <2>8. Keeping(new, s, next)
    BY <2>3, <2>5, <2>6, <2>7 DEF Keeping, d
  <2> QED
    BY <2>1, <2>8 DEF next
<1> QED
  BY <1>6, <1>7

LEMMA LoopKeeps ==
  ASSUME Calendar(events), Authoritative(events)
  PROVE  Keeping(LoopWanted, SortedWinners, Len(Winners))
<1> DEFINE s == SortedWinners
           n == Len(s)
           Loop(h) == [k \in 0..n |-> IF k = 0 THEN <<>> ELSE KeepFirst(h[k - 1], s[k])]
           loop == CHOOSE h : h = Loop(h)
<1>1. /\ Len(Winners) \in Nat
      /\ s \in [1..Len(Winners) -> Range(Winners)]
      /\ \A w \in Range(Winners) : w.title.designator \in Int
  <2>1. Winners \in Seq(Event)
    BY WinnersWin DEF Winning
  <2>2. \A w \in Range(Winners) : w \in Claims(events)
    BY WinnersAreFlights
  <2>3. \A w \in Claims(events) : w.title.designator \in Int
    BY ClaimsAreFlights DEF Event, Titles
  <2> QED
    BY <2>1, <2>2, <2>3, SortedWinnersAre
<1>2. LoopWanted = loop[n]
  BY DEF LoopWanted
<1>3. n = Len(Winners)
  <2> HIDE DEF s
  <2>1. s \in Seq(Range(Winners))
    BY <1>1
  <2> QED
    BY <1>1, <2>1
<1> HIDE DEF s
<1>4. \E h : h = Loop(h)
  <2> HIDE DEF n
  <2>1. n \in Nat
    BY <1>1, <1>3
  <2> QED
    BY <2>1, KeepsAreGoneThrough DEF KeepsFollow
<1>5. loop = Loop(loop)
  BY <1>4
<1> HIDE DEF loop, n
<1>6. /\ loop[0] = <<>>
      /\ \A k \in 1..n : loop[k] = KeepFirst(loop[k - 1], s[k])
  <2>1. /\ Loop(loop)[0] = <<>>
        /\ \A k \in 1..n : Loop(loop)[k] = KeepFirst(loop[k - 1], s[k])
    BY <1>1, <1>3
  <2> HIDE DEF Loop
  <2> QED
    BY <1>5, <2>1, Zenon
<1> DEFINE E == {m \in Nat : m <= n => Keeping(loop[m], s, m)}
<1>7. 0 \in E
  <2>1. Keeping(<<>>, s, 0)
    BY DEF Keeping
  <2> QED
    BY <1>6, <2>1
<1>8. ASSUME NEW m \in Nat, m \in E PROVE m + 1 \in E
  <2>1. SUFFICES ASSUME m + 1 <= n PROVE Keeping(loop[m + 1], s, m + 1)
    OBVIOUS
  <2>2. Keeping(loop[m], s, m)
    BY <1>1, <1>3, <1>8, <2>1
  <2>3. m + 1 \in 1..n /\ (m + 1) - 1 = m
    BY <1>1, <1>3, <2>1
  <2>4. loop[m + 1] = KeepFirst(loop[m], s[m + 1]) /\ s[m + 1].title.designator \in Int
    BY <1>1, <1>3, <1>6, <2>3
  <2>5. Keeping(KeepFirst(loop[m], s[m + 1]), s, m + 1)
    BY <2>2, <2>4, KeepOne
  <2> QED
    BY <2>4, <2>5
<1> HIDE DEF E
<1>9. n \in E
  BY <1>1, <1>3, <1>7, <1>8, CountingUp
<1> QED
  BY <1>1, <1>2, <1>3, <1>9 DEF E, s

(* A number's first departure is its soonest flight. *)
LEMMA FirstIsSoonest ==
  ASSUME Calendar(events), Authoritative(events),
         NEW i \in 1..Len(Winners), FirstAt(SortedWinners, i)
  PROVE  FlightOf(SortedWinners[i]) \in Soonest(TodaysFlights(ParsedFlights(events), now, Offset))
<1> DEFINE s == SortedWinners
           n == Len(Winners)
           today == TodaysFlights(ParsedFlights(events), now, Offset)
           f == FlightOf(s[i])
<1>1. /\ s \in [1..n -> Range(Winners)] /\ Range(s) = Range(Winners)
      /\ \A j, k \in 1..n : j < k => SoonestFirst(s[j], s[k])
  BY SortedWinnersAre
<1>2. \A g : g \in today <=> g \in DesiredFlights(events) /\ Day(g.departure, Offset) = Day(now, Offset)
  BY DEF TodaysFlights, ParsedFlights
<1>3. FirstAt(s, i)
  OBVIOUS
<1> HIDE DEF s, today
<1>4. s[i] \in Range(Winners)
  BY <1>1
<1>5. /\ f \in DesiredFlights(events) /\ f.departure = s[i].start
      /\ f.designator = s[i].title.designator
  BY <1>4, WinnersAreFlights
<1>6. f \in today
  BY <1>2, <1>3, <1>5 DEF FirstAt, OnBoard
<1>7. ASSUME NEW g \in today, g.designator = f.designator, Before(g, f) PROVE FALSE
  <2> DEFINE w == Freshest(Group(events, g.key))
  <2>1. w \in Range(Winners) /\ FlightOf(w) = g
    BY <1>2, WinnersAreFlights
  <2>2. PICK j \in 1..n : s[j] = w
    BY <1>1, <2>1 DEF Range
  <2> HIDE DEF w
  <2>3. g.departure = s[j].start /\ g.designator = s[j].title.designator
    BY <2>1, <2>2, WinnersAreFlights
  <2>4. OnBoard(s, j)
    BY <1>2, <2>3 DEF OnBoard
  <2>5. /\ <<g, f>> \in Precedes(today) /\ <<f, f>> \notin Precedes(today)
        /\ <<f, g>> \notin Precedes(today)
    <3>1. /\ StrictTotal(today, Precedes(today))
          /\ \A a, b \in today : <<a, b>> \in Precedes(today) <=> Before(a, b)
      <4>1. today \subseteq DesiredFlights(events)
        BY <1>2
      <4> QED
        BY <4>1, FlightsInOrder
    <3> QED
      BY <1>6, <1>7, <3>1 DEF StrictTotal
  <2>6. ~Before(f, g) /\ f # g
    BY <1>6, <2>5 DEF Precedes
  <2>7. ~(i < j)
    <3>1. SUFFICES ASSUME i < j PROVE FALSE
      OBVIOUS
    <3>2. SoonestFirst(s[i], s[j])
      BY <1>1, <3>1
    <3>3. Before(f, g)
      BY <1>4, <2>1, <2>2, <3>2, SoonestIsBefore
    <3> QED
      BY <2>6, <3>3
  <2>8. i # j
    BY <2>1, <2>2, <2>6
  <2>9. j \in 1..(i - 1)
    <3>1. Len(Winners) \in Nat
      BY WinnersWin DEF Winning
    <3> QED
      BY <2>7, <2>8, <3>1
  <2> QED
    BY <1>3, <1>5, <1>7, <2>3, <2>4, <2>9 DEF FirstAt
<1> QED
  BY <1>6, <1>7 DEF Soonest, s, today

(* The wanted list does not depend on the order the API lists events in, nor on
   how the loops go about it: on every calendar, grouping event by event,
   merging, sorting, and keeping each number's first departure today yields the
   closed form, which knows no order (desired_flights, merge, wanted). *)
THEOREM WantedIsTheLoopAlways == Spec => []WantedIsTheLoop
<1>1. ASSUME CalendarInv, Authoritative(events) PROVE TheWanted = LoopWanted
  <2> DEFINE today == TodaysFlights(ParsedFlights(events), now, Offset)
             soonest == Soonest(today)
             n == Cardinality(soonest)
             list == Sorted(soonest, Before)
             D == {f.designator : f \in today}
             R == {p \in D \X D : \E f, g \in soonest :
                      f.designator = p[1] /\ g.designator = p[2] /\ Before(f, g)}
             W == Wanted(events, now, Offset)
             A == LoopWanted
             s == SortedWinners
             m == Len(Winners)
  <2>1. Calendar(events)
    BY <1>1 DEF CalendarInv
  <2>2. today \subseteq DesiredFlights(events)
    BY TodaysAreFlights
  <2>3. /\ n \in Nat
        /\ W = [k \in 1..n |-> list[k].designator]
        /\ \A k \in 1..n : list[k] \in soonest
        /\ \A i, j \in 1..n : i < j => Before(list[i], list[j])
    BY <2>1, WantedLists
  <2>4. Range(W) = D
    BY <2>1, WantedNames
  <2>5. Keeping(A, s, m)
    BY <1>1, <2>1, LoopKeeps
  <2>6. \A i \in 1..m : FirstAt(s, i) => FlightOf(s[i]) \in soonest
    BY <1>1, <2>1, FirstIsSoonest
  <2>7. \A f : f \in today <=> f \in DesiredFlights(events) /\ Day(f.departure, Offset) = Day(now, Offset)
    BY <1>1 DEF TodaysFlights, ParsedFlights
  <2> HIDE DEF today
  <2>8. /\ IsFiniteSet(soonest) /\ StrictTotal(soonest, Precedes(soonest))
        /\ \A f, g \in soonest : <<f, g>> \in Precedes(soonest) <=> Before(f, g)
        /\ \A f, g \in soonest : f.designator = g.designator => f = g
        /\ \A f \in today : \E x \in soonest : x.designator = f.designator
    BY <2>1, <2>2, SoonestAre
  <2>9. soonest \subseteq today
    BY DEF Soonest
  <2> HIDE DEF soonest, n, list, W, A, s
  <2>10. ASSUME NEW f \in soonest, NEW g \in soonest
         PROVE  <<f.designator, g.designator>> \in R <=> Before(f, g)
    <3>1. <<f.designator, g.designator>> \in D \X D
      BY <2>9
    <3> QED
      BY <2>8, <3>1
  <2>11. ASSUME NEW d \in D PROVE \E f \in soonest : d = f.designator
    BY <2>8
  <2> HIDE DEF R
  <2>12. StrictTotal(D, R)
    <3>1. ASSUME NEW x \in D PROVE <<x, x>> \notin R
      <4>1. PICK f \in soonest : x = f.designator
        BY <2>11
      <4>2. ~Before(f, f)
        BY <2>8 DEF StrictTotal
      <4> QED
        BY <2>10, <4>1, <4>2
    <3>2. ASSUME NEW x \in D, NEW y \in D, NEW z \in D, <<x, y>> \in R, <<y, z>> \in R
          PROVE  <<x, z>> \in R
      <4>1. PICK f \in soonest, g \in soonest, h \in soonest :
              x = f.designator /\ y = g.designator /\ z = h.designator
        BY <2>11
      <4>2. Before(f, g) /\ Before(g, h)
        BY <2>10, <3>2, <4>1
      <4>3. Before(f, h)
        BY <2>8, <4>2 DEF StrictTotal
      <4> QED
        BY <2>10, <4>1, <4>3
    <3>3. ASSUME NEW x \in D, NEW y \in D PROVE x = y \/ <<x, y>> \in R \/ <<y, x>> \in R
      <4>1. PICK f \in soonest, g \in soonest : x = f.designator /\ y = g.designator
        BY <2>11
      <4>2. f = g \/ Before(f, g) \/ Before(g, f)
        BY <2>8 DEF StrictTotal
      <4> QED
        BY <2>10, <4>1, <4>2
    <3> QED
      BY <3>1, <3>2, <3>3 DEF StrictTotal
  <2>13. IsFiniteSet(D)
    <3> DEFINE b == [f \in soonest |-> f.designator]
    <3>1. b \in [soonest -> D]
      BY <2>9
    <3>2. \A d \in D : \E f \in soonest : b[f] = d
      BY <2>11
    <3> HIDE DEF b, D
    <3>3. b \in Surjection(soonest, D)
      BY <3>1, <3>2 DEF Surjection
    <3> QED
      BY <2>8, <3>3, FS_Surjection
  <2> HIDE DEF D
  <2> DEFINE at(k) == CHOOSE x \in D : Cardinality(Below(D, R, x)) = k - 1
  <2>14. /\ n = Cardinality(D)
         /\ \A k \in 1..n : W[k] = at(k)
    <3>1. W \in [1..n -> D]
      <4>1. DOMAIN W = 1..n /\ W = [k \in 1..n |-> W[k]]
        BY <2>3
      <4>2. \A k \in 1..n : W[k] \in D
        BY <2>4, <4>1 DEF Range
      <4> QED
        BY <4>1, <4>2
    <3>2. ASSUME NEW i \in 1..n, NEW j \in 1..n, i < j PROVE <<W[i], W[j]>> \in R
      <4>1. W[i] = list[i].designator /\ W[j] = list[j].designator
        BY <2>3
      <4>2. list[i] \in soonest /\ list[j] \in soonest /\ Before(list[i], list[j])
        BY <2>3, <3>2
      <4> QED
        BY <2>10, <4>1, <4>2
    <3> HIDE DEF at, R
    <3>3. /\ n = Cardinality(D)
          /\ \A k \in 1..n : W[k] = CHOOSE x \in D : Cardinality(Below(D, R, x)) = k - 1
      <4>1. n \in Nat /\ Range(W) = D
        BY <2>3, <2>4
      <4>2. \A i, j \in 1..n : i < j => <<W[i], W[j]>> \in R
        BY <3>2
      <4> QED
        BY <2>12, <2>13, <3>1, <4>1, <4>2, Increasing
    <3> QED
      BY <3>3 DEF at
  <2>15. /\ Len(A) = Cardinality(D)
         /\ \A k \in 1..Len(A) : A[k] = at(k)
         /\ A = [k \in 1..Len(A) |-> A[k]]
    <3>1. /\ A \in Seq(Int) /\ Len(A) \in Nat /\ DOMAIN A = 1..Len(A)
          /\ A = [k \in 1..Len(A) |-> A[k]]
          /\ \A i \in 1..m : OnBoard(s, i) => \E b \in DOMAIN A : A[b] = s[i].title.designator
          /\ \A b \in DOMAIN A : \E i \in 1..m : FirstAt(s, i) /\ A[b] = s[i].title.designator
          /\ \A b, c \in DOMAIN A, i, j \in 1..m :
                /\ b < c /\ FirstAt(s, i) /\ FirstAt(s, j)
                /\ A[b] = s[i].title.designator /\ A[c] = s[j].title.designator
                => i < j
      BY <2>5 DEF Keeping
    <3>2. /\ s \in [1..m -> Range(Winners)] /\ Range(s) = Range(Winners)
          /\ \A i, j \in 1..m : i < j => SoonestFirst(s[i], s[j])
      BY <2>1, SortedWinnersAre DEF s
    <3>3. ASSUME NEW i \in 1..m
          PROVE  /\ s[i] \in Range(Winners)
                 /\ FlightOf(s[i]).departure = s[i].start
                 /\ FlightOf(s[i]).designator = s[i].title.designator
      <4>1. s[i] \in Range(Winners)
        BY <3>2
      <4> QED
        BY <2>1, <4>1, WinnersAreFlights
    <3>4. ASSUME NEW b \in 1..Len(A) PROVE A[b] \in D
      <4>1. PICK i \in 1..m : FirstAt(s, i) /\ A[b] = s[i].title.designator
        BY <3>1
      <4>2. FlightOf(s[i]) \in today /\ A[b] = FlightOf(s[i]).designator
        BY <2>6, <2>9, <3>3, <4>1
      <4> QED
        BY <4>2 DEF D
    <3>5. ASSUME NEW d \in D PROVE \E b \in 1..Len(A) : A[b] = d
      <4>1. PICK f \in today : d = f.designator
        BY DEF D
      <4>2. /\ Freshest(Group(events, f.key)) \in Range(Winners)
            /\ FlightOf(Freshest(Group(events, f.key))) = f
        BY <2>1, <2>7, <4>1, WinnersAreFlights
      <4>3. PICK i \in 1..m : FlightOf(s[i]) = f
        BY <3>2, <4>2 DEF Range
      <4>4. OnBoard(s, i) /\ d = s[i].title.designator
        BY <2>7, <3>3, <4>1, <4>3 DEF OnBoard
      <4> QED
        BY <3>1, <4>4
    <3>6. ASSUME NEW b \in 1..Len(A), NEW c \in 1..Len(A), b < c PROVE <<A[b], A[c]>> \in R
      <4>1. PICK i \in 1..m : FirstAt(s, i) /\ A[b] = s[i].title.designator
        BY <3>1
      <4>2. PICK j \in 1..m : FirstAt(s, j) /\ A[c] = s[j].title.designator
        BY <3>1
      <4>3. i < j
        BY <3>1, <3>6, <4>1, <4>2
      <4>4. Before(FlightOf(s[i]), FlightOf(s[j]))
        <5>1. SoonestFirst(s[i], s[j])
          BY <3>2, <4>3
        <5>2. s[i] \in Range(Winners) /\ s[j] \in Range(Winners)
          BY <3>3
        <5> QED
          BY <2>1, <5>1, <5>2, SoonestIsBefore
      <4>5. /\ FlightOf(s[i]) \in soonest /\ FlightOf(s[j]) \in soonest
            /\ A[b] = FlightOf(s[i]).designator /\ A[c] = FlightOf(s[j]).designator
        BY <2>6, <3>3, <4>1, <4>2
      <4> QED
        BY <2>10, <4>4, <4>5
    <3>7. A \in [1..Len(A) -> D] /\ Range(A) = D
      <4>1. A \in [1..Len(A) -> D]
        BY <3>1, <3>4
      <4>2. Range(A) = {A[b] : b \in 1..Len(A)}
        BY <3>1, Zenon DEF Range
      <4> QED
        BY <3>4, <3>5, <4>1, <4>2
    <3> HIDE DEF at
    <3> DEFINE len == Len(A)
    <3>8. len \in Nat /\ A \in [1..len -> D] /\ Range(A) = D
      BY <3>1, <3>7
    <3>9. \A i, j \in 1..len : i < j => <<A[i], A[j]>> \in R
      BY <3>6
    <3> HIDE DEF A, len, R
    <3>10. /\ len = Cardinality(D)
           /\ \A k \in 1..len : A[k] = CHOOSE x \in D : Cardinality(Below(D, R, x)) = k - 1
      BY <2>12, <2>13, <3>8, <3>9, Increasing
    <3> QED
      BY <3>1, <3>10 DEF at, len
  <2> HIDE DEF at
  <2>16. W = [k \in 1..n |-> W[k]]
    BY <2>3
  <2>17. Len(A) = n
    BY <2>14, <2>15
  <2>18. \A k \in 1..n : W[k] = A[k]
    BY <2>14, <2>15, <2>17
  <2>19. W = A
    BY <2>15, <2>16, <2>17, <2>18, Zenon
  <2> QED
    BY <2>19 DEF W, A, TheWanted
<1>2. ASSUME CalendarInv, ~Authoritative(events) PROVE TheWanted = LoopWanted
  <2> DEFINE soonest == Soonest(TodaysFlights(ParsedFlights(events), now, Offset))
             n == Cardinality(soonest)
  <2>1. soonest = {}
    BY <1>2 DEF Soonest, TodaysFlights, ParsedFlights
  <2>2. n = 0
    BY <2>1, FS_EmptySet
  <2>3. Wanted(events, now, Offset) = [k \in 1..n |-> Sorted(soonest, Before)[k].designator]
    BY <1>2, WantedLists DEF CalendarInv
  <2> HIDE DEF n, soonest
  <2>4. Wanted(events, now, Offset) = <<>>
    BY <2>2, <2>3
  <2>5. LoopWanted = <<>>
    BY <1>2 DEF LoopWanted
  <2> QED
    BY <2>4, <2>5 DEF TheWanted
<1>3. CalendarInv => WantedIsTheLoop
  BY <1>1, <1>2 DEF WantedIsTheLoop
<1> QED
  BY <1>3, CalendarAlways, PTL
=============================================================================
