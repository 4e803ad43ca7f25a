------------------------- MODULE ReconcileCheckProofs -------------------------
(***************************************************************************)
(* What one write cycle makes of every calendar, wall and journal, for     *)
(* every cap and however long the lists: the closed form of the plan is    *)
(* what the code's two loops compute, no wanted number is lost, and no     *)
(* entry the journal does not own is lost, moved or repeated.              *)
(***************************************************************************)
EXTENDS ReconcileCheck, ReconcileProofs

OnWall == FlightNumbers(wall)

(* The inputs of a cycle are lists of the right kind, and the calendar asks
   for no number twice: the parser sees to that. *)
InputsOK ==
    /\ wanted \in Seq(Numbers) /\ IsInjective(wanted)
    /\ wall \in Seq(Entry)
    /\ owned \in SUBSET Numbers

LEMMA BoundedLists ==
  ASSUME NEW T, NEW n \in Nat, NEW s \in BoundedSeq(T, n)
  PROVE  s \in Seq(T)
BY SeqDef DEF BoundedSeq, SeqOf

(* What a plan desires is a list of numbers, and what is sent a list of
   entries with just these. *)
LEMMA SentProperties ==
  ASSUME InputsOK
  PROVE  /\ OnWall \in Seq(Numbers)
         /\ ThePlan.desired = Desired(wanted, OnWall, owned)
         /\ ThePlan.desired \in Seq(Numbers)
         /\ Sent \in Seq(Entry)
         /\ FlightNumbers(Sent) = ThePlan.desired
<1>1. OnWall \in Seq(Numbers)
  BY FlightNumbersType DEF InputsOK, OnWall
<1>2. ThePlan.desired = Desired(wanted, OnWall, owned)
  BY DEF ThePlan, Plan, OnWall
<1>3. ThePlan.desired \in Seq(Numbers)
  BY <1>1, <1>2, DesiredKeepsUnowned DEF InputsOK
<1>4. QED
  BY <1>1, <1>2, <1>3, FlightsForProperties DEF InputsOK, Sent

(* Every cycle starts from such inputs. *)
LEMMA InputsAlways == Spec => []InputsOK
<1>1. Init => InputsOK
  BY BoundsAssumption, BoundedLists DEF Init, InputsOK, DuplicateWanted
<1>2. InputsOK /\ [Next]_vars => InputsOK'
  <2> SUFFICES ASSUME InputsOK, [Next]_vars PROVE InputsOK'
    OBVIOUS
  <2>1. CASE Forget
    BY <2>1 DEF Forget, InputsOK
  <2>2. CASE Write
    <3>1. wall' \in Seq(Entry)
      BY <2>2, SentProperties DEF Write
    <3>2. owned' \in SUBSET Numbers
      BY <2>2, SentProperties, RangeOfSeq DEF Write, OwnedAfter, InputsOK
    <3>3. QED
      BY <2>2, <3>1, <3>2 DEF Write, InputsOK
  <2>3. CASE UNCHANGED vars
    BY <2>3 DEF vars, InputsOK
  <2>4. QED
    BY <2>1, <2>2, <2>3 DEF Next
<1>3. QED
  BY <1>1, <1>2, PTL DEF Spec

-----------------------------------------------------------------------------
(* Where the wanted numbers go. *)

(* A list without repeats cut in two: the parts share nothing and lose nothing. *)
LEMMA CutInTwo ==
  ASSUME NEW T, NEW s \in Seq(T), IsInjective(s), NEW m \in 0..Len(s)
  PROVE  LET front == SubSeq(s, 1, m)
             back  == SubSeq(s, m + 1, Len(s))
         IN  /\ front \in Seq(T) /\ Len(front) = m
             /\ back \in Seq(T) /\ Len(back) = Len(s) - m
             /\ Range(front) \cup Range(back) = Range(s)
             /\ Range(front) \cap Range(back) = {}
<1> DEFINE front == SubSeq(s, 1, m)
           back  == SubSeq(s, m + 1, Len(s))
<1>1. /\ Len(s) \in Nat /\ m \in Nat /\ m <= Len(s)
      /\ DOMAIN s = 1..Len(s)
      /\ \A i \in 1..Len(s) : s[i] \in T
  BY LenProperties, ElementOfSeq
<1>2. front \in Seq(T) /\ Len(front) = m /\ \A i \in 1..m : front[i] = s[i]
  BY <1>1, SubSeqProperties
<1>3. /\ back \in Seq(T) /\ Len(back) = Len(s) - m
      /\ \A i \in 1..(Len(s) - m) : back[i] = s[m + i]
  <2>1. m + 1 \in Int /\ Len(s) \in Int /\ \A i \in (m + 1)..Len(s) : s[i] \in T
    BY <1>1
  <2>2. /\ back \in Seq(T)
        /\ Len(back) = IF m + 1 <= Len(s) THEN Len(s) - (m + 1) + 1 ELSE 0
        /\ \A i \in 1..(Len(s) - (m + 1) + 1) : back[i] = s[(m + 1) + i - 1]
    BY <2>1, SubSeqProperties
  <2> HIDE DEF back
  <2>3. Len(back) = Len(s) - m
    <3> DEFINE n == Len(s)
               b == Len(back)
    <3>1. n \in Nat /\ m \in Nat /\ m <= n
      BY <1>1
    <3>2. b = IF m + 1 <= n THEN n - (m + 1) + 1 ELSE 0
      BY <2>2
    <3> HIDE DEF n, b
    <3>3. b = n - m
      BY <3>1, <3>2
    <3>4. QED
      BY <3>3 DEF n, b
  <2>4. ASSUME NEW i \in 1..(Len(s) - m) PROVE back[i] = s[m + i]
    <3>1. i \in 1..(Len(s) - (m + 1) + 1) /\ (m + 1) + i - 1 = m + i
      BY <1>1
    <3>2. QED
      BY <2>2, <3>1
  <2>5. QED
    BY <2>2, <2>3, <2>4
<1>4. Range(front) = {s[i] : i \in 1..m}
  <2> HIDE DEF front
  <2>1. Range(front) = {front[i] : i \in 1..m}
    BY <1>2, RangeEquality
  <2>2. QED
    BY <1>2, <2>1
<1>5. Range(back) = {s[i] : i \in (m + 1)..Len(s)}
  <2>1. Range(back) = {back[i] : i \in 1..(Len(s) - m)}
    BY <1>3, RangeEquality
  <2>2. ASSUME NEW i \in (m + 1)..Len(s) PROVE s[i] \in Range(back)
    <3>1. i - m \in 1..(Len(s) - m) /\ m + (i - m) = i
      BY <1>1
    <3>2. QED
      BY <1>3, <2>1, <3>1
  <2>3. ASSUME NEW i \in 1..(Len(s) - m) PROVE back[i] \in {s[j] : j \in (m + 1)..Len(s)}
    <3>1. m + i \in (m + 1)..Len(s)
      BY <1>1
    <3>2. QED
      BY <1>3, <3>1
  <2>4. QED
    BY <2>1, <2>2, <2>3
<1>6. \A i \in 1..m, j \in (m + 1)..Len(s) : s[i] # s[j]
  BY <1>1 DEF IsInjective
<1>7. 1..Len(s) = (1..m) \cup ((m + 1)..Len(s))
  BY <1>1
<1>8. Range(s) = {s[i] : i \in 1..Len(s)}
  BY RangeEquality
<1>9. QED
  <2> HIDE DEF front, back
  <2>1. Range(front) \cup Range(back) = Range(s)
    BY <1>4, <1>5, <1>7, <1>8
  <2>2. Range(front) \cap Range(back) = {}
    BY <1>4, <1>5, <1>6
  <2>3. QED
    BY <1>2, <1>3, <2>1, <2>2 DEF front, back

(* For every input, every wanted number is on the list to write or reported
   unplaceable, never both, and unplaceable only when the list is full. *)
LEMMA EveryWantedPlaced ==
  ASSUME InputsOK
  PROVE  WantedAccountedFor
<1> DEFINE new == Fresh(wanted, OnWall)
           fits == Fitting(wanted, OnWall, owned)
           staying == Staying(wanted, OnWall, owned)
           placed == SubSeq(new, 1, fits)
           left == SubSeq(new, fits + 1, Len(new))
<1>1. /\ ThePlan.desired = staying \o placed
      /\ ThePlan.additions = placed
      /\ ThePlan.unplaceable = left
  BY DEF ThePlan, Plan, Desired, Additions, OnWall
<1>2. OnWall \in Seq(Numbers) /\ wanted \in Seq(Numbers)
  BY SentProperties DEF InputsOK
<1>3. /\ new \in Seq(Numbers)
      /\ Range(new) = Range(wanted) \ Range(OnWall)
  BY <1>2, FreshProperties
<1>4. IsInjective(new)
  BY <1>2, KeptAtInjective DEF Fresh, Kept, InputsOK
<1>5. fits \in 0..Len(new)
  BY <1>2, FittingProperties
<1>6. /\ placed \in Seq(Numbers) /\ Len(placed) = fits
      /\ left \in Seq(Numbers) /\ Len(left) = Len(new) - fits
      /\ Range(placed) \cup Range(left) = Range(new)
      /\ Range(placed) \cap Range(left) = {}
  <2> HIDE DEF new, fits
  <2>1. QED
    BY <1>3, <1>4, <1>5, CutInTwo
<1>7. staying \in Seq(Numbers) /\ Len(staying) \in Nat
  BY <1>2, StayingProperties, LenProperties
<1>8. Range(staying) = Range(OnWall) \cap ((Range(OnWall) \ owned) \cup Range(wanted))
  BY <1>2, KeptProperties DEF Staying
<1>9. /\ Range(ThePlan.desired) = Range(staying) \cup Range(placed)
      /\ Len(ThePlan.desired) = Len(staying) + fits
  <2> HIDE DEF placed, staying, fits, left
  <2>1. Range(staying \o placed) = Range(staying) \cup Range(placed)
    BY <1>6, <1>7, RangeConcatenation
  <2>2. Len(staying \o placed) = Len(staying) + Len(placed)
    BY <1>6, <1>7, ConcatProperties
  <2>3. QED
    BY <1>1, <1>6, <2>1, <2>2
<1>10. Range(wanted) \subseteq Range(ThePlan.desired) \cup Range(ThePlan.unplaceable)
  <2> HIDE DEF placed, left, staying, new
  <2>1. QED
    BY <1>1, <1>3, <1>6, <1>8, <1>9
<1>11. Range(ThePlan.desired) \cap Range(ThePlan.unplaceable) = {}
  <2> HIDE DEF placed, left, staying, new
  <2>1. QED
    BY <1>1, <1>3, <1>6, <1>8, <1>9
<1>12. ThePlan.unplaceable # <<>> => Len(ThePlan.desired) >= Cap
  <2> SUFFICES ASSUME left # <<>> PROVE Len(ThePlan.desired) >= Cap
    BY <1>1
  <2>1. Len(new) \in Nat /\ fits < Len(new)
    <3> HIDE DEF left, new, fits
    <3>1. Len(left) # 0
      BY <1>6, EmptySeq
    <3>2. Len(new) \in Nat
      BY <1>3, LenProperties
    <3>3. QED
      BY <1>5, <1>6, <3>1, <3>2
  <2>2. fits = IF Len(staying) < Cap THEN Cap - Len(staying) ELSE 0
    BY <2>1, <1>7, CapAssumption DEF Fitting
  <2>3. QED
    <3> HIDE DEF staying, fits
    <3>1. QED
      BY <1>7, <1>9, <2>2, CapAssumption
<1>13. ThePlan.additions # <<>> => Len(ThePlan.desired) <= Cap
  BY <1>2, SentProperties, AdditionsFitUnderCap DEF ThePlan, Plan, OnWall
<1>14. QED
  BY <1>10, <1>11, <1>12, <1>13 DEF WantedAccountedFor

(* Every wanted number is accounted for exactly once, whatever is on the wall
   and in the journal: on the list to write, or reported unplaceable, and that
   only when the list is full. *)
THEOREM WantedAccountedForAlways == Spec => []WantedAccountedFor
<1>1. InputsOK => WantedAccountedFor
  BY EveryWantedPlaced
<1>2. QED
  BY <1>1, InputsAlways, PTL

-----------------------------------------------------------------------------
(* What a write leaves alone. *)

(* The list a plan desires holds what the journal does not own in wall order,
   and as often. *)
LEMMA DesiredKeepsOrder ==
  ASSUME NEW wants \in Seq(Numbers), NEW before \in Seq(Numbers), NEW owns
  PROVE  LET unowned == Range(before) \ owns
         IN  Kept(Desired(wants, before, owns), unowned) = Kept(before, unowned)
<1> DEFINE unowned == Range(before) \ owns
           staying == Staying(wants, before, owns)
           added == Additions(wants, before, owns)
<1>1. staying \in Seq(Numbers) /\ added \in Seq(Numbers)
  BY StayingProperties, AdditionsProperties
<1>2. Kept(staying \o added, unowned) = Kept(staying, unowned) \o Kept(added, unowned)
  <2> HIDE DEF staying, added, unowned
  <2>1. QED
    BY <1>1, KeptOfConcat, SMTT(30)
<1>3. Kept(staying, unowned) = Kept(before, unowned)
  <2>1. Kept(staying, unowned) = Kept(before, (unowned \cup Range(wants)) \cap unowned)
    BY KeptOfKept DEF Staying
  <2>2. (unowned \cup Range(wants)) \cap unowned = unowned
    OBVIOUS
  <2>3. QED
    BY <2>1, <2>2
<1>4. Kept(added, unowned) = <<>>
  <2>1. Range(added) \cap unowned = {}
    BY AdditionsProperties
  <2> HIDE DEF added, unowned
  <2>2. Kept(added, unowned) \in Seq(Numbers) /\ Range(Kept(added, unowned)) = {}
    BY <1>1, <2>1, KeptProperties
  <2>3. QED
    BY <2>2, NonEmptyHolds
<1>5. Kept(before, unowned) \in Seq(Numbers)
  BY KeptProperties
<1>6. QED
  BY <1>2, <1>3, <1>4, <1>5, ConcatEmptySeq DEF Desired

(* A write keeps every entry the journal does not own, in wall order and as
   the same number of copies; it never repeats a number the wall did not
   already repeat, and a list without repeats gets its unowned entries back as
   they were read. *)
THEOREM WriteKeepsUnownedAlways == Spec => WriteKeepsUnowned
<1> DEFINE after == FlightNumbers(wall')
           unowned == Range(OnWall) \ owned
           Kept1 == Kept(after, unowned) = Kept(OnWall, unowned)
           Kept2 == IsInjective(OnWall) => IsInjective(after)
           Kept3 == IsInjective(OnWall) =>
                       {wall[i] : i \in {j \in DOMAIN wall : wall[j].number \notin owned}}
                           \subseteq Range(wall')
<1>1. ASSUME InputsOK, Write PROVE Kept1 /\ Kept2 /\ Kept3
  <2>1. /\ OnWall \in Seq(Numbers) /\ wanted \in Seq(Numbers) /\ IsInjective(wanted)
        /\ wall \in Seq(Entry) /\ wall' = Sent
        /\ ThePlan.desired = Desired(wanted, OnWall, owned)
        /\ ThePlan.desired \in Seq(Numbers)
        /\ after = ThePlan.desired
    BY <1>1, SentProperties DEF Write, InputsOK
  <2>2. Kept1
    BY <2>1, DesiredKeepsOrder
  <2>3. Kept2
    BY <2>1, DesiredHasNoRepeats
  <2>4. ASSUME IsInjective(OnWall), NEW i \in DOMAIN wall, wall[i].number \notin owned
        PROVE  wall[i] \in Range(wall')
    <3>1. wall[i].number \in Range(ThePlan.desired)
      <4>1. Range(OnWall) \ owned \subseteq Range(ThePlan.desired)
        BY <2>1, DesiredKeepsUnowned
      <4>2. QED
        BY <2>4, <4>1 DEF OnWall, FlightNumbers, Range
    <3>2. QED
      BY <2>1, <2>4, <3>1, FlightsForKeeps DEF Distinct, OnWall, Sent
  <2>5. QED
    BY <2>2, <2>3, <2>4
<1>2. InputsOK /\ [Next]_vars =>
        [ Write =>
          LET before == FlightNumbers(wall)
              later  == FlightNumbers(wall')
          IN  /\ Kept(later, Range(before) \ owned) = Kept(before, Range(before) \ owned)
              /\ IsInjective(before) => IsInjective(later)
              /\ IsInjective(before) =>
                     {wall[i] : i \in {j \in DOMAIN wall : wall[j].number \notin owned}}
                         \subseteq Range(wall') ]_vars
  BY <1>1 DEF OnWall
<1>3. QED
  BY <1>2, InputsAlways, PTL DEF Spec, WriteKeepsUnowned

-----------------------------------------------------------------------------
(* The loops.  After its first k numbers each loop has made the closed form of
   a list cut there; so the closed form is a function that satisfies the
   loop's equation, and by counting up the loop is that function. *)

Stays == (Range(OnWall) \ owned) \cup Range(wanted)

(* What the first loop has made of a front of the wall. *)
SortedUpTo(front) ==
    [desired |-> Kept(front, Stays), manual |-> Kept(front, Range(OnWall) \ owned),
     removals |-> Kept(front, owned \ Range(wanted)),
     additions |-> <<>>, unplaceable |-> <<>>]

(* One more entry. *)
LEMMA SortOneMore ==
  ASSUME NEW front \in Seq(Numbers), NEW n \in Numbers, n \in Range(OnWall)
  PROVE  Sort(SortedUpTo(front), n) = SortedUpTo(Append(front, n))
<1>1. \A S : Kept(Append(front, n), S)
             = IF n \in S THEN Append(Kept(front, S), n) ELSE Kept(front, S)
  BY KeptOfAppend
<1>2. CASE n \notin owned
  <2>1. n \in Stays /\ n \in Range(OnWall) \ owned /\ n \notin owned \ Range(wanted)
    BY <1>2 DEF Stays
  <2>2. QED
    BY <1>1, <1>2, <2>1 DEF Sort, SortedUpTo
<1>3. CASE n \in owned /\ n \in Range(wanted)
  <2>1. n \in Stays /\ n \notin Range(OnWall) \ owned /\ n \notin owned \ Range(wanted)
    BY <1>3 DEF Stays
  <2>2. QED
    BY <1>1, <1>3, <2>1 DEF Sort, SortedUpTo
<1>4. CASE n \in owned /\ n \notin Range(wanted)
  <2>1. n \notin Stays /\ n \notin Range(OnWall) \ owned /\ n \in owned \ Range(wanted)
    BY <1>4 DEF Stays
  <2>2. QED
    BY <1>1, <1>4, <2>1 DEF Sort, SortedUpTo
<1>5. QED
  BY <1>2, <1>3, <1>4

(* The front of a list, one longer. *)
LEMMA LongerFront ==
  ASSUME NEW T, NEW s \in Seq(T), NEW k \in 1..Len(s)
  PROVE  /\ SubSeq(s, 1, k - 1) \in Seq(T) /\ s[k] \in T /\ s[k] \in Range(s)
         /\ SubSeq(s, 1, k) = Append(SubSeq(s, 1, k - 1), s[k])
<1>1. /\ Len(s) \in Nat /\ DOMAIN s = 1..Len(s)
      /\ \A i \in 1..Len(s) : s[i] \in T
  BY LenProperties, ElementOfSeq
<1>2. SubSeq(s, 1, k - 1) \in Seq(T)
  <2>1. 1 \in Int /\ k - 1 \in Int /\ \A i \in 1..(k - 1) : s[i] \in T
    BY <1>1
  <2>2. QED
    BY <2>1, SubSeqProperties
<1>3. s[k] \in T /\ s[k] \in Range(s)
  BY <1>1 DEF Range
<1>4. SubSeq(s, 1, k) = SubSeq(s, 1, k - 1) \o <<s[k]>>
  <2>1. 1 \in 1..Len(s) /\ k \in 1..Len(s)
    BY <1>1
  <2>2. QED
    BY <2>1, SubSeqRecursiveSecond
<1>5. QED
  BY <1>2, <1>3, <1>4, AppendIsConcat

(* The first loop. *)
LEMMA SortedLoopClosed ==
  ASSUME InputsOK
  PROVE  SortedLoop = SortedUpTo(OnWall)
<1> DEFINE n == Len(OnWall)
           Loop(f) == [k \in 0..n |-> IF k = 0 THEN Nothing ELSE Sort(f[k - 1], OnWall[k])]
           closed == [k \in 0..n |-> SortedUpTo(SubSeq(OnWall, 1, k))]
           loop == CHOOSE f : f = Loop(f)
<1>1. OnWall \in Seq(Numbers) /\ n \in Nat
  BY SentProperties, LenProperties
<1>2. SortedUpTo(SubSeq(OnWall, 1, 0)) = Nothing
  <2>1. SubSeq(OnWall, 1, 0) = <<>>
    BY SubSeqEmpty
  <2>2. QED
    BY <2>1, KeptOfEmpty DEF SortedUpTo, Nothing
<1>3. ASSUME NEW k \in 1..n
      PROVE  Sort(SortedUpTo(SubSeq(OnWall, 1, k - 1)), OnWall[k]) = SortedUpTo(SubSeq(OnWall, 1, k))
  <2> DEFINE front == SubSeq(OnWall, 1, k - 1)
  <2>1. /\ front \in Seq(Numbers) /\ OnWall[k] \in Numbers /\ OnWall[k] \in Range(OnWall)
        /\ SubSeq(OnWall, 1, k) = Append(front, OnWall[k])
    BY <1>1, LongerFront
  <2> HIDE DEF front
  <2>2. Sort(SortedUpTo(front), OnWall[k]) = SortedUpTo(Append(front, OnWall[k]))
    BY <2>1, SortOneMore
  <2>3. QED
    BY <2>1, <2>2 DEF front
<1>4. closed = Loop(closed)
  <2>1. ASSUME NEW k \in 0..n
        PROVE  closed[k] = IF k = 0 THEN Nothing ELSE Sort(closed[k - 1], OnWall[k])
    <3>1. CASE k = 0
      BY <1>2, <3>1
    <3>2. CASE k # 0
      <4>1. k \in 1..n /\ k - 1 \in 0..n
        BY <1>1, <3>2
      <4>2. QED
        BY <1>3, <3>2, <4>1
    <3>3. QED
      BY <3>1, <3>2
  <2>2. QED
    BY <2>1
<1>5. loop = Loop(loop)
  <2> HIDE DEF closed, Loop
  <2>1. QED
    BY <1>4
<1>6. \A k \in 0..n : loop[k] = closed[k]
  <2> DEFINE E == {k \in Nat : k <= n => loop[k] = closed[k]}
  <2> HIDE DEF loop
  <2>1. 0 \in E
    BY <1>1, <1>2, <1>5
  <2>2. ASSUME NEW k \in Nat, k \in E PROVE k + 1 \in E
    <3> SUFFICES ASSUME k + 1 <= n PROVE loop[k + 1] = closed[k + 1]
      BY <2>2
    <3>1. k \in 0..n /\ k + 1 \in 0..n /\ k + 1 # 0 /\ (k + 1) - 1 = k
      BY <1>1
    <3>2. loop[k] = closed[k]
      BY <2>2, <3>1
    <3>3. loop[k + 1] = Sort(loop[k], OnWall[k + 1])
      <4> HIDE DEF closed
      <4>1. QED
        BY <1>5, <3>1
    <3>4. closed[k + 1] = Sort(closed[k], OnWall[k + 1])
      BY <1>4, <3>1
    <3>5. QED
      BY <3>2, <3>3, <3>4
  <2>3. Nat \subseteq E
    <3> HIDE DEF E
    <3>1. QED
      BY <2>1, <2>2, CountingUp
  <2> HIDE DEF closed
  <2>4. QED
    BY <1>1, <2>3
<1>7. SortedLoop = loop[n]
  BY DEF SortedLoop, OnWall
<1>8. SubSeq(OnWall, 1, n) = OnWall
  BY <1>1, SubSeqFull
<1>9. n \in 0..n
  BY <1>1
<1>10. loop[n] = SortedUpTo(OnWall)
  <2> HIDE DEF loop
  <2>1. QED
    BY <1>6, <1>8, <1>9
<1>11. QED
  BY <1>7, <1>10

(* Cutting a list that has grown by one. *)
LEMMA CutOfLonger ==
  ASSUME NEW T, NEW s \in Seq(T), NEW x \in T, NEW m \in 0..Len(s)
  PROVE  /\ SubSeq(Append(s, x), 1, m) = SubSeq(s, 1, m)
         /\ SubSeq(Append(s, x), m + 1, Len(s) + 1) = Append(SubSeq(s, m + 1, Len(s)), x)
         /\ SubSeq(Append(s, x), 1, Len(s) + 1) = Append(s, x)
         /\ SubSeq(Append(s, x), Len(s) + 2, Len(s) + 1) = <<>>
<1> DEFINE t == Append(s, x)
           n == Len(s)
<1>1. /\ n \in Nat /\ m \in Nat /\ m <= n
      /\ \A i \in 1..n : s[i] \in T
      /\ t \in Seq(T) /\ Len(t) = n + 1
      /\ \A i \in 1..n : t[i] = s[i]
      /\ t[n + 1] = x
  BY LenProperties, ElementOfSeq, AppendProperties
<1>2. SubSeq(t, 1, m) = SubSeq(s, 1, m)
  <2> HIDE DEF t, n
  <2>1. \A i \in 1..m : s[i] \in T /\ t[i] \in T
    BY <1>1
  <2>2. /\ SubSeq(s, 1, m) \in Seq(T) /\ Len(SubSeq(s, 1, m)) = m
        /\ \A i \in 1..m : SubSeq(s, 1, m)[i] = s[i]
    BY <1>1, <2>1, SubSeqProperties
  <2>3. /\ SubSeq(t, 1, m) \in Seq(T) /\ Len(SubSeq(t, 1, m)) = m
        /\ \A i \in 1..m : SubSeq(t, 1, m)[i] = t[i]
    BY <1>1, <2>1, SubSeqProperties
  <2>4. \A i \in 1..m : SubSeq(t, 1, m)[i] = SubSeq(s, 1, m)[i]
    BY <1>1, <2>2, <2>3
  <2>5. QED
    BY <2>2, <2>3, <2>4, SeqEqual
<1>3. SubSeq(t, m + 1, n + 1) = Append(SubSeq(s, m + 1, n), x)
  <2> HIDE DEF t, n
  <2>1. SubSeq(t, m + 1, n + 1) = SubSeq(t, m + 1, n) \o <<t[n + 1]>>
    <3>1. m + 1 \in 1..Len(t) /\ n + 1 \in (m + 1)..Len(t) /\ (n + 1) - 1 = n
      BY <1>1
    <3>2. QED
      BY <1>1, <3>1, SubSeqRecursiveSecond
  <2>2. \A i \in (m + 1)..n : s[i] \in T /\ t[i] \in T /\ t[i] = s[i]
    BY <1>1
  <2> DEFINE a == SubSeq(s, m + 1, n)
             b == SubSeq(t, m + 1, n)
  <2>3. /\ a \in Seq(T) /\ Len(a) = IF m + 1 <= n THEN n - (m + 1) + 1 ELSE 0
        /\ \A i \in 1..(n - (m + 1) + 1) : a[i] = s[(m + 1) + i - 1]
    BY <1>1, <2>2, SubSeqProperties
  <2>4. /\ b \in Seq(T) /\ Len(b) = IF m + 1 <= n THEN n - (m + 1) + 1 ELSE 0
        /\ \A i \in 1..(n - (m + 1) + 1) : b[i] = t[(m + 1) + i - 1]
    BY <1>1, <2>2, SubSeqProperties
  <2> HIDE DEF a, b
  <2>5. ASSUME NEW i \in 1..Len(b) PROVE b[i] = a[i]
    <3>1. i \in 1..(n - (m + 1) + 1) /\ (m + 1) + i - 1 \in (m + 1)..n
      BY <1>1, <2>4
    <3>2. QED
      BY <2>2, <2>3, <2>4, <3>1
  <2>6. b = a
    BY <2>3, <2>4, <2>5, SeqEqual
  <2>7. a \o <<x>> = Append(a, x)
    BY <2>3, AppendIsConcat
  <2>8. QED
    BY <1>1, <2>1, <2>6, <2>7 DEF a, b
<1>4. SubSeq(t, 1, n + 1) = t
  BY <1>1, SubSeqFull
<1>5. SubSeq(t, n + 2, n + 1) = <<>>
  <2>1. n + 2 \in Int /\ n + 1 \in Int /\ n + 1 < n + 2
    BY <1>1
  <2>2. QED
    BY <2>1, SubSeqEmpty
<1>6. QED
  BY <1>2, <1>3, <1>4, <1>5

Unmet == Range(wanted) \ Range(OnWall)

Least(m, n) == IF m < n THEN m ELSE n

Room ==
    LET taken == Len(Kept(OnWall, Stays))
    IN  IF taken < Cap THEN Cap - taken ELSE 0

(* What the second loop has made of a front of the wanted list whose unmet
   numbers are `new`. *)
PlacedOf(new) ==
    LET fits == Least(Len(new), Room)
    IN  [desired |-> Kept(OnWall, Stays) \o SubSeq(new, 1, fits),
         manual |-> Kept(OnWall, Range(OnWall) \ owned),
         removals |-> Kept(OnWall, owned \ Range(wanted)),
         additions |-> SubSeq(new, 1, fits),
         unplaceable |-> SubSeq(new, fits + 1, Len(new))]

PlacedUpTo(front) == PlacedOf(Kept(front, Unmet))

(* A number the wall has is passed over. *)
LEMMA PlaceMet ==
  ASSUME NEW front \in Seq(Numbers), NEW n \in Numbers, n \in Range(OnWall)
  PROVE  Place(PlacedUpTo(front), n) = PlacedUpTo(Append(front, n))
<1>1. Kept(Append(front, n), Unmet) = Kept(front, Unmet)
  BY KeptOfAppend DEF Unmet
<1>2. QED
  BY <1>1 DEF Place, PlacedUpTo, OnWall

(* One it lacks goes on the list while there is room, and else is unplaceable. *)
LEMMA PlaceUnmet ==
  ASSUME InputsOK, NEW new \in Seq(Numbers), NEW n \in Numbers, n \notin Range(OnWall)
  PROVE  Place(PlacedOf(new), n) = PlacedOf(Append(new, n))
<1> DEFINE staying == Kept(OnWall, Stays)
           fits == Least(Len(new), Room)
           longer == Append(new, n)
           added == SubSeq(new, 1, fits)
<1>1. staying \in Seq(Numbers) /\ Len(staying) \in Nat
  BY SentProperties, KeptProperties, LenProperties
<1>2. /\ Len(new) \in Nat
      /\ longer \in Seq(Numbers) /\ Len(longer) = Len(new) + 1
  BY LenProperties, AppendProperties
<1>3. Room = IF Len(staying) < Cap THEN Cap - Len(staying) ELSE 0
  BY DEF Room
<1>4. Room \in Nat
  <2> HIDE DEF staying
  <2>1. QED
    BY <1>1, <1>3, CapAssumption
<1>5. fits \in 0..Len(new) /\ fits <= Room
  BY <1>2, <1>4 DEF Least
<1>6. added \in Seq(Numbers) /\ Len(added) = fits
  <2>1. /\ 1 \in Int /\ fits \in Int /\ fits \in Nat
        /\ \A i \in 1..fits : new[i] \in Numbers
    <3> HIDE DEF fits
    <3>1. fits \in Nat /\ \A i \in 1..fits : i \in 1..Len(new)
      BY <1>2, <1>5
    <3>2. QED
      BY <3>1, ElementOfSeq
  <2> HIDE DEF fits
  <2>2. QED
    BY <2>1, SubSeqProperties
<1>7. /\ SubSeq(longer, 1, fits) = added
      /\ SubSeq(longer, fits + 1, Len(new) + 1) = Append(SubSeq(new, fits + 1, Len(new)), n)
      /\ SubSeq(longer, 1, Len(new) + 1) = longer
      /\ SubSeq(longer, Len(new) + 2, Len(new) + 1) = <<>>
  <2> HIDE DEF fits
  <2>1. QED
    BY <1>5, CutOfLonger
<1>8. Len(staying \o added) = Len(staying) + fits
  <2> HIDE DEF staying, added
  <2>1. QED
    BY <1>1, <1>6, ConcatProperties
<1>9. CASE fits < Room
  <2>1. fits = Len(new) /\ Least(Len(longer), Room) = Len(new) + 1
    BY <1>2, <1>4, <1>9 DEF Least
  <2>2. Len(staying \o added) < Cap
    <3> HIDE DEF staying, fits, added
    <3>1. QED
      BY <1>1, <1>3, <1>5, <1>8, <1>9, CapAssumption
  <2>3. added = new
    BY <2>1, SubSeqFull
  <2>4. staying \o Append(added, n) = Append(staying \o added, n)
    <3> HIDE DEF staying, added
    <3>1. <<n>> \in Seq(Numbers) /\ staying \o added \in Seq(Numbers)
      BY <1>1, <1>6, ConcatProperties
    <3>2. QED
      BY <1>1, <1>6, <3>1, AppendIsConcat, ConcatAssociative
  <2>5. SubSeq(new, fits + 1, Len(new)) = <<>>
    BY <1>2, <2>1, SubSeqEmpty
  <2>6. Place(PlacedOf(new), n) = [PlacedOf(new) EXCEPT !.desired = Append(@, n), !.additions = Append(@, n)]
    <3>1. PlacedOf(new).desired = staying \o added
      BY DEF PlacedOf
    <3>2. QED
      BY <2>2, <3>1 DEF Place, OnWall
  <2>7. PlacedOf(longer).desired = Append(staying \o added, n)
    BY <1>2, <1>7, <2>1, <2>3, <2>4 DEF PlacedOf
  <2>8. /\ PlacedOf(longer).additions = Append(added, n)
        /\ PlacedOf(longer).unplaceable = <<>>
    BY <1>2, <1>7, <2>1, <2>3 DEF PlacedOf
  <2>9. QED
    BY <2>5, <2>6, <2>7, <2>8 DEF PlacedOf
<1>10. CASE ~(fits < Room)
  <2>1. fits = Room /\ Least(Len(longer), Room) = fits
    BY <1>2, <1>4, <1>5, <1>10 DEF Least
  <2>2. ~(Len(staying \o added) < Cap)
    <3> HIDE DEF staying, fits, added
    <3>1. QED
      BY <1>1, <1>3, <1>8, <2>1, CapAssumption
  <2>3. Place(PlacedOf(new), n) = [PlacedOf(new) EXCEPT !.unplaceable = Append(@, n)]
    <3>1. PlacedOf(new).desired = staying \o added
      BY DEF PlacedOf
    <3>2. QED
      BY <2>2, <3>1 DEF Place, OnWall
  <2>4. QED
    BY <1>2, <1>7, <2>1, <2>3 DEF PlacedOf
<1>11. QED
  BY <1>9, <1>10

(* The second loop. *)
LEMMA LoopPlanClosed ==
  ASSUME InputsOK
  PROVE  LoopPlan = PlacedUpTo(wanted)
<1> DEFINE n == Len(wanted)
           Loop(f) == [k \in 0..n |-> IF k = 0 THEN SortedLoop ELSE Place(f[k - 1], wanted[k])]
           closed == [k \in 0..n |-> PlacedUpTo(SubSeq(wanted, 1, k))]
           loop == CHOOSE f : f = Loop(f)
<1>1. wanted \in Seq(Numbers) /\ n \in Nat
  BY LenProperties DEF InputsOK
<1>2. PlacedUpTo(SubSeq(wanted, 1, 0)) = SortedLoop
  <2>1. Kept(SubSeq(wanted, 1, 0), Unmet) = <<>>
    <3>1. SubSeq(wanted, 1, 0) = <<>>
      BY SubSeqEmpty
    <3>2. QED
      BY <3>1, KeptOfEmpty
  <2>2. \A m \in Nat : SubSeq(<<>>, 1, Least(0, m)) = <<>> /\ SubSeq(<<>>, Least(0, m) + 1, 0) = <<>>
    BY SubSeqEmpty DEF Least
  <2>3. Room \in Nat
    <3>1. Len(Kept(OnWall, Stays)) \in Nat
      BY SentProperties, KeptProperties, LenProperties
    <3>2. QED
      BY <3>1, CapAssumption DEF Room
  <2>4. Kept(OnWall, Stays) \o <<>> = Kept(OnWall, Stays)
    BY SentProperties, KeptProperties, ConcatEmptySeq
  <2>5. PlacedOf(<<>>) = SortedUpTo(OnWall)
    BY <2>2, <2>3, <2>4, EmptySeq DEF PlacedOf, SortedUpTo
  <2>6. QED
    BY <2>1, <2>5, SortedLoopClosed DEF PlacedUpTo
<1>3. ASSUME NEW k \in 1..n
      PROVE  Place(PlacedUpTo(SubSeq(wanted, 1, k - 1)), wanted[k]) = PlacedUpTo(SubSeq(wanted, 1, k))
  <2> DEFINE front == SubSeq(wanted, 1, k - 1)
  <2>1. /\ front \in Seq(Numbers) /\ wanted[k] \in Numbers /\ wanted[k] \in Range(wanted)
        /\ SubSeq(wanted, 1, k) = Append(front, wanted[k])
    BY <1>1, LongerFront
  <2> HIDE DEF front
  <2>2. CASE wanted[k] \in Range(OnWall)
    <3>1. Place(PlacedUpTo(front), wanted[k]) = PlacedUpTo(Append(front, wanted[k]))
      BY <2>1, <2>2, PlaceMet
    <3>2. QED
      BY <2>1, <3>1 DEF front
  <2>3. CASE wanted[k] \notin Range(OnWall)
    <3>1. Kept(Append(front, wanted[k]), Unmet) = Append(Kept(front, Unmet), wanted[k])
      <4>1. wanted[k] \in Unmet
        BY <2>1, <2>3 DEF Unmet
      <4>2. QED
        BY <2>1, <4>1, KeptOfAppend
    <3>2. Kept(front, Unmet) \in Seq(Numbers)
      BY <2>1, KeptProperties
    <3>3. Place(PlacedOf(Kept(front, Unmet)), wanted[k]) = PlacedOf(Append(Kept(front, Unmet), wanted[k]))
      BY <2>1, <2>3, <3>2, PlaceUnmet
    <3>4. QED
      BY <2>1, <3>1, <3>3 DEF front, PlacedUpTo
  <2>4. QED
    BY <2>2, <2>3
<1>4. closed = Loop(closed)
  <2>1. ASSUME NEW k \in 0..n
        PROVE  closed[k] = IF k = 0 THEN SortedLoop ELSE Place(closed[k - 1], wanted[k])
    <3>1. CASE k = 0
      BY <1>2, <3>1
    <3>2. CASE k # 0
      <4>1. k \in 1..n /\ k - 1 \in 0..n
        BY <1>1, <3>2
      <4>2. QED
        BY <1>3, <3>2, <4>1
    <3>3. QED
      BY <3>1, <3>2
  <2>2. QED
    BY <2>1
<1>5. loop = Loop(loop)
  <2> HIDE DEF closed, Loop
  <2>1. QED
    BY <1>4
<1>6. \A k \in 0..n : loop[k] = closed[k]
  <2> DEFINE E == {k \in Nat : k <= n => loop[k] = closed[k]}
  <2> HIDE DEF loop
  <2>1. 0 \in E
    BY <1>1, <1>2, <1>5
  <2>2. ASSUME NEW k \in Nat, k \in E PROVE k + 1 \in E
    <3> SUFFICES ASSUME k + 1 <= n PROVE loop[k + 1] = closed[k + 1]
      BY <2>2
    <3>1. k \in 0..n /\ k + 1 \in 0..n /\ k + 1 # 0 /\ (k + 1) - 1 = k
      BY <1>1
    <3>2. loop[k] = closed[k]
      BY <2>2, <3>1
    <3>3. loop[k + 1] = Place(loop[k], wanted[k + 1])
      <4> HIDE DEF closed
      <4>1. QED
        BY <1>5, <3>1
    <3>4. closed[k + 1] = Place(closed[k], wanted[k + 1])
      BY <1>4, <3>1
    <3>5. QED
      BY <3>2, <3>3, <3>4
  <2>3. Nat \subseteq E
    <3> HIDE DEF E
    <3>1. QED
      BY <2>1, <2>2, CountingUp
  <2> HIDE DEF closed
  <2>4. QED
    BY <1>1, <2>3
<1>7. LoopPlan = loop[n]
  BY DEF LoopPlan
<1>8. SubSeq(wanted, 1, n) = wanted
  BY <1>1, SubSeqFull
<1>9. n \in 0..n
  BY <1>1
<1>10. loop[n] = PlacedUpTo(wanted)
  <2> HIDE DEF loop
  <2>1. QED
    BY <1>6, <1>8, <1>9
<1>11. QED
  BY <1>7, <1>10

(* The closed form of the plan, which every other proof reasons about, is what
   the two loops of plan_with_cap compute, field by field: for every wall, also
   one that repeats numbers, every calendar, journal and cap. *)
THEOREM PlanIsTheLoopAlways == Spec => []PlanIsTheLoop
<1>1. ASSUME InputsOK PROVE PlanIsTheLoop
  <2> DEFINE new == Fresh(wanted, OnWall)
  <2>1. /\ new = Kept(wanted, Unmet)
        /\ Staying(wanted, OnWall, owned) = Kept(OnWall, Stays)
    BY DEF Fresh, Unmet, Staying, Stays
  <2>2. Fitting(wanted, OnWall, owned) = Least(Len(new), Room)
    BY <2>1 DEF Fitting, Room, Least
  <2>3. LoopPlan = PlacedOf(new)
    BY <1>1, <2>1, LoopPlanClosed DEF PlacedUpTo
  <2> HIDE DEF new
  <2>4. /\ LoopPlan.desired = Kept(OnWall, Stays) \o SubSeq(new, 1, Least(Len(new), Room))
        /\ LoopPlan.manual = Kept(OnWall, Range(OnWall) \ owned)
        /\ LoopPlan.removals = Kept(OnWall, owned \ Range(wanted))
        /\ LoopPlan.additions = SubSeq(new, 1, Least(Len(new), Room))
        /\ LoopPlan.unplaceable = SubSeq(new, Least(Len(new), Room) + 1, Len(new))
    BY <2>3 DEF PlacedOf
  <2>5. /\ ThePlan.desired = Kept(OnWall, Stays) \o SubSeq(new, 1, Least(Len(new), Room))
        /\ ThePlan.manual = Kept(OnWall, Range(OnWall) \ owned)
        /\ ThePlan.removals = Kept(OnWall, owned \ Range(wanted))
        /\ ThePlan.additions = SubSeq(new, 1, Least(Len(new), Room))
        /\ ThePlan.unplaceable = SubSeq(new, Least(Len(new), Room) + 1, Len(new))
    BY <2>1, <2>2 DEF ThePlan, Plan, Desired, Additions, OnWall, new
  <2>6. QED
    BY <2>4, <2>5 DEF PlanIsTheLoop
<1>2. QED
  BY <1>1, InputsAlways, PTL
=============================================================================
