------------------------ MODULE CalendarGatewayProofs ------------------------
(***************************************************************************)
(* The cached token's times, for every margin, timeout and lifetime within *)
(* TimesAssumption, whatever the pages hold and however slow the requests; *)
(* and what a read returns, for every set of pages and every limit.        *)
(***************************************************************************)
EXTENDS CalendarGateway, FiniteSetTheorems, SequenceTheorems, WellFoundedInduction, TLAPS

(* The cache never takes a token for longer-lived than it is, and one that is
   sent outlives what is left of its request. *)
TimesInv ==
    /\ cache = [held |-> cache.held, believed |-> cache.believed,
                real |-> cache.real, revoked |-> cache.revoked]
    /\ cache.believed \in Nat /\ cache.real \in Nat
    /\ cache.believed <= cache.real
    /\ age \in 0..Timeout
    /\ request = "list" => cache.real > Timeout - age

LEMMA LessIsPredecessor ==
    ASSUME NEW n \in Nat
    PROVE  /\ Less(n) \in Nat
           /\ Less(n) >= n - 1
           /\ \A m \in Nat : m <= n => Less(m) <= Less(n)
BY DEF Less

LEMMA TimesInit == GatewayInit => TimesInv
BY TimesAssumption DEF GatewayInit, TimesInv, NoToken

(* A token goes out with the margin's time left, and the margin is no less
   than the timeout. *)
LEMMA StartPageKeepsTimes == TimesInv /\ StartPage => TimesInv'
BY TimesAssumption DEF TimesInv, StartPage, Usable

(* A fetched token is good for a request: what the fetch took is at most one
   timeout of a life of more than two. *)
LEMMA FetchKeepsTimes == TimesInv /\ FetchAnswered => TimesInv'
<1> SUFFICES ASSUME TimesInv, FetchAnswered PROVE TimesInv'
  OBVIOUS
<1>1. PICK life \in Lifetimes, transit \in 0..age : cache' = Granted(life, transit)
  BY DEF FetchAnswered
<1>2. /\ life \in Nat /\ life > 2 * Timeout
      /\ Timeout \in Nat /\ age \in 0..Timeout /\ transit \in 0..age
  BY <1>1, TimesAssumption DEF TimesInv
<1>3. /\ cache' = [held |-> cache'.held, believed |-> cache'.believed,
                   real |-> cache'.real, revoked |-> cache'.revoked]
      /\ cache'.believed = life - age /\ cache'.real = life - transit
  BY <1>1, <1>2 DEF Granted
<1>4. age' = 0
  BY DEF FetchAnswered
<1> QED
  BY <1>2, <1>3, <1>4 DEF TimesInv

LEMMA TickKeepsTimes == TimesInv /\ Tick => TimesInv'
<1> SUFFICES ASSUME TimesInv, Tick PROVE TimesInv'
  OBVIOUS
<1>1. /\ cache' = [cache EXCEPT !.believed = Less(@), !.real = Less(@)]
      /\ request' = request
  BY DEF Tick
<1>2. cache' = [held |-> cache.held, believed |-> Less(cache.believed),
                real |-> Less(cache.real), revoked |-> cache.revoked]
  BY <1>1 DEF TimesInv
<1>3. /\ cache'.believed \in Nat /\ cache'.real \in Nat
      /\ cache'.believed <= cache'.real
      /\ cache'.real >= cache.real - 1
  BY <1>2, LessIsPredecessor DEF TimesInv
<1>4. /\ age' \in 0..Timeout
      /\ request = "list" => age' = age + 1
  BY TimesAssumption DEF Tick, TimesInv
<1>5. request' = "list" => cache'.real > Timeout - age'
  BY <1>1, <1>3, <1>4, TimesAssumption DEF TimesInv
<1> QED
  BY <1>2, <1>3, <1>4, <1>5 DEF TimesInv

(* Nothing else touches the times; a page's end leaves no token under way. *)
LEMMA OthersKeepTimes ==
    TimesInv /\ (FetchFails \/ ListAnswered \/ ListFails \/ NoPagesLeft \/ NextRead \/ Revoke)
        => TimesInv'
<1> SUFFICES ASSUME TimesInv,
                    FetchFails \/ ListAnswered \/ ListFails \/ NoPagesLeft \/ NextRead \/ Revoke
             PROVE  TimesInv'
  OBVIOUS
<1>1. CASE FetchFails \/ ListAnswered \/ ListFails
  BY <1>1 DEF TimesInv, FetchFails, ListAnswered, ListFails
<1>2. CASE NoPagesLeft \/ NextRead
  BY <1>2 DEF TimesInv, NoPagesLeft, NextRead, gatewayVars
<1>3. CASE Revoke
  <2>1. cache' = [held |-> cache.held, believed |-> cache.believed,
                  real |-> cache.real, revoked |-> TRUE]
    BY <1>3 DEF Revoke, TimesInv
  <2>2. request' = request /\ age' = age
    BY <1>3 DEF Revoke
  <2> QED
    BY <2>1, <2>2 DEF TimesInv
<1> QED
  BY <1>1, <1>2, <1>3

(* A token that is sent does not expire before the answer, for every life
   Google grants, however slow the fetch before it and the request were: the
   refresh margin is no less than the clients' timeout. *)
THEOREM TokenOutlivesRequestAlways == GatewaySpec => []TokenOutlivesRequest
<1>1. TimesInv => TokenOutlivesRequest
  BY TimesAssumption DEF TimesInv, TokenOutlivesRequest
<1>2. ASSUME TimesInv, [GatewayNext]_allVars PROVE TimesInv'
  <2>1. CASE UNCHANGED allVars
    BY <1>2, <2>1 DEF TimesInv, allVars, gatewayVars
  <2> QED
    BY <1>2, <2>1, StartPageKeepsTimes, FetchKeepsTimes, TickKeepsTimes, OthersKeepTimes
       DEF GatewayNext, Reading
<1> QED
  BY <1>1, <1>2, TimesInit, PTL DEF GatewaySpec
-----------------------------------------------------------------------------
(* One page's events, one after another. *)

(* A set that holds 0 and with each number the next holds them all. *)
LEMMA CountingUp ==
  ASSUME NEW E, 0 \in E, \A n \in Nat : n \in E => n + 1 \in E
  PROVE  Nat \subseteq E
<1> DEFINE rest == Nat \ E
<1>1. SUFFICES ASSUME rest # {} PROVE FALSE
  OBVIOUS
<1>2. PICK least \in rest : \A m \in rest : ~ (<<m, least>> \in OpToRel(<, Nat))
  BY <1>1, WFMin, NatLessThanWellFounded
<1>3. least - 1 \in Nat /\ least - 1 \notin rest
  <2>1. least # 0 /\ least \in Nat
    OBVIOUS
  <2>2. least - 1 \in Nat /\ least - 1 < least
    BY <2>1
  <2>3. <<least - 1, least>> \in OpToRel(<, Nat)
    BY <2>1, <2>2 DEF OpToRel
  <2> QED
    BY <1>2, <2>2, <2>3
<1>4. least = (least - 1) + 1
  OBVIOUS
<1> QED
  BY <1>3, <1>4

(* Events, each id once. *)
OncePerId(es) ==
    /\ es \in Seq(Event)
    /\ \A i, j \in DOMAIN es : es[i].id = es[j].id => i = j

(* Why the events seen may not all be held: one is malformed, two disagree, or
   there are more than the limit. *)
Refused(es, seen) ==
    \/ \E e \in seen : ~WellFormed(e)
    \/ \E e, f \in seen : e.id = f.id /\ e # f
    \/ Len(es) > MaxEvents

(* What the accumulator holds after `seen`: all of it, or a reason why not. *)
Sound(acc, seen) ==
    /\ acc \in [ok : BOOLEAN, events : Seq(Event)]
    /\ OncePerId(acc.events)
    /\ Range(acc.events) \subseteq seen
    /\ acc.ok => Range(acc.events) = seen
    /\ ~acc.ok => Refused(acc.events, seen)

(* A list with one more element holds that element too. *)
LEMMA RangeOfAppend ==
  ASSUME NEW S, NEW es \in Seq(S), NEW e
  PROVE  /\ Range(Append(es, e)) = Range(es) \cup {e}
         /\ DOMAIN Append(es, e) = 1..(Len(es) + 1)
         /\ \A i \in DOMAIN es : Append(es, e)[i] = es[i]
         /\ Append(es, e)[Len(es) + 1] = e
<1>1. /\ DOMAIN Append(es, e) = 1..(Len(es) + 1)
      /\ DOMAIN es = 1..Len(es)
      /\ Len(es) \in Nat
      /\ \A i \in DOMAIN es : Append(es, e)[i] = es[i]
      /\ Append(es, e)[Len(es) + 1] = e
  OBVIOUS
<1>2. DOMAIN Append(es, e) = DOMAIN es \cup {Len(es) + 1}
  BY <1>1
<1>3. Range(Append(es, e)) = Range(es) \cup {e}
  <2> DEFINE longer == Append(es, e)
  <2>1. \A x \in Range(es) : x \in Range(longer)
    BY <1>1, <1>2 DEF Range
  <2>2. e \in Range(longer)
    BY <1>1, <1>2 DEF Range
  <2>3. ASSUME NEW i \in DOMAIN longer PROVE longer[i] \in Range(es) \cup {e}
    <3>1. CASE i \in DOMAIN es
      BY <1>1, <3>1 DEF Range
    <3>2. CASE i = Len(es) + 1
      BY <1>1, <3>2
    <3> QED
      BY <1>2, <2>3, <3>1, <3>2
  <2>4. \A x \in Range(longer) : x \in Range(es) \cup {e}
    BY <2>3 DEF Range
  <2> HIDE DEF longer
  <2>5. Range(longer) = Range(es) \cup {e}
    BY <2>1, <2>2, <2>4
  <2> QED
    BY <2>5 DEF longer
<1> QED
  BY <1>1, <1>3

(* Nothing that was a reason to refuse ceases to be one. *)
LEMMA StillRefused ==
  ASSUME NEW es, NEW seen, NEW more, seen \subseteq more, Refused(es, seen)
  PROVE  Refused(es, more)
BY DEF Refused

(* An event added leaves the accumulator sound for one event more. *)
LEMMA AddOne ==
  ASSUME NEW acc, NEW seen, NEW e \in Item, Sound(acc, seen)
  PROVE  Sound(AddEvent(acc, e), seen \cup {e})
<1> DEFINE prior == {i \in DOMAIN acc.events : acc.events[i].id = e.id}
           more == seen \cup {e}
<1>1. /\ acc = [ok |-> acc.ok, events |-> acc.events]
      /\ acc.ok \in BOOLEAN
      /\ acc.events \in Seq(Event)
      /\ OncePerId(acc.events)
      /\ Range(acc.events) \subseteq seen
      /\ acc.ok => Range(acc.events) = seen
      /\ ~acc.ok => Refused(acc.events, seen)
  BY DEF Sound
<1>2. CASE ~acc.ok \/ ~WellFormed(e) \/ (\E i \in prior : acc.events[i] # e)
  <2>1. AddEvent(acc, e) = [ok |-> FALSE, events |-> acc.events]
    <3>1. AddEvent(acc, e) = [acc EXCEPT !.ok = FALSE]
      BY <1>2 DEF AddEvent
    <3> QED
      BY <1>1, <3>1
  <2>2. Refused(acc.events, more)
    <3>1. CASE ~acc.ok
      BY <1>1, <3>1, StillRefused
    <3>2. CASE ~WellFormed(e)
      BY <3>2 DEF Refused
    <3>3. CASE \E i \in prior : acc.events[i] # e
      <4>1. PICK i \in prior : acc.events[i] # e
        BY <3>3
      <4>2. acc.events[i] \in more /\ acc.events[i].id = e.id
        BY <1>1, <4>1, Zenon DEF Range
      <4> QED
        BY <4>1, <4>2 DEF Refused
    <3> QED
      BY <1>2, <3>1, <3>2, <3>3
  <2> QED
    BY <1>1, <2>1, <2>2 DEF Sound
<1>3. CASE acc.ok /\ WellFormed(e) /\ (\A i \in prior : acc.events[i] = e) /\ prior # {}
  <2>1. AddEvent(acc, e) = acc
    BY <1>3 DEF AddEvent
  <2>2. e \in Range(acc.events)
    BY <1>3, Zenon DEF Range
  <2>3. more = seen
    BY <1>1, <1>3, <2>2
  <2> QED
    BY <2>1, <2>3
<1>4. CASE acc.ok /\ WellFormed(e) /\ prior = {}
  <2> DEFINE longer == Append(acc.events, e)
  <2>1. AddEvent(acc, e) = [ok |-> Len(acc.events) < MaxEvents, events |-> longer]
    BY <1>4 DEF AddEvent
  <2>2. e \in Event
    BY <1>4 DEF WellFormed, Item, Event
  <2>3. /\ longer \in Seq(Event)
        /\ Range(longer) = more
        /\ Len(longer) = Len(acc.events) + 1
    BY <1>1, <1>4, <2>2, RangeOfAppend
  <2>4. ASSUME NEW i \in DOMAIN longer, NEW j \in DOMAIN longer, longer[i].id = longer[j].id
        PROVE  i = j
    <3>1. /\ i \in DOMAIN acc.events => longer[i] = acc.events[i]
          /\ j \in DOMAIN acc.events => longer[j] = acc.events[j]
          /\ longer[Len(acc.events) + 1] = e
          /\ i \in DOMAIN acc.events \/ i = Len(acc.events) + 1
          /\ j \in DOMAIN acc.events \/ j = Len(acc.events) + 1
      BY <1>1
    <3>2. CASE i \in DOMAIN acc.events /\ j \in DOMAIN acc.events
      BY <1>1, <2>4, <3>1, <3>2 DEF OncePerId
    <3>3. CASE i \in DOMAIN acc.events /\ j = Len(acc.events) + 1
      BY <1>4, <2>4, <3>1, <3>3
    <3>4. CASE j \in DOMAIN acc.events /\ i = Len(acc.events) + 1
      BY <1>4, <2>4, <3>1, <3>4
    <3> QED
      BY <3>1, <3>2, <3>3, <3>4
  <2>5. OncePerId(longer)
    BY <2>3, <2>4 DEF OncePerId
  <2>6. ~(Len(acc.events) < MaxEvents) => Refused(longer, more)
    BY <1>1, <2>3, LimitsAssumption DEF Refused
  <2>7. /\ [ok |-> Len(acc.events) < MaxEvents, events |-> longer].ok = (Len(acc.events) < MaxEvents)
        /\ [ok |-> Len(acc.events) < MaxEvents, events |-> longer].events = longer
        /\ [ok |-> Len(acc.events) < MaxEvents, events |-> longer] \in [ok : BOOLEAN, events : Seq(Event)]
    <3>1. (Len(acc.events) < MaxEvents) \in BOOLEAN
      OBVIOUS
    <3> HIDE DEF longer
    <3> QED
      BY <2>3, <3>1
  <2> QED
    <3> HIDE DEF longer, more
    <3>1. Sound([ok |-> Len(acc.events) < MaxEvents, events |-> longer], more)
      BY <2>3, <2>5, <2>6, <2>7, Zenon DEF Sound
    <3> QED
      BY <2>1, <3>1 DEF more
<1> QED
  BY <1>1, <1>2, <1>3, <1>4

(* h is what the accumulator went through with the first m of `items`. *)
Follows(h, items, m) ==
    h = [k \in 0..m |-> IF k = 0 THEN [ok |-> TRUE, events |-> events]
                        ELSE AddEvent(h[k - 1], items[k])]

(* Every list of items can be gone through. *)
LEMMA ItemsAreGoneThrough ==
  ASSUME NEW items \in Seq(Item)
  PROVE  \E h : Follows(h, items, Len(items))
<1> DEFINE E == {m \in Nat : \E h : Follows(h, items, m)}
<1>1. 0 \in E
  <2> DEFINE h == [k \in 0..0 |-> [ok |-> TRUE, events |-> events]]
  <2>1. \A k \in 0..0 : k = 0
    OBVIOUS
  <2>2. Follows(h, items, 0)
    BY <2>1 DEF Follows
  <2> QED
    BY <2>2
<1>2. ASSUME NEW m \in Nat, m \in E PROVE m + 1 \in E
  <2>1. PICK h : Follows(h, items, m)
    BY <1>2
  <2> DEFINE g == [k \in 0..(m + 1) |-> IF k = m + 1 THEN AddEvent(h[m], items[m + 1]) ELSE h[k]]
             next == [k \in 0..(m + 1) |-> IF k = 0 THEN [ok |-> TRUE, events |-> events]
                                           ELSE AddEvent(g[k - 1], items[k])]
  <2>2. ASSUME NEW k \in 0..(m + 1) PROVE g[k] = next[k]
    <3>1. CASE k = m + 1
      <4>1. g[k] = AddEvent(h[m], items[k]) /\ g[k - 1] = h[m] /\ k # 0
        BY <3>1
      <4> QED
        BY <4>1
    <3>2. CASE k = 0
      <4>1. g[k] = h[k] /\ k \in 0..m
        BY <3>2
      <4>2. h[k] = [ok |-> TRUE, events |-> events]
        BY <2>1, <3>2, <4>1 DEF Follows
      <4> QED
        BY <3>2, <4>1, <4>2
    <3>3. CASE k # m + 1 /\ k # 0
      <4>1. g[k] = h[k] /\ g[k - 1] = h[k - 1] /\ k \in 0..m
        BY <3>3
      <4>2. h[k] = AddEvent(h[k - 1], items[k])
        BY <2>1, <3>3, <4>1, Zenon DEF Follows
      <4> QED
        BY <3>3, <4>1, <4>2
    <3> QED
      BY <3>1, <3>2, <3>3
  <2>3. g = next
    <3> HIDE DEF next
    <3>1. next = [k \in 0..(m + 1) |-> next[k]]
      BY DEF next
    <3>2. g = [k \in 0..(m + 1) |-> g[k]]
      OBVIOUS
    <3> HIDE DEF g
    <3> QED
      BY <2>2, <3>1, <3>2, Zenon
  <2>4. Follows(g, items, m + 1)
    BY <2>3, Zenon DEF Follows
  <2> QED
    BY <2>4
<1> HIDE DEF E
<1>3. Nat \subseteq E
  BY <1>1, <1>2, CountingUp
<1> QED
  BY <1>3, LenProperties DEF E

(* A page's events leave the accumulator sound for all of them. *)
LEMMA AddEventsSound ==
  ASSUME NEW items \in Seq(Item), OncePerId(events)
  PROVE  Sound(AddEvents(items), Range(events) \cup Range(items))
<1> DEFINE n == Len(items)
           first(m) == {items[j] : j \in 1..m}
           Loop(h) == [k \in 0..n |-> IF k = 0 THEN [ok |-> TRUE, events |-> events]
                                      ELSE AddEvent(h[k - 1], items[k])]
           loop == CHOOSE h : h = Loop(h)
<1>1. n \in Nat /\ \A k \in 1..n : items[k] \in Item
  BY LenProperties
<1>2. \E h : h = Loop(h)
  BY ItemsAreGoneThrough DEF Follows
<1>3. loop = Loop(loop)
  BY <1>2
<1>4. AddEvents(items) = loop[n]
  BY DEF AddEvents
<1> HIDE DEF loop
<1>5. /\ loop[0] = [ok |-> TRUE, events |-> events]
      /\ \A k \in 1..n : loop[k] = AddEvent(loop[k - 1], items[k])
  <2>1. /\ Loop(loop)[0] = [ok |-> TRUE, events |-> events]
        /\ \A k \in 1..n : Loop(loop)[k] = AddEvent(loop[k - 1], items[k])
    BY <1>1
  <2> HIDE DEF Loop
  <2> QED
    BY <1>3, <2>1, Zenon
<1> DEFINE E == {m \in Nat : m <= n => Sound(loop[m], Range(events) \cup first(m))}
<1>6. 0 \in E
  <2>1. first(0) = {}
    OBVIOUS
  <2>2. events \in Seq(Event)
    BY DEF OncePerId
  <2>3. Sound([ok |-> TRUE, events |-> events], Range(events) \cup first(0))
    <3> HIDE DEF first
    <3> QED
      BY <2>1, <2>2 DEF Sound
  <2> QED
    BY <1>5, <2>3
<1>7. ASSUME NEW m \in Nat, m \in E PROVE m + 1 \in E
  <2>1. SUFFICES ASSUME m + 1 <= n
                 PROVE  Sound(loop[m + 1], Range(events) \cup first(m + 1))
    OBVIOUS
  <2>2. Sound(loop[m], Range(events) \cup first(m))
    BY <1>1, <1>7, <2>1
  <2>3. m + 1 \in 1..n /\ (m + 1) - 1 = m
    BY <1>1, <2>1
  <2>4. loop[m + 1] = AddEvent(loop[m], items[m + 1]) /\ items[m + 1] \in Item
    BY <1>1, <1>5, <2>3
  <2>5. first(m + 1) = first(m) \cup {items[m + 1]}
    <3>1. 1..(m + 1) = 1..m \cup {m + 1}
      OBVIOUS
    <3> QED
      BY <3>1
  <2>6. Range(events) \cup first(m + 1) = (Range(events) \cup first(m)) \cup {items[m + 1]}
    <3> HIDE DEF first
    <3> QED
      BY <2>5
  <2> HIDE DEF first
  <2>7. Sound(AddEvent(loop[m], items[m + 1]), (Range(events) \cup first(m)) \cup {items[m + 1]})
    BY <2>2, <2>4, AddOne
  <2> QED
    BY <2>4, <2>6, <2>7
<1> HIDE DEF E
<1>8. n \in E
  BY <1>1, <1>6, <1>7, CountingUp
<1>9. first(n) = Range(items)
  BY <1>1 DEF Range
<1> HIDE DEF first
<1> QED
  BY <1>1, <1>4, <1>8, <1>9 DEF E

(* The events held are as many as their ids. *)
LEMMA OnePerId ==
  ASSUME NEW es, OncePerId(es)
  PROVE  /\ IsFiniteSet({e.id : e \in Range(es)})
         /\ Cardinality({e.id : e \in Range(es)}) = Len(es)
<1> DEFINE T == {e.id : e \in Range(es)}
           f == [i \in 1..Len(es) |-> es[i].id]
<1>1. es \in Seq(Event) /\ Len(es) \in Nat /\ DOMAIN es = 1..Len(es)
  BY DEF OncePerId
<1>2. f \in [1..Len(es) -> T]
  BY <1>1 DEF Range
<1>3. \A i, j \in 1..Len(es) : f[i] = f[j] => i = j
  BY <1>1 DEF OncePerId
<1>4. \A t \in T : \E i \in 1..Len(es) : f[i] = t
  BY <1>1 DEF Range
<1>5. f \in Bijection(1..Len(es), T)
  <2> HIDE DEF f, T
  <2> QED
    BY <1>2, <1>3, <1>4 DEF Bijection, Injection, Surjection, IsInjective
<1>6. IsFiniteSet(1..Len(es)) /\ Cardinality(1..Len(es)) = Len(es)
  BY <1>1, FS_Interval
<1>7. ExistsBijection(1..Len(es), T)
  <2> HIDE DEF f, T
  <2> QED
    BY <1>5 DEF ExistsBijection
<1> HIDE DEF T, f
<1>8. IsFiniteSet(T) /\ Cardinality(T) = Cardinality(1..Len(es))
  BY <1>6, <1>7, FS_Bijection
<1> QED
  BY <1>6, <1>8 DEF T

(* A page's ids are finitely many. *)
LEMMA IdsFinite ==
  ASSUME NEW S, NEW es \in Seq(S)
  PROVE  IsFiniteSet({e.id : e \in Range(es)})
<1> DEFINE T == {e.id : e \in Range(es)}
           f == [i \in 1..Len(es) |-> es[i].id]
<1>1. Len(es) \in Nat /\ DOMAIN es = 1..Len(es)
  OBVIOUS
<1>2. f \in [1..Len(es) -> T]
  BY <1>1 DEF Range
<1>3. \A t \in T : \E i \in 1..Len(es) : f[i] = t
  BY <1>1 DEF Range
<1>4. IsFiniteSet(1..Len(es))
  BY <1>1, FS_Interval
<1> HIDE DEF T, f
<1>5. f \in Surjection(1..Len(es), T)
  BY <1>2, <1>3 DEF Surjection
<1>6. IsFiniteSet(T)
  BY <1>4, <1>5, FS_Surjection
<1> QED
  BY <1>6 DEF T

-----------------------------------------------------------------------------
(* The read. *)

(* What the read knows, in every state: the answers are those it asked for;
   one that has not failed holds, each once, all the events of the pages, every
   one a list; one under way was promised more, a finished one was not. *)
ReadInv ==
    /\ answers \in Seq(Pages \cup {NoPage})
    /\ requests = Len(answers)
    /\ result \in {"reading", "authoritative", "failed"}
    /\ result # "failed" =>
           /\ \A i \in DOMAIN answers : answers[i] \in Pages /\ answers[i].items # NotAList
           /\ OncePerId(events)
           /\ Range(events) = Served
    /\ result = "reading" => \A i \in DOMAIN answers : answers[i].next = "more"
    /\ result = "authoritative" => answers # <<>> /\ answers[Len(answers)].next = "none"
    /\ FailsOnlyForCause

(* An answer more serves what it lists besides what was served. *)
LEMMA ServedGrows ==
  ASSUME NEW S, answers \in Seq(S), NEW last, answers' = Append(answers, last)
  PROVE  /\ Served \subseteq Served'
         /\ (last # NoPage /\ last.items # NotAList) => Served' = Served \cup Range(last.items)
<1> DEFINE Lists(p) == p # NoPage /\ p.items # NotAList
<1>1. /\ DOMAIN answers' = DOMAIN answers \cup {Len(answers) + 1}
      /\ \A i \in DOMAIN answers : answers'[i] = answers[i]
      /\ answers'[Len(answers) + 1] = last
  <2>1. /\ DOMAIN Append(answers, last) = 1..(Len(answers) + 1)
        /\ DOMAIN answers = 1..Len(answers) /\ Len(answers) \in Nat
        /\ \A i \in DOMAIN answers : Append(answers, last)[i] = answers[i]
        /\ Append(answers, last)[Len(answers) + 1] = last
    BY RangeOfAppend
  <2>2. 1..(Len(answers) + 1) = 1..Len(answers) \cup {Len(answers) + 1}
    BY <2>1
  <2> QED
    BY <2>1, <2>2
<1>2. \A e : e \in Served <=> \E i \in DOMAIN answers : Lists(answers[i]) /\ e \in Range(answers[i].items)
  BY Zenon DEF Served
<1>3. \A e : e \in Served' <=> \E i \in DOMAIN answers' : Lists(answers'[i]) /\ e \in Range(answers'[i].items)
  BY Zenon DEF Served
<1>4. ASSUME NEW e PROVE e \in Served' <=> e \in Served \/ (Lists(last) /\ e \in Range(last.items))
  BY <1>1, <1>2, <1>3, Zenon
<1> QED
  BY <1>4, Zenon

LEMMA ReadStarts ==
  ASSUME result = "reading", requests = 0, events = <<>>, answers = <<>>
  PROVE  ReadInv
<1>1. Range(<<>>) = {} /\ DOMAIN <<>> = {} /\ Len(<<>>) = 0
  BY DEF Range
<1>2. Served = {}
  BY <1>1 DEF Served
<1>3. OncePerId(<<>>)
  BY <1>1 DEF OncePerId
<1>4. answers \in Seq(Pages \cup {NoPage})
  OBVIOUS
<1>5. \A i \in DOMAIN answers : FALSE
  BY <1>1
<1>6. FailsOnlyForCause
  BY DEF FailsOnlyForCause
<1> QED
  BY <1>1, <1>2, <1>3, <1>4, <1>5, <1>6 DEF ReadInv

(* A failed request is cause enough. *)
LEMMA RequestFailsKeepsRead ==
  ASSUME ReadInv, RequestFails
  PROVE  ReadInv'
<1>1. /\ answers \in Seq(Pages \cup {NoPage}) /\ requests = Len(answers)
      /\ answers' = Append(answers, NoPage) /\ requests' = requests + 1
      /\ result' = "failed"
  BY DEF ReadInv, RequestFails, Ask
<1>2. /\ answers' \in Seq(Pages \cup {NoPage}) /\ requests' = Len(answers')
      /\ Len(answers) + 1 \in DOMAIN answers' /\ answers'[Len(answers) + 1] = NoPage
  BY <1>1
<1>3. FailsOnlyForCause'
  BY <1>2, Zenon DEF FailsOnlyForCause
<1> QED
  BY <1>1, <1>2, <1>3 DEF ReadInv

(* Out of pages, the last one still promised another. *)
LEMMA OutOfPagesKeepsRead ==
  ASSUME ReadInv, OutOfPages
  PROVE  ReadInv'
<1>1. /\ answers \in Seq(Pages \cup {NoPage}) /\ MaxPages = Len(answers)
      /\ answers' = answers /\ requests' = requests /\ result' = "failed"
      /\ \A i \in DOMAIN answers : answers[i].next = "more"
  BY DEF ReadInv, OutOfPages
<1>2. MaxPages \in DOMAIN answers
  BY <1>1, LimitsAssumption
<1>3. answers'[MaxPages].next = "more" /\ Len(answers') = MaxPages
  BY <1>1, <1>2
<1>4. FailsOnlyForCause'
  BY <1>3 DEF FailsOnlyForCause
<1> QED
  BY <1>1, <1>4 DEF ReadInv

(* A page ends the read for a cause, or adds all its events. *)
LEMMA AbsorbPageKeepsRead ==
  ASSUME ReadInv, AbsorbPage
  PROVE  ReadInv'
<1>1. PICK page \in Pages :
        /\ Ask(page)
        /\ byteCount' = byteCount + page.bytes
        /\ IF OverBounds(page) \/ page.items = NotAList
           THEN result' = "failed" /\ UNCHANGED events
           ELSE LET added == AddEvents(page.items)
                IN  /\ events' = added.events
                    /\ result' = IF ~added.ok THEN "failed"
                                 ELSE CASE page.next = "none" -> "authoritative"
                                        [] page.next = "more" -> "reading"
                                        [] page.next = "bad"  -> "failed"
  BY DEF AbsorbPage
<1> DEFINE last == Len(answers) + 1
           added == AddEvents(page.items)
<1>2. /\ answers \in Seq(Pages \cup {NoPage}) /\ requests = Len(answers)
      /\ answers' = Append(answers, page) /\ requests' = requests + 1
      /\ result = "reading"
      /\ \A i \in DOMAIN answers : /\ answers[i] \in Pages /\ answers[i].items # NotAList
                                   /\ answers[i].next = "more"
      /\ OncePerId(events)
      /\ Range(events) = Served
  BY <1>1 DEF ReadInv, Ask
<1>3. /\ answers' \in Seq(Pages \cup {NoPage}) /\ requests' = Len(answers')
      /\ Len(answers') = last /\ answers' # <<>>
      /\ last \in DOMAIN answers' /\ answers'[last] = page
      /\ \A i \in DOMAIN answers' : i = last \/ (i \in DOMAIN answers /\ answers'[i] = answers[i])
  BY <1>2
<1>4. page # NoPage
  BY PagesAssumption
<1>5. CASE OverBounds(page) \/ page.items = NotAList
  <2>1. result' = "failed"
    BY <1>1, <1>5
  <2>2. byteCount' > MaxBytes \/ page.longest > MaxFieldChars \/ page.items = NotAList
    BY <1>1, <1>5 DEF OverBounds
  <2>3. FailsOnlyForCause'
    BY <1>3, <1>4, <2>2, Zenon DEF FailsOnlyForCause
  <2> QED
    BY <1>3, <2>1, <2>3 DEF ReadInv
<1>6. CASE ~(OverBounds(page) \/ page.items = NotAList)
  <2>1. /\ page.items \in Seq(Item)
        /\ page.next \in {"none", "more", "bad"}
    BY <1>6, PagesAssumption
  <2>2. /\ events' = added.events
        /\ result' = IF ~added.ok THEN "failed"
                     ELSE CASE page.next = "none" -> "authoritative"
                            [] page.next = "more" -> "reading"
                            [] page.next = "bad"  -> "failed"
    BY <1>1, <1>6
  <2>3. Served' = Served \cup Range(page.items)
    BY <1>2, <1>4, <1>6, ServedGrows
  <2>4. Sound(added, Served')
    BY <1>2, <2>1, <2>3, AddEventsSound
  <2> HIDE DEF added
  <2>5. CASE ~added.ok
    <3>1. result' = "failed"
      BY <2>2, <2>5
    <3>2. Refused(added.events, Served')
      BY <2>4, <2>5 DEF Sound
    <3>3. Len(added.events) > MaxEvents => Cardinality({e.id : e \in Served'}) > MaxEvents
      <4> DEFINE held == {e.id : e \in Range(added.events)}
                 all  == {e.id : e \in Served'}
      <4>1. IsFiniteSet(all)
        <5>1. all = {e.id : e \in Range(events)} \cup {e.id : e \in Range(page.items)}
          BY <1>2, <2>3, Zenon
        <5>2. IsFiniteSet({e.id : e \in Range(events)})
          BY <1>2, OnePerId
        <5>3. IsFiniteSet({e.id : e \in Range(page.items)})
          BY <2>1, IdsFinite
        <5> HIDE DEF all
        <5>4. IsFiniteSet({e.id : e \in Range(events)} \cup {e.id : e \in Range(page.items)})
          BY <5>2, <5>3, FS_Union
        <5> QED
          BY <5>1, <5>4
      <4>2. held \subseteq all
        BY <2>4 DEF Sound
      <4>3. IsFiniteSet(held) /\ Cardinality(held) = Len(added.events)
        BY <2>4, OnePerId DEF Sound
      <4> HIDE DEF held, all
      <4>4. /\ Cardinality(held) <= Cardinality(all)
            /\ Cardinality(all) \in Nat /\ Cardinality(held) \in Nat
        BY <4>1, <4>2, <4>3, FS_Subset, FS_CardinalityType
      <4>5. Len(added.events) > MaxEvents => Cardinality(all) > MaxEvents
        BY <4>3, <4>4, LimitsAssumption
      <4> QED
        BY <4>5 DEF all
    <3>4. FailsOnlyForCause'
      BY <3>2, <3>3, Zenon DEF FailsOnlyForCause, Refused
    <3> QED
      BY <1>3, <3>1, <3>4 DEF ReadInv
  <2>6. CASE added.ok /\ page.next = "bad"
    <3>1. result' = "failed"
      BY <2>2, <2>6
    <3>2. FailsOnlyForCause'
      BY <1>3, <1>4, <2>6, Zenon DEF FailsOnlyForCause
    <3> QED
      BY <1>3, <3>1, <3>2 DEF ReadInv
  <2>7. CASE added.ok /\ page.next # "bad"
    <3>1. /\ result' = IF page.next = "none" THEN "authoritative" ELSE "reading"
          /\ page.next = "none" \/ page.next = "more"
      BY <2>1, <2>2, <2>7
    <3>2. OncePerId(events') /\ Range(events') = Served'
      BY <2>2, <2>4, <2>7 DEF Sound
    <3>3. \A i \in DOMAIN answers' : answers'[i] \in Pages /\ answers'[i].items # NotAList
      BY <1>2, <1>3, <1>6
    <3>4. result' = "reading" => \A i \in DOMAIN answers' : answers'[i].next = "more"
      BY <1>2, <1>3, <3>1
    <3>5. result' = "authoritative" => answers' # <<>> /\ answers'[Len(answers')].next = "none"
      BY <1>3, <3>1
    <3>6. result' # "failed" /\ result' \in {"reading", "authoritative", "failed"}
      BY <3>1
    <3>7. FailsOnlyForCause'
      BY <3>6 DEF FailsOnlyForCause
    <3>8. OncePerId(events)'
      BY <3>2 DEF OncePerId
    <3> QED
      BY <1>3, <3>2, <3>3, <3>4, <3>5, <3>6, <3>7, <3>8, Zenon DEF ReadInv
  <2> QED
    BY <2>5, <2>6, <2>7
<1> QED
  BY <1>5, <1>6

LEMMA ReadInvAlways == GatewaySpec => []ReadInv
<1>1. GatewayInit => ReadInv
  BY ReadStarts DEF GatewayInit, Init
<1>2. ASSUME ReadInv, [GatewayNext]_allVars PROVE ReadInv'
  <2>1. CASE UNCHANGED vars
    BY <1>2, <2>1 DEF ReadInv, vars, Served, FailsOnlyForCause, OncePerId
  <2>2. CASE RequestFails
    BY <1>2, <2>2, RequestFailsKeepsRead
  <2>3. CASE OutOfPages
    BY <1>2, <2>3, OutOfPagesKeepsRead
  <2>4. CASE AbsorbPage
    BY <1>2, <2>4, AbsorbPageKeepsRead
  <2>5. CASE NextRead
    <3>1. (result = "reading" /\ requests = 0 /\ events = <<>> /\ answers = <<>>)'
      BY <2>5 DEF NextRead
    <3>2. (result = "reading" /\ requests = 0 /\ events = <<>> /\ answers = <<>> => ReadInv)'
      BY ReadStarts, PTL
    <3> QED
      BY <3>1, <3>2
  <2>6. \/ UNCHANGED vars \/ RequestFails \/ OutOfPages \/ AbsorbPage \/ NextRead
    BY <1>2 DEF GatewayNext, Reading, StartPage, FetchAnswered, FetchFails, ListAnswered,
                ListFails, NoPagesLeft, Tick, Revoke, allVars
  <2> QED
    BY <2>1, <2>2, <2>3, <2>4, <2>5, <2>6
<1> QED
  BY <1>1, <1>2, PTL DEF GatewaySpec

(* An authoritative window is the calendar's: no page failed, the last one
   promised no further, every event served is held, in the one version all
   pages agreed on, and once; for every calendar and all limits
   (read_snapshot, absorb, add_event). *)
THEOREM AuthoritativeIsCompleteAlways == GatewaySpec => []AuthoritativeIsComplete
<1>1. ReadInv => AuthoritativeIsComplete
  <2> SUFFICES ASSUME ReadInv, result = "authoritative"
               PROVE  AuthoritativeIsComplete
    BY DEF AuthoritativeIsComplete
  <2>1. /\ \A i \in DOMAIN answers : answers[i] \in Pages
        /\ OncePerId(events) /\ Range(events) = Served
        /\ answers[Len(answers)].next = "none"
    BY DEF ReadInv
  <2>2. \A i \in DOMAIN answers : answers[i] # NoPage
    BY <2>1, PagesAssumption
  <2>3. Served \subseteq Event
    BY <2>1 DEF OncePerId, Range
  <2>4. Len(events) = Cardinality({e.id : e \in Served})
    <3>1. Cardinality({e.id : e \in Range(events)}) = Len(events)
      BY <2>1, OnePerId
    <3> QED
      BY <2>1, <3>1
  <2> QED
    BY <2>1, <2>2, <2>3, <2>4 DEF AuthoritativeIsComplete
<1> QED
  BY <1>1, ReadInvAlways, PTL

(* A read that fails met an error, a page or an event it could not take, two
   versions of one event, or more than a limit: at the limits themselves it
   still succeeds, whatever they are (charge_bounds, add_event, read_snapshot). *)
THEOREM FailsOnlyForCauseAlways == GatewaySpec => []FailsOnlyForCause
<1>1. ReadInv => FailsOnlyForCause
  BY DEF ReadInv
<1> QED
  BY <1>1, ReadInvAlways, PTL
=============================================================================
