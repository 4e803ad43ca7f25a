-------------------------------- MODULE Parser --------------------------------
(***************************************************************************)
(* From calendar events to wanted flight numbers: parse_cycle of           *)
(* src/parser.rs and wanted of src/service/cycle.rs.                       *)
(*                                                                         *)
(* An event is a record [id, cancelled, title, start, updated].  Its title *)
(* is what the two regular expressions make of the summary: a record       *)
(* [shape, designator, origin, destination] whose shape is "flight",       *)
(* "cancellation", "zero" (a flight numbered 0) or "other".  A designator  *)
(* is carrier and number run together, as the code compares it; it is a    *)
(* number here, in the order of the keys' text.  `start` is a time,        *)
(* AllDay or Missing; `updated` is a time, 0 when the event has none.      *)
(***************************************************************************)
EXTENDS Integers, Sequences, FiniteSets, Functions

CONSTANTS DayLength   \* ticks in a day

ASSUME DayLengthAssumption == DayLength \in Nat \ {0}

(* What the summary, its typographic spaces folded, matches: the regular
   expressions are abstracted to this. *)
Shapes == {"flight", "cancellation", "zero", "other"}
Titles == [shape : Shapes, designator : Int, origin : Int, destination : Int]

Event == [id : Int, cancelled : BOOLEAN, title : Titles, start : Int, updated : Int]

AllDay  == -1
Missing == -2

(* The date of t at a UTC offset; a negative offset rounds towards the past. *)
Day(t, offset) == (t + offset) \div DayLength

-----------------------------------------------------------------------------
(* interpret: what one event is. *)
Outcome(e) ==
    CASE e.cancelled \/ e.title.shape = "cancellation" -> "cancelled"
      [] ~e.cancelled /\ e.title.shape \in {"other", "zero"} -> "unrecognized"
      [] ~e.cancelled /\ e.title.shape = "flight" ->
            CASE e.start = AllDay  -> "all_day"
              [] e.start = Missing -> "missing_departure"
              [] OTHER -> "flight"

Claims(events) == {e \in Range(events) : Outcome(e) = "flight"}

(* FlightIdentity::key: the day is UTC's. *)
Key(e) == <<e.title.designator, e.title.origin, Day(e.start, 0)>>

(* Mutated form: the stalest claim wins. *)
Stalest(group) ==
    CHOOSE e \in group : \A f \in group :
        e.updated < f.updated \/ (e.updated = f.updated /\ e.id <= f.id)

(* merge: the latest updated claim wins, then the highest id. *)
Freshest(group) ==
    CHOOSE e \in group : \A f \in group :
        f.updated < e.updated \/ (f.updated = e.updated /\ f.id <= e.id)

Merge(key, group) ==
    LET e == Freshest(group)
    IN  [key |-> key, designator |-> e.title.designator, origin |-> e.title.origin,
         destination |-> e.title.destination, departure |-> e.start,
         sources |-> {f.id : f \in group}]

(* desired_flights. *)
DesiredFlights(events) ==
    LET claims == Claims(events)
    IN  {Merge(k, {e \in claims : Key(e) = k}) : k \in {Key(e) : e \in claims}}

(* The order the flights are sorted in. *)
KeyBefore(a, b) ==
    \E i \in 1..3 : a[i] < b[i] /\ \A j \in 1..(i - 1) : a[j] = b[j]
Before(f, g) ==
    \/ f.departure < g.departure
    \/ f.departure = g.departure /\ KeyBefore(f.key, g.key)

(* codeshare_conflict: one leg under two numbers. *)
Codeshare(flights) ==
    \E f, g \in flights :
        /\ <<f.origin, f.destination, f.departure>> = <<g.origin, g.destination, g.departure>>
        /\ f.designator # g.designator

(* parse_cycle on an authoritative snapshot. *)
Authoritative(events) ==
    /\ \A e \in Range(events) : Outcome(e) # "unrecognized"
    /\ ~Codeshare(DesiredFlights(events))

ParsedFlights(events) == IF Authoritative(events) THEN DesiredFlights(events) ELSE {}

-----------------------------------------------------------------------------
(* Mutated form: today is UTC's. *)
TodaysFlightsUtc(flights, now, offset) ==
    {f \in flights : Day(f.departure, 0) = Day(now, 0)}

(* todays_flights: departures on the operator's day. *)
TodaysFlights(flights, now, offset) ==
    {f \in flights : Day(f.departure, offset) = Day(now, offset)}

(* The elements of S as a sequence, in the strict total order Lt. *)
Sorted(S, Lt(_, _)) ==
    [k \in 1..Cardinality(S) |->
        CHOOSE x \in S : Cardinality({y \in S : Lt(y, x)}) = k - 1]

(* Mutated form: one entry per flight. *)
WantedPerFlight(events, now, offset) ==
    LET today == TodaysFlights(ParsedFlights(events), now, offset)
    IN  [k \in 1..Cardinality(today) |-> Sorted(today, Before)[k].designator]

(* wanted: one entry per number departing today, soonest first. *)
Wanted(events, now, offset) ==
    LET today == TodaysFlights(ParsedFlights(events), now, offset)
        soonest == {f \in today :
                       \A g \in today : g.designator = f.designator => ~Before(g, f)}
    IN  [k \in 1..Cardinality(soonest) |-> Sorted(soonest, Before)[k].designator]
=============================================================================
