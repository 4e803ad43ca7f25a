----------------------------- MODULE ParserCheck -----------------------------
(***************************************************************************)
(* A calendar that Flighty edits while the clock of the daemon's host      *)
(* ticks.  Checks what Parser makes of every calendar reached: events are  *)
(* added, moved and cancelled, in whatever order the API lists them.       *)
(***************************************************************************)
EXTENDS Parser, SequencesExt

CONSTANTS Kinds,      \* Kinds[n]: title and departure the n-th event may have
          Times,      \* departures an event may be moved to
          Offset,     \* the host's UTC offset
          MaxEdits    \* edits made to the calendar

ASSUME KindsAssumption == Kinds \in Seq(SUBSET [title : Titles, start : Int])

ASSUME TimesAssumption == Times \subseteq Int /\ Offset \in Int

VARIABLES events,     \* the calendar as the API lists it
          now,        \* the daemon's clock
          edits       \* edits so far; an edit stamps `updated` with its number

vars == <<events, now, edits>>

Init == events = <<>> /\ now = 0 /\ edits = 0

Ids == {e.id : e \in Range(events)}

(* An event appears, anywhere in the listing.  Some carry no `updated`. *)
AddEvent ==
    /\ Len(events) < Len(Kinds)
    /\ edits < MaxEdits
    /\ edits' = edits + 1
    /\ \E id \in DOMAIN Kinds \ Ids, kind \in Kinds[Len(events) + 1],
          stamp \in {0, edits + 1}, at \in 1..(Len(events) + 1) :
            events' = InsertAt(events, at,
                [id |-> id, cancelled |-> FALSE, title |-> kind.title,
                 start |-> kind.start, updated |-> stamp])
    /\ UNCHANGED now

(* Flighty moves a departure. *)
Delay ==
    /\ edits < MaxEdits
    /\ edits' = edits + 1
    /\ \E i \in DOMAIN events, start \in Times :
            /\ events[i].start # start
            /\ events' = [events EXCEPT ![i].start = start, ![i].updated = edits + 1]
    /\ UNCHANGED now

Cancel ==
    /\ edits < MaxEdits
    /\ edits' = edits + 1
    /\ \E i \in DOMAIN events :
            /\ ~events[i].cancelled
            /\ events' = [events EXCEPT ![i].cancelled = TRUE, ![i].updated = edits + 1]
    /\ UNCHANGED now

Tick ==
    /\ now + 1 \in Times
    /\ now' = now + 1
    /\ UNCHANGED <<events, edits>>

Next == AddEvent \/ Delay \/ Cancel \/ Tick

Spec == Init /\ [][Next]_vars

-----------------------------------------------------------------------------
TheWanted == Wanted(events, now, Offset)

(* The loops of the code, event by event in the order the API listed them:
   group by key, reduce each group, sort, then keep each number's first
   departure today. *)
Fresher(a, e) ==
    IF e.updated > a.updated \/ (e.updated = a.updated /\ e.id >= a.id) THEN e ELSE a

Claim(acc, e) ==
    IF Outcome(e) # "flight" THEN acc
    ELSE IF \E i \in DOMAIN acc : Key(acc[i]) = Key(e)
         THEN [i \in DOMAIN acc |-> IF Key(acc[i]) = Key(e) THEN Fresher(acc[i], e) ELSE acc[i]]
         ELSE Append(acc, e)

Winners ==
    LET after[k \in 0..Len(events)] ==
            IF k = 0 THEN <<>> ELSE Claim(after[k - 1], events[k])
    IN  after[Len(events)]

SoonestFirst(a, b) == a.start < b.start \/ (a.start = b.start /\ KeyBefore(Key(a), Key(b)))

SortedWinners ==
    CHOOSE s \in [1..Len(Winners) -> Range(Winners)] :
        /\ Range(s) = Range(Winners)
        /\ \A i, j \in DOMAIN s : i < j => SoonestFirst(s[i], s[j])

KeepFirst(acc, e) ==
    IF Day(e.start, Offset) # Day(now, Offset) \/ e.title.designator \in Range(acc)
    THEN acc ELSE Append(acc, e.title.designator)

LoopWanted ==
    LET sorted == SortedWinners
        after[k \in 0..Len(sorted)] ==
            IF k = 0 THEN <<>> ELSE KeepFirst(after[k - 1], sorted[k])
    IN  IF Authoritative(events) THEN after[Len(sorted)] ELSE <<>>

(* The wanted list does not depend on the order the API lists events in: the
   closed form, which knows no order, is what the loops compute. *)
WantedIsTheLoop == TheWanted = LoopWanted

(* The planner's DuplicateWanted error is never met, although one number may
   fly twice a day, from two airports, or be in two friends' calendars. *)
WantedHasNoRepeats == IsInjective(TheWanted)

(* A number an event puts on today's board is wanted, unless a fresher event
   of the same flight moved it to another of the operator's days. *)
TodaysDeparturesWanted ==
    \A e \in Claims(events) :
        LET fresher == {f \in Claims(events) :
                           /\ Key(f) = Key(e)
                           /\ f.updated > e.updated \/ (f.updated = e.updated /\ f.id > e.id)
                           /\ Day(f.start, Offset) # Day(now, Offset)}
        IN  (Authoritative(events) /\ Day(e.start, Offset) = Day(now, Offset)
             /\ fresher = {}) => e.title.designator \in Range(TheWanted)

(* A departure moved within the operator's day keeps the same numbers wanted,
   even when the move crosses midnight in UTC and so changes the flight's key. *)
DelayKeepsWanted ==
    [][ (Delay /\ Authoritative(events) /\ Authoritative(events')) =>
        \A i \in DOMAIN events :
            LET Today(e) == Outcome(e) = "flight" /\ Day(e.start, Offset) = Day(now, Offset)
                alone == \A f \in Claims(events) \ {events[i]} :
                            f.title.designator # events[i].title.designator
            IN  (events'[i] # events[i] /\ alone /\ Today(events[i]) /\ Today(events'[i]))
                => Range(TheWanted') = Range(TheWanted) ]_vars
=============================================================================
