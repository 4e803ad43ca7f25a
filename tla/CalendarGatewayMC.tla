-------------------------- MODULE CalendarGatewayMC ---------------------------
(* Small pages and short-lived tokens for CalendarGateway. *)
EXTENDS CalendarGateway

CONSTANTS a, b, c,    \* event ids
          v, w        \* event contents

Of(id, content) == [id |-> id, content |-> content]

(* One event or none, two at once, one event in two versions, the same event
   twice, an event with no id, one that is malformed, and no list at all. *)
ItemLists ==
    {<<>>, <<Of(a, v)>>, <<Of(a, w)>>, <<Of(b, v)>>, <<Of(c, v)>>,
     <<Of(a, v), Of(b, v)>>, <<Of(a, v), Of(a, w)>>, <<Of(b, v), Of(b, v)>>,
     <<Of(NoId, v)>>, <<Of(b, Malformed)>>, NotAList}

Page(bytes, longest, items, next) ==
    [bytes |-> bytes, longest |-> longest, items |-> items, next |-> next,
     decoded |-> TRUE]

(* What the transport makes of a 200 whose body is empty or no JSON: the empty
   object (decode of src/calendar/google.rs). *)
Undecoded ==
    [bytes |-> 1, longest |-> 0, items |-> <<>>, next |-> "none", decoded |-> FALSE]

SmallPages ==
    {Page(1, 1, items, next) : items \in ItemLists, next \in {"none", "more"}}
    \cup {Undecoded, Page(1, 1, <<Of(a, v)>>, "bad")}
    \cup {Page(2, 1, <<Of(a, v)>>, next) : next \in {"none", "more"}}
    \cup {Page(3, 1, <<Of(b, v)>>, "none"), Page(1, 2, <<>>, "more")}
=============================================================================
