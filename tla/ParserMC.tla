------------------------------ MODULE ParserMC -------------------------------
(* Small calendars for ParserCheck. *)
EXTENDS ParserCheck

Flight(d, o, x) == [shape |-> "flight", designator |-> d, origin |-> o, destination |-> x]
Shaped(s) == [shape |-> s, designator |-> 0, origin |-> 0, destination |-> 0]

(* Two numbers on one leg, the return leg under the first number, and titles
   that are no flight. *)
Outward  == Flight(1, 1, 2)
Partner  == Flight(2, 1, 2)
Return   == Flight(1, 2, 1)
Legs   == {Outward, Partner, Return}
Others == {Shaped("cancellation"), Shaped("other"), Shaped("zero")}

Departures == 0..2
Moves == Departures \cup {AllDay, Missing}

(* The first event added may be anything (where the title is no flight, the
   departure is never looked at), the second flies the outward leg under
   either number, the third either leg of the first number. *)
Anything == [title : Legs, start : Departures \cup {AllDay, Missing}]
            \cup [title : Others, start : {0}]
Twin  == [title : {Outward, Partner}, start : Departures]
Same  == [title : {Outward, Return}, start : {0, 2}]
ThreeEvents == <<Anything, Twin, Same>>
=============================================================================
