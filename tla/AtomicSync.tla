------------------------------ MODULE AtomicSync ------------------------------
(***************************************************************************)
(* What journaled writes promise while the daemon is the wall's only       *)
(* writer: writing the wall and recording who owns what are one step, as   *)
(* if no request could fail and no process could die between them.         *)
(***************************************************************************)
EXTENDS Reconcile

CONSTANTS InitialWalls, Calendars

VARIABLES wall, owned

vars == <<wall, owned>>

Init == wall \in InitialWalls /\ owned = {}

(* A planned write takes effect and is recorded.  The calendar it follows is
   the one its cycle read, which may have changed since. *)
Write ==
    \E wanted \in Calendars :
        LET plan == Plan(wanted, FlightNumbers(wall), owned)
        IN  /\ Changed(plan)
            /\ Len(plan.desired) <= Cap
            /\ wall' = FlightsFor(plan.desired, wall)
            /\ owned' = OwnedAfter(owned, plan.desired, FlightNumbers(wall))

Spec == Init /\ [][Write]_vars
=============================================================================
