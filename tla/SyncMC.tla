-------------------------------- MODULE SyncMC --------------------------------
(* Small instances of Sync. *)
EXTENDS Sync

CONSTANTS n1, n2, n3

Owners(n) == [number |-> n, by |-> "owner"]

(* A wall the daemon finds empty, and one where the owner already tracks n3. *)
EmptyWall  == {<<>>}
SmallWalls == {<<>>, <<Owners(n3)>>}

(* Nothing; two flights, of which one may not fit; a number the owner may
   already track. *)
ThreeCalendars == {<<>>, <<n1, n2>>, <<n3>>}
TwoCalendars   == {<<n1>>, <<n2, n3>>}

NoDisturbance == [k \in Disturbances |-> 0]
Crashes == [NoDisturbance EXCEPT !["crash"] = 3, !["fault"] = 3, !["calendar"] = 2]
Hostile == [k \in Disturbances |-> 1]

(* The server drops a landed flight while a write's outcome is unknown. *)
LandingAfterFault == [NoDisturbance EXCEPT !["fault"] = 2, !["landing"] = 1]
(* The owner adds a flight by hand around a crash; the calendar drops it. *)
EditAroundCrash == [NoDisturbance EXCEPT !["crash"] = 1, !["edit"] = 1, !["calendar"] = 1]
(* The app fills the wall past what the daemon may write, around a failed
   request, a late POST and a change of the calendar.  A re-read that fails
   leaves the intent open, as a crash would. *)
Crowding == [Hostile EXCEPT !["edit"] = 2, !["crash"] = 0, !["landing"] = 0]
=============================================================================
