--------------------------------- MODULE Wall ---------------------------------
(***************************************************************************)
(* The FlightWall server and the owner's app, as src/flightwall/client.rs  *)
(* and docs/flightwall-api.md rely on them.  The server keeps one document *)
(* and replaces it whole, last writer wins; a POST whose response never    *)
(* arrived may still be applied later; landed flights vanish on their own. *)
(* The app keeps the document it last loaded and posts its edits on top of *)
(* that copy.                                                              *)
(***************************************************************************)
EXTENDS Reconcile

CONSTANTS InitialWalls, \* what may be on the wall before the daemon first runs
          AppLimit      \* the app hides "Add" at this many entries

VARIABLES wall,         \* the server's tracked_flights
          inflight,     \* lists POSTed whose request is still on its way
          app           \* the app's loaded copy, or NoCopy

wallVars == <<wall, inflight, app>>

NoCopy == [loaded |-> FALSE, flights |-> <<>>]

ASSUME InitialWallsAssumption ==
    \A w \in InitialWalls :
        /\ w \in Seq(Entry)
        /\ \A i \in DOMAIN w : w[i].by = "owner"
        /\ IsInjective(FlightNumbers(w))

ASSUME AppLimitAssumption == AppLimit \in Nat

WallTypeOK ==
    /\ wall \in Seq(Entry)
    /\ inflight \in SUBSET Seq(Entry)
    /\ app \in [loaded : BOOLEAN, flights : Seq(Entry)]

WallInit ==
    /\ wall \in InitialWalls
    /\ inflight = {}
    /\ app = NoCopy

NumbersOn(flights) == Range(FlightNumbers(flights))
Without(flights, n) ==
    KeptAt(flights, {i \in DOMAIN flights : flights[i].number # n})

-----------------------------------------------------------------------------
(* A POST takes effect: the stored list is the one sent. *)
Replace(flights) == wall' = flights

(* The server drops a landed flight. *)
Land(n) ==
    /\ n \in NumbersOn(wall)
    /\ wall' = Without(wall, n)
    /\ UNCHANGED <<inflight, app>>

(* A POST the client gave up on reaches the server after all. *)
ApplyLate(flights) ==
    /\ flights \in inflight
    /\ Replace(flights)
    /\ inflight' = inflight \ {flights}
    /\ UNCHANGED app

(* The owner opens the app: it loads the document. *)
AppLoad ==
    /\ app' = [loaded |-> TRUE, flights |-> wall]
    /\ UNCHANGED <<wall, inflight>>

(* The app posts its copy and keeps it. *)
AppPost(flights) ==
    /\ app.loaded
    /\ Replace(flights)
    /\ app' = [app EXCEPT !.flights = flights]
    /\ UNCHANGED inflight

AppAdd(n) ==
    /\ n \notin NumbersOn(app.flights)
    /\ Len(app.flights) < AppLimit
    /\ AppPost(Append(app.flights, [number |-> n, by |-> "owner"]))

AppRemove(n) ==
    /\ n \in NumbersOn(app.flights)
    /\ AppPost(Without(app.flights, n))
=============================================================================
