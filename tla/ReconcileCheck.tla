---------------------------- MODULE ReconcileCheck ----------------------------
(***************************************************************************)
(* Checks the operators of Reconcile over every small input: one write     *)
(* cycle (plan, POST accepted, settle) is taken from every combination of  *)
(* calendar, wall and journal, including walls that repeat a number.       *)
(***************************************************************************)
EXTENDS Reconcile, SequencesExt

CONSTANTS MaxWall,      \* longest wall considered
          MaxWanted     \* longest wanted list considered

ASSUME BoundsAssumption == MaxWall \in Nat /\ MaxWanted \in Nat

VARIABLES wanted,       \* the calendar's numbers for today, no repeats
          wall,         \* the wall's entries
          owned,        \* the journal's owned_flights
          cycles        \* write cycles taken so far

vars == <<wanted, wall, owned, cycles>>

Init ==
    /\ wanted \in {s \in BoundedSeq(Numbers, MaxWanted) : ~DuplicateWanted(s)}
    /\ wall \in BoundedSeq(Entry, MaxWall)
    /\ owned \in SUBSET Numbers
    /\ cycles = 0

ThePlan == Plan(wanted, FlightNumbers(wall), owned)
Sent    == FlightsFor(ThePlan.desired, wall)

(* A cycle whose plan changes nothing: forget what the server dropped. *)
Forget ==
    /\ cycles = 0
    /\ ~Changed(ThePlan)
    /\ owned' = owned \ ThePlan.released
    /\ UNCHANGED <<wanted, wall>>
    /\ cycles' = cycles + 1

(* A cycle that writes: the client refuses lists over the cap. *)
Write ==
    /\ cycles = 0
    /\ Changed(ThePlan)
    /\ Len(Sent) <= Cap
    /\ wall' = Sent
    /\ owned' = OwnedAfter(owned, ThePlan.desired, FlightNumbers(wall))
    /\ UNCHANGED wanted
    /\ cycles' = cycles + 1

Next == Forget \/ Write

Spec == Init /\ [][Next]_vars

-----------------------------------------------------------------------------
(* The loops of plan_with_cap, pushed element by element: each wall entry
   stays or goes, then each wanted number the wall lacks is placed or not. *)
Nothing == [desired |-> <<>>, manual |-> <<>>, removals |-> <<>>,
            additions |-> <<>>, unplaceable |-> <<>>]

Sort(acc, n) ==
    IF n \notin owned
    THEN [acc EXCEPT !.manual = Append(@, n), !.desired = Append(@, n)]
    ELSE IF n \in Range(wanted)
         THEN [acc EXCEPT !.desired = Append(@, n)]
         ELSE [acc EXCEPT !.removals = Append(@, n)]

SortedLoop ==
    LET onWall == FlightNumbers(wall)
        after[k \in 0..Len(onWall)] ==
            IF k = 0 THEN Nothing ELSE Sort(after[k - 1], onWall[k])
    IN  after[Len(onWall)]

Place(acc, n) ==
    IF n \in Range(FlightNumbers(wall)) THEN acc
    ELSE IF Len(acc.desired) < Cap
         THEN [acc EXCEPT !.desired = Append(@, n), !.additions = Append(@, n)]
         ELSE [acc EXCEPT !.unplaceable = Append(@, n)]

LoopPlan ==
    LET sorted == SortedLoop
        after[k \in 0..Len(wanted)] ==
            IF k = 0 THEN sorted ELSE Place(after[k - 1], wanted[k])
    IN  after[Len(wanted)]

(* The closed form of the plan is what the code's two loops compute, field by
   field, on every input (src/reconcile.rs plan_with_cap). *)
PlanIsTheLoop ==
    LET loop == LoopPlan
    IN  /\ ThePlan.desired = loop.desired
        /\ ThePlan.manual = loop.manual
        /\ ThePlan.removals = loop.removals
        /\ ThePlan.additions = loop.additions
        /\ ThePlan.unplaceable = loop.unplaceable

(* A write keeps every entry the journal does not own, in wall order, and as
   the same number of copies; it never repeats a number the wall did not
   already repeat. *)
WriteKeepsUnowned ==
    [][ Write =>
        LET before == FlightNumbers(wall)
            after  == FlightNumbers(wall')
        IN  /\ Kept(after, Range(before) \ owned) = Kept(before, Range(before) \ owned)
            /\ IsInjective(before) => IsInjective(after)
            /\ IsInjective(before) =>
                   {wall[i] : i \in {j \in DOMAIN wall : wall[j].number \notin owned}}
                       \subseteq Range(wall') ]_vars

(* Every wanted number is accounted for exactly once: on the list to write or
   reported unplaceable, and unplaceable only when the list is full. *)
WantedAccountedFor ==
    /\ Range(wanted) \subseteq Range(ThePlan.desired) \cup Range(ThePlan.unplaceable)
    /\ Range(ThePlan.desired) \cap Range(ThePlan.unplaceable) = {}
    /\ ThePlan.unplaceable # <<>> => Len(ThePlan.desired) >= Cap
    /\ ThePlan.additions # <<>> => Len(ThePlan.desired) <= Cap
=============================================================================
