------------------------------ MODULE Reconcile ------------------------------
(***************************************************************************)
(* The pure part of src/reconcile.rs: what the wall should hold, which     *)
(* entries a write sends, and what the journal owns once a write settled.  *)
(*                                                                         *)
(* A flight number is the only identity a wall entry has.  An entry is a   *)
(* record [number, by]; `by` stands for the client-stamped created_at and  *)
(* the display toggles, which tell who made the entry but which the code   *)
(* never reads back: it only copies them.                                  *)
(***************************************************************************)
EXTENDS Integers, Sequences, FiniteSets, Functions

CONSTANTS Numbers,  \* flight numbers
          Cap       \* MAX_TRACKED_FLIGHTS, and the cap plan_with_cap is given

ASSUME CapAssumption == Cap \in Nat

(* TrackedFlight. *)
Entry == [number : Numbers, by : {"owner", "daemon"}]

(* WallSnapshot::flight_numbers: the numbers in wall order. *)
FlightNumbers(flights) == [i \in DOMAIN flights |-> flights[i].number]

(* The subsequence of s at the positions idx, in the order of s.  It is written
   by the rank of a kept position rather than by recursion, so that its
   properties can be proved. *)
Rank(idx, i) == Cardinality({j \in idx : j <= i})
KeptAt(s, idx) ==
    [k \in 1..Cardinality(idx) |-> s[CHOOSE i \in idx : Rank(idx, i) = k]]

(* The elements of s that lie in S: what each filtering loop collects. *)
Kept(s, S) == KeptAt(s, {i \in DOMAIN s : s[i] \in S})

-----------------------------------------------------------------------------
(* plan_with_cap, piece by piece.  `wanted` and `onWall` are sequences of
   flight numbers, `owned` the set of journaled numbers. *)

(* Mutated form: only wanted entries stay, whoever added them. *)
StayingWanted(wanted, onWall, owned) == Kept(onWall, Range(wanted))

(* What stays: entries the daemon does not own, and owned ones still wanted. *)
Staying(wanted, onWall, owned) ==
    Kept(onWall, (Range(onWall) \ owned) \cup Range(wanted))

(* Mutated form: wanted numbers are added whether or not the wall has them. *)
FreshAll(wanted, onWall) == wanted

(* Wanted numbers not on the wall yet, in calendar order. *)
Fresh(wanted, onWall) == Kept(wanted, Range(wanted) \ Range(onWall))

(* Mutated forms of Fitting: off by one, before the removals. *)
FittingPastCap(wanted, onWall, owned) ==
    LET taken == Len(Staying(wanted, onWall, owned))
        room  == IF taken <= Cap THEN Cap + 1 - taken ELSE 0
        asked == Len(Fresh(wanted, onWall))
    IN  IF asked < room THEN asked ELSE room
FittingBeforeRemovals(wanted, onWall, owned) ==
    LET room  == IF Len(onWall) < Cap THEN Cap - Len(onWall) ELSE 0
        asked == Len(Fresh(wanted, onWall))
    IN  IF asked < room THEN asked ELSE room

(* How many of them fit: `desired.len() < cap` before each push. *)
Fitting(wanted, onWall, owned) ==
    LET taken == Len(Staying(wanted, onWall, owned))
        room  == IF taken < Cap THEN Cap - taken ELSE 0
        asked == Len(Fresh(wanted, onWall))
    IN  IF asked < room THEN asked ELSE room

Additions(wanted, onWall, owned) ==
    SubSeq(Fresh(wanted, onWall), 1, Fitting(wanted, onWall, owned))

Desired(wanted, onWall, owned) ==
    Staying(wanted, onWall, owned) \o Additions(wanted, onWall, owned)

(* The whole Plan.  `released` is a set because the code walks the journal's
   keys, which have no wall order. *)
Plan(wanted, onWall, owned) ==
    LET fits == Fitting(wanted, onWall, owned)
        new  == Fresh(wanted, onWall)
    IN  [desired     |-> Desired(wanted, onWall, owned),
         additions   |-> Additions(wanted, onWall, owned),
         removals    |-> Kept(onWall, owned \ Range(wanted)),
         manual      |-> Kept(onWall, Range(onWall) \ owned),
         suppressed  |-> Kept(wanted, Range(onWall) \ owned),
         unplaceable |-> SubSeq(new, fits + 1, Len(new)),
         released    |-> owned \ Range(onWall)]

(* Plan::changed. *)
Changed(plan) == plan.additions # <<>> \/ plan.removals # <<>>

(* plan_with_cap's DuplicateWanted check; its other error, a non-authoritative
   snapshot, is a guard of the caller. *)
DuplicateWanted(wanted) == ~IsInjective(wanted)

-----------------------------------------------------------------------------
(* flights_for: entries already on the wall go back as they were read (the
   BTreeMap keeps the last entry of a repeated number), new ones are stamped. *)
Existing(flights, n) ==
    flights[CHOOSE i \in DOMAIN flights :
                /\ flights[i].number = n
                /\ \A j \in DOMAIN flights : flights[j].number = n => j <= i]

(* Mutated form: everything is stamped anew. *)
FlightsForRestamped(desired, flights) ==
    [k \in DOMAIN desired |-> [number |-> desired[k], by |-> "daemon"]]

FlightsFor(desired, flights) ==
    [k \in DOMAIN desired |->
        IF desired[k] \in Range(FlightNumbers(flights))
        THEN Existing(flights, desired[k])
        ELSE [number |-> desired[k], by |-> "daemon"]]

(* Mutated form: what was already on the wall is owned too. *)
OwnedAfterAdopting(owned, desired, before) ==
    (owned \cup Range(desired)) \cap Range(desired)

(* settle with applied = true: own what was added, release what was dropped. *)
OwnedAfter(owned, desired, before) ==
    (owned \cup (Range(desired) \ Range(before))) \cap Range(desired)

=============================================================================
