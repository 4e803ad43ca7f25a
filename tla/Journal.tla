------------------------------- MODULE Journal -------------------------------
(***************************************************************************)
(* The ownership journal of src/state.rs: the owned_flights table and the  *)
(* singleton pending_writes row.  Each action is one SQLite transaction,   *)
(* so it happens entirely or not at all, and what it wrote survives a      *)
(* crash.  reconcile.rs decides which transaction to run; its `settle` is  *)
(* one of them.                                                            *)
(***************************************************************************)
EXTENDS Reconcile

VARIABLES owned,    \* owned_flights: numbers the daemon recorded adding
          pending   \* the journaled intent, or NoIntent

journalVars == <<owned, pending>>

NoIntent == [open |-> FALSE, desired |-> <<>>, before |-> <<>>]
Intent(desired, before) == [open |-> TRUE, desired |-> desired, before |-> before]

JournalTypeOK ==
    /\ owned \in SUBSET Numbers
    /\ pending \in [open : BOOLEAN, desired : Seq(Numbers), before : Seq(Numbers)]

(* StateStore::open on a new database: both tables are empty. *)
JournalInit == owned = {} /\ pending = NoIntent

(* begin_pending_write: one intent at a time. *)
BeginPendingWrite(desired, before) ==
    /\ ~pending.open
    /\ pending' = Intent(desired, before)
    /\ UNCHANGED owned

(* Mutated form: the intent is cleared only when the write applied. *)
SettleKeepingIntent(applied) ==
    /\ pending' = IF applied THEN NoIntent ELSE pending
    /\ owned' = IF applied
                THEN OwnedAfter(owned, pending.desired, pending.before)
                ELSE owned

(* settle: resolve_pending_write; if the write applied, record_owned each
   addition and release_owned everything the list no longer holds. *)
Settle(applied) ==
    /\ pending' = NoIntent
    /\ owned' = IF applied
                THEN OwnedAfter(owned, pending.desired, pending.before)
                ELSE owned

(* apply_plan without a write: release_owned each vanished entry. *)
Release(gone) ==
    /\ owned' = owned \ gone
    /\ UNCHANGED pending
=============================================================================
