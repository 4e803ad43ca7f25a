--------------------------------- MODULE Sync ---------------------------------
(***************************************************************************)
(* One daemon keeping one wall in step with a calendar: run_cycle of       *)
(* src/service/cycle.rs with apply_plan and recover_pending_write of       *)
(* src/reconcile.rs, against the journal (module Journal) and the server   *)
(* and the owner's app (module Wall).  Every request to the server and     *)
(* every journal transaction is a step of its own, so that the app, the    *)
(* server and a crash can come between any two of them.                    *)
(*                                                                         *)
(* The environment's disturbances are bounded by Budget, one counter per   *)
(* kind; the theorems hold whatever the budget.                            *)
(***************************************************************************)
EXTENDS Journal, Wall

CONSTANTS Calendars,    \* what the calendar may want: repeat-free sequences
          ApplyModes,   \* values of run_cycle's `apply`: FALSE is a dry run
          Budget        \* how often each disturbance may happen

Disturbances == {"crash", "fault", "edit", "landing", "late", "calendar"}

ASSUME CalendarsAssumption == \A c \in Calendars : c \in Seq(Numbers) /\ ~DuplicateWanted(c)
ASSUME ApplyModesAssumption == ApplyModes \subseteq BOOLEAN
ASSUME BudgetAssumption == Budget \in [Disturbances -> Nat]

VARIABLES phase,        \* where the cycle is
          applying,     \* this cycle's `apply`
          calendar,     \* what the calendar holds now
          wanted,       \* what this cycle read from it
          snap,         \* the entries of the cycle's last authoritative read
          doc,          \* the entries this cycle POSTs
          left          \* the disturbances still allowed

(* Auxiliary: never read by the daemon. *)
VARIABLES safe,         \* numbers the daemon has seen to be the owner's
          sent          \* numbers the daemon ever asked the server to add

cycleVars == <<phase, applying, wanted, snap, doc>>
auxVars   == <<safe, sent>>
vars == <<journalVars, wallVars, cycleVars, calendar, left, auxVars>>

Phases == {"idle", "read", "recover", "reread", "plan", "post",
           "accepted", "rejected", "unknown", "judge"}

TypeOK ==
    /\ JournalTypeOK
    /\ WallTypeOK
    /\ phase \in Phases
    /\ applying \in BOOLEAN
    /\ calendar \in Calendars
    /\ wanted \in Seq(Numbers)
    /\ snap \in Seq(Entry)
    /\ doc \in Seq(Entry)
    /\ left \in [Disturbances -> Nat]
    /\ safe \in SUBSET Numbers
    /\ sent \in SUBSET Numbers

Init ==
    /\ JournalInit
    /\ WallInit
    /\ phase = "idle"
    /\ applying = FALSE
    /\ calendar \in Calendars
    /\ wanted = <<>>
    /\ snap = <<>>
    /\ doc = <<>>
    /\ left = Budget
    /\ safe = NumbersOn(wall)
    /\ sent = {}

Spend(kind) == left[kind] > 0 /\ left' = [left EXCEPT ![kind] = @ - 1]

Goto(from, to) == phase = from /\ phase' = to

(* The cycle ends, by return or by error: its locals are gone. *)
EndCycle ==
    /\ phase' = "idle"
    /\ applying' = FALSE
    /\ wanted' = <<>>
    /\ snap' = <<>>
    /\ doc' = <<>>

-----------------------------------------------------------------------------
(* run_cycle up to the wall's read. *)

(* The calendar and the parse were authoritative. *)
ReadCalendar ==
    /\ Goto("idle", "read")
    /\ applying' \in ApplyModes
    /\ wanted' = calendar
    /\ UNCHANGED <<journalVars, wallVars, snap, doc, calendar, left, auxVars>>

(* Either was not: the cycle ends before it looks at the wall or the journal. *)
CalendarNotAuthoritative ==
    /\ phase = "idle"
    /\ Spend("fault")
    /\ UNCHANGED <<journalVars, wallVars, cycleVars, calendar, auxVars>>

ReadWall ==
    /\ Goto("read", "recover")
    /\ snap' = wall
    /\ UNCHANGED <<journalVars, wallVars, applying, wanted, doc, calendar, left, auxVars>>

(* A wall read failed, the first or the one after recovery: recovery is
   deferred (it needs an authoritative snapshot) and the cycle ends. *)
WallNotAuthoritative ==
    /\ phase \in {"read", "reread"}
    /\ EndCycle
    /\ Spend("fault")
    /\ UNCHANGED <<journalVars, wallVars, calendar, auxVars>>

(* Mutated forms of Recover: an intent is cleared only when it applied; it is
   never taken to have applied. *)
RecoverWhenApplied ==
    /\ Goto("recover", IF pending.open THEN "reread" ELSE "plan")
    /\ IF pending.open /\ FlightNumbers(snap) = pending.desired
       THEN Settle(TRUE)
       ELSE UNCHANGED journalVars
    /\ UNCHANGED <<wallVars, applying, wanted, snap, doc, calendar, left, auxVars>>
RecoverAsNotApplied ==
    /\ Goto("recover", IF pending.open THEN "reread" ELSE "plan")
    /\ IF pending.open THEN Settle(FALSE) ELSE UNCHANGED journalVars
    /\ UNCHANGED <<wallVars, applying, wanted, snap, doc, calendar, left, auxVars>>

(* recover_pending_write on the snapshot just read; after a recovery the wall
   is read again. *)
Recover ==
    /\ Goto("recover", IF pending.open THEN "reread" ELSE "plan")
    /\ IF pending.open
       THEN Settle(FlightNumbers(snap) = pending.desired)
       ELSE UNCHANGED journalVars
    /\ UNCHANGED <<wallVars, applying, wanted, snap, doc, calendar, left, auxVars>>

RereadWall ==
    /\ Goto("reread", "plan")
    /\ snap' = wall
    /\ UNCHANGED <<journalVars, wallVars, applying, wanted, doc, calendar, left, auxVars>>

-----------------------------------------------------------------------------
(* plan, then apply_plan. *)

ThePlan == Plan(wanted, FlightNumbers(snap), owned)
TheDocument == FlightsFor(Desired(wanted, FlightNumbers(snap), owned), snap)

(* What this plan recognises as the owner's: on the wall, not journaled, and
   not about to be overwritten by an older list still on its way. *)
Recognised ==
    {n \in (NumbersOn(snap) \ owned) \cap NumbersOn(wall) :
        \A d \in inflight : n \in NumbersOn(d)}

(* Nothing to write, or nothing may be written.  Only an applying cycle
   forgets the entries the server dropped. *)
NoWrite ==
    /\ phase = "plan"
    /\ ~applying \/ ~Changed(ThePlan)
    /\ IF applying THEN Release(ThePlan.released) ELSE UNCHANGED journalVars
    /\ safe' = safe \cup Recognised
    /\ EndCycle
    /\ UNCHANGED <<wallVars, calendar, left, sent>>

(* The intent is journaled before the client sees the list; a list over the
   cap is refused there, and the intent stays. *)
JournalIntent ==
    /\ phase = "plan"
    /\ applying
    /\ Changed(ThePlan)
    /\ BeginPendingWrite(ThePlan.desired, FlightNumbers(snap))
    /\ safe' = safe \cup Recognised

Refuse ==
    /\ JournalIntent
    /\ Len(TheDocument) > Cap
    /\ EndCycle
    /\ UNCHANGED <<wallVars, calendar, left, sent>>

Send ==
    /\ JournalIntent
    /\ Len(TheDocument) <= Cap
    /\ phase' = "post"
    /\ doc' = TheDocument
    /\ UNCHANGED <<wallVars, applying, wanted, snap, calendar, left, sent>>

-----------------------------------------------------------------------------
(* The POST: what the server does with it and what the client hears. *)

PostStep(heard) ==
    /\ Goto("post", heard)
    /\ sent' = sent \cup (NumbersOn(doc) \ NumbersOn(snap))
    /\ UNCHANGED <<journalVars, app, applying, wanted, snap, doc, calendar, safe>>

(* 200: the list is stored. *)
PostAccepted ==
    /\ PostStep("accepted")
    /\ Replace(doc)
    /\ UNCHANGED <<inflight, left>>

(* Any other status: nothing changed. *)
PostRejected ==
    /\ PostStep("rejected")
    /\ Spend("fault")
    /\ UNCHANGED <<wall, inflight>>

(* The transport failed: the server stored the list, or never got it whole, or
   will yet store it. *)
PostUnanswered ==
    /\ PostStep("unknown")
    /\ \/ Spend("fault") /\ Replace(doc) /\ UNCHANGED inflight
       \/ Spend("fault") /\ UNCHANGED <<wall, inflight>>
       \/ Spend("late") /\ inflight' = inflight \cup {doc} /\ UNCHANGED wall

(* The re-read after 200 is only reported; the settle trusts the answer. *)
SettleAccepted ==
    /\ phase = "accepted"
    /\ Settle(TRUE)
    /\ EndCycle
    /\ UNCHANGED <<wallVars, calendar, left, auxVars>>

(* Mutated form: any answer counts as applied. *)
SettleAnswered ==
    /\ phase = "rejected"
    /\ Settle(TRUE)
    /\ EndCycle
    /\ UNCHANGED <<wallVars, calendar, left, auxVars>>

SettleRejected ==
    /\ phase = "rejected"
    /\ Settle(FALSE)
    /\ EndCycle
    /\ UNCHANGED <<wallVars, calendar, left, auxVars>>

(* After a transport failure only a re-read can say; without one the intent
   stays for the next cycle. *)
RereadAfterPost ==
    /\ Goto("unknown", "judge")
    /\ snap' = wall
    /\ UNCHANGED <<journalVars, wallVars, applying, wanted, doc, calendar, left, auxVars>>

RereadAfterPostFails ==
    /\ phase = "unknown"
    /\ EndCycle
    /\ Spend("fault")
    /\ UNCHANGED <<journalVars, wallVars, calendar, auxVars>>

SettleUnknown ==
    /\ phase = "judge"
    /\ Settle(FlightNumbers(snap) = pending.desired)
    /\ EndCycle
    /\ UNCHANGED <<wallVars, calendar, left, auxVars>>

-----------------------------------------------------------------------------
(* The daemon dies, or a journal transaction fails and ends the cycle: only
   the journal survives. *)
Crash ==
    /\ phase # "idle"
    /\ EndCycle
    /\ Spend("crash")
    /\ UNCHANGED <<journalVars, wallVars, calendar, auxVars>>

(* What the owner and the server do meanwhile.  A number they take off the
   wall is no longer the daemon's to keep. *)
StillThere == safe' = safe \cap NumbersOn(wall')

CalendarChanges ==
    /\ Spend("calendar")
    /\ calendar' \in Calendars \ {calendar}
    /\ UNCHANGED <<journalVars, wallVars, cycleVars, auxVars>>

ServerLands ==
    /\ Spend("landing")
    /\ \E n \in Numbers : Land(n)
    /\ StillThere
    /\ UNCHANGED <<journalVars, cycleVars, calendar, sent>>

ServerAppliesLate ==
    /\ \E d \in inflight : ApplyLate(d)
    /\ UNCHANGED <<journalVars, cycleVars, calendar, left, auxVars>>

OwnerLoads ==
    /\ left["edit"] > 0
    /\ AppLoad
    /\ UNCHANGED <<journalVars, cycleVars, calendar, left, auxVars>>

OwnerEdits ==
    /\ Spend("edit")
    /\ \E n \in Numbers : AppAdd(n) \/ AppRemove(n)
    /\ StillThere
    /\ UNCHANGED <<journalVars, cycleVars, calendar, sent>>

Cycle ==
    \/ ReadCalendar \/ CalendarNotAuthoritative \/ ReadWall \/ WallNotAuthoritative
    \/ Recover \/ RereadWall \/ NoWrite \/ Refuse \/ Send
    \/ PostAccepted \/ PostRejected \/ PostUnanswered
    \/ SettleAccepted \/ SettleRejected
    \/ RereadAfterPost \/ RereadAfterPostFails \/ SettleUnknown

Environment ==
    \/ Crash \/ CalendarChanges \/ ServerLands \/ ServerAppliesLate
    \/ OwnerLoads \/ OwnerEdits

Next == Cycle \/ Environment

Spec == Init /\ [][Next]_vars

(* The poll loop always runs its next cycle and every call in a cycle returns:
   requests have timeouts.  The environment owes nothing. *)
FairSpec == Spec /\ WF_vars(Cycle)

-----------------------------------------------------------------------------
(* Safety. *)

(* What the daemon has once seen on the wall without owning it stays there
   until the owner or the server takes it off: no plan, no retry, no recovery
   after a crash and no late POST of the daemon removes it (README "is yours
   and is never touched"; src/state.rs:3-5). *)
OwnerEntriesStay == safe \subseteq NumbersOn(wall)

(* A cycle only plans once the previous intent is settled, so
   begin_pending_write never meets PendingWriteExists, whatever the previous
   cycle left behind: a crash, a deferred recovery or a refused list. *)
PlansWithoutIntent == phase \in {"reread", "plan"} => ~pending.open

(* No write of the daemon, late or not, leaves two entries with one number on
   the wall: the number is the only identity an entry has. *)
NoNumberTwice ==
    /\ IsInjective(FlightNumbers(wall))
    /\ \A d \in inflight : IsInjective(FlightNumbers(d))

(* The entries on the wall that the daemon made. *)
Made == {wall[i].number : i \in {j \in DOMAIN wall : wall[j].by = "daemon"}}

(* While nobody else writes the wall, the journal is exact: with no intent
   open it owns precisely the entries the daemon made, and an open intent is
   either wholly done or wholly undone.  So whichever way recovery decides,
   no entry of the daemon is orphaned and none of the owner's adopted
   (src/reconcile.rs recover_pending_write). *)
JournalExact ==
    IF pending.open
    THEN Made \in {owned, OwnedAfter(owned, pending.desired, pending.before)}
    ELSE Made = owned

(* A POST that meets the wall it was planned against takes off only entries
   the journal owns, and sends every other one back as it was read. *)
PostDropsOnlyOwned ==
    [][ (phase = "post" /\ phase' \in {"accepted", "unknown"} /\ wall = snap) =>
        \A i \in DOMAIN wall : wall[i].number \notin owned => wall[i] \in Range(wall') ]_vars

(* The wall holds what the plan asks for, no intent is open and nothing is to
   be released: a cycle would do nothing. *)
InStep ==
    LET plan == Plan(calendar, FlightNumbers(wall), owned)
    IN  ~pending.open /\ ~Changed(plan) /\ plan.released = {}

(* What other clients put on the wall leaves no list the client would send:
   even one that only removes is over the cap. *)
Overfull == Len(FlightsFor(Desired(calendar, FlightNumbers(wall), owned), wall)) > Cap

(* Liveness: after the last disturbance, whatever it was, the wall comes into
   step with the calendar and stays there.  Only a wall filled over the cap by
   others stays as it is, every write to it refused. *)
Converges == <>[]InStep \/ <>[]Overfull

(* Every intent is settled in the end, a refused one included. *)
IntentsSettle == pending.open ~> ~pending.open

-----------------------------------------------------------------------------
(* What the documentation says of entries the daemon made and removes; each is
   compared with the code in a run of its own. *)

(* src/state.rs:4-5: "A flight_number absent from owned_flights is the
   owner's".  So what the daemon made is in owned_flights or in the open intent. *)
MadeAreJournaled ==
    Made \subseteq owned \cup
        (IF pending.open THEN Range(pending.desired) \ Range(pending.before) ELSE {})

(* README.md:220 "It only removes flight numbers it added": a write drops no
   entry the daemon never asked the server to add. *)
RemovesOnlyAdded ==
    phase = "post" => (NumbersOn(snap) \ NumbersOn(doc)) \subseteq sent

-----------------------------------------------------------------------------
(* While nobody else writes the wall, Sync implements AtomicSync: an intent
   the server has already carried out counts as settled.  Every crash, retry,
   deferred recovery and lost answer is a stutter or one whole write. *)
SettledOwned ==
    IF pending.open /\ FlightNumbers(wall) = pending.desired
    THEN OwnedAfter(owned, pending.desired, pending.before)
    ELSE owned

Atomic == INSTANCE AtomicSync WITH owned <- SettledOwned

ImplementsAtomicSync == Atomic!Spec
=============================================================================
