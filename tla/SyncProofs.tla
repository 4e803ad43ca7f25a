------------------------------ MODULE SyncProofs ------------------------------
(***************************************************************************)
(* For every Cap, every set of flight numbers, every calendar and every    *)
(* budget of crashes, lost or late answers, landings and owner's edits:    *)
(* Sync keeps its types, plans only without an open intent, never takes an *)
(* entry it has seen to be the owner's off the wall, leaves no number on   *)
(* the wall twice, and sends every entry it does not own back as it was    *)
(* read.  For every instance in which the daemon is the only writer,       *)
(* whatever crashes and fails: the journal is exact, and Sync implements   *)
(* AtomicSync.                                                             *)
(***************************************************************************)
EXTENDS Sync, ReconcileProofs

USE CapAssumption, InitialWallsAssumption, AppLimitAssumption,
    CalendarsAssumption, ApplyModesAssumption, BudgetAssumption

-----------------------------------------------------------------------------
(* What the wall's operators return. *)

(* The numbers of a list of entries are flight numbers. *)
LEMMA NumbersOnType ==
  ASSUME NEW flights \in Seq(Entry)
  PROVE  NumbersOn(flights) \in SUBSET Numbers
BY FlightNumbersType, RangeOfSeq DEF NumbersOn

(* Taking a number off a list of entries leaves a list of entries. *)
LEMMA WithoutType ==
  ASSUME NEW flights \in Seq(Entry), NEW n
  PROVE  Without(flights, n) \in Seq(Entry)
<1> DEFINE idx == {i \in DOMAIN flights : flights[i].number # n}
<1>1. KeptAt(flights, idx) \in Seq({flights[i] : i \in idx})
  BY KeptAtProperties
<1>2. {flights[i] : i \in idx} \subseteq Entry
  BY LenProperties, ElementOfSeq
<1>3. QED
  BY <1>1, <1>2, SeqMonotonic DEF Without

(* The document a cycle sends holds the numbers its plan desires. *)
LEMMA TheDocumentProperties ==
  ASSUME TypeOK
  PROVE  /\ TheDocument \in Seq(Entry)
         /\ ThePlan.desired \in Seq(Numbers)
         /\ FlightNumbers(snap) \in Seq(Numbers)
         /\ NumbersOn(TheDocument) = Range(ThePlan.desired)
         /\ NumbersOn(snap) \ owned \subseteq NumbersOn(TheDocument)
<1> DEFINE desired == Desired(wanted, FlightNumbers(snap), owned)
<1>1. wanted \in Seq(Numbers) /\ snap \in Seq(Entry)
  BY DEF TypeOK
<1>2. FlightNumbers(snap) \in Seq(Numbers)
  BY <1>1, FlightNumbersType
<1>3. desired \in Seq(Numbers) /\ Range(FlightNumbers(snap)) \ owned \subseteq Range(desired)
  BY <1>1, <1>2, DesiredKeepsUnowned
<1>4. ThePlan.desired = desired
  BY DEF ThePlan, Plan
<1>5. /\ FlightsFor(desired, snap) \in Seq(Entry)
      /\ FlightNumbers(FlightsFor(desired, snap)) = desired
  BY <1>1, <1>3, FlightsForProperties
<1>6. QED
  BY <1>2, <1>3, <1>4, <1>5 DEF TheDocument, NumbersOn

(* What a settled write owns is a set of flight numbers. *)
LEMMA OwnedAfterType ==
  ASSUME NEW o \in SUBSET Numbers, NEW desired \in Seq(Numbers), NEW before
  PROVE  OwnedAfter(o, desired, before) \in SUBSET Numbers
BY RangeOfSeq DEF OwnedAfter

-----------------------------------------------------------------------------
(* Type correctness. *)

(* The types hold at the start. *)
LEMMA InitType == Init => TypeOK
<1> SUFFICES ASSUME Init PROVE TypeOK
  OBVIOUS
<1>1. <<>> \in Seq(Numbers) /\ <<>> \in Seq(Entry)
  BY EmptySeq
<1>2. wall \in Seq(Entry)
  BY DEF Init, WallInit
<1>3. NumbersOn(wall) \in SUBSET Numbers
  BY <1>2, NumbersOnType
<1>4. JournalTypeOK
  BY <1>1 DEF Init, JournalInit, JournalTypeOK, NoIntent
<1>5. WallTypeOK
  BY <1>1, <1>2 DEF Init, WallInit, WallTypeOK, NoCopy
<1>6. QED
  BY <1>1, <1>3, <1>4, <1>5 DEF Init, TypeOK, Phases

(* Spending a disturbance keeps the counters natural. *)
LEMMA SpendType ==
  ASSUME left \in [Disturbances -> Nat], NEW kind \in Disturbances, Spend(kind)
  PROVE  left' \in [Disturbances -> Nat]
BY DEF Spend

(* Settling keeps the journal's types. *)
LEMMA SettleType ==
  ASSUME JournalTypeOK, NEW applied, Settle(applied)
  PROVE  JournalTypeOK'
<1>1. <<>> \in Seq(Numbers)
  BY EmptySeq
<1>2. pending' \in [open : BOOLEAN, desired : Seq(Numbers), before : Seq(Numbers)]
  BY <1>1 DEF Settle, NoIntent
<1>3. OwnedAfter(owned, pending.desired, pending.before) \in SUBSET Numbers
  BY OwnedAfterType DEF JournalTypeOK
<1>4. owned' \in SUBSET Numbers
  BY <1>3 DEF Settle, JournalTypeOK
<1>5. QED
  BY <1>2, <1>4 DEF JournalTypeOK

(* Ending a cycle leaves its locals typed. *)
LEMMA EndCycleType ==
  ASSUME EndCycle
  PROVE  /\ phase' \in Phases
         /\ applying' \in BOOLEAN
         /\ wanted' \in Seq(Numbers)
         /\ snap' \in Seq(Entry)
         /\ doc' \in Seq(Entry)
BY EmptySeq DEF EndCycle, Phases

(* Journaling an intent keeps the types of the journal and of safe. *)
LEMMA JournalIntentType ==
  ASSUME TypeOK, JournalIntent
  PROVE  JournalTypeOK' /\ safe' \in SUBSET Numbers
<1>1. ThePlan.desired \in Seq(Numbers) /\ FlightNumbers(snap) \in Seq(Numbers)
  BY TheDocumentProperties
<1>2. JournalTypeOK'
  BY <1>1 DEF JournalIntent, BeginPendingWrite, Intent, TypeOK, JournalTypeOK
<1>3. snap \in Seq(Entry) /\ safe \in SUBSET Numbers
  BY DEF TypeOK
<1>4. safe' \in SUBSET Numbers
  BY <1>3, NumbersOnType DEF JournalIntent, Recognised
<1>5. QED
  BY <1>2, <1>4

(* Each step of a cycle keeps the types. *)
LEMMA CycleType ==
  ASSUME TypeOK, Cycle
  PROVE  TypeOK'
<1> USE DEF TypeOK
<1>1. CASE ReadCalendar
  BY <1>1 DEF ReadCalendar, Goto, Phases, journalVars, wallVars, auxVars, JournalTypeOK, WallTypeOK
<1>2. CASE CalendarNotAuthoritative
  BY <1>2, SpendType DEF CalendarNotAuthoritative, journalVars, wallVars, cycleVars, auxVars,
     JournalTypeOK, WallTypeOK, Disturbances
<1>3. CASE ReadWall
  BY <1>3 DEF ReadWall, Goto, Phases, journalVars, wallVars, auxVars, JournalTypeOK, WallTypeOK
<1>4. CASE WallNotAuthoritative
  BY <1>4, SpendType, EndCycleType DEF WallNotAuthoritative, journalVars, wallVars, auxVars,
     JournalTypeOK, WallTypeOK, Disturbances
<1>5. CASE Recover
  <2>1. JournalTypeOK'
    BY <1>5, SettleType DEF Recover, journalVars, JournalTypeOK
  <2>2. QED
    BY <1>5, <2>1 DEF Recover, Goto, Phases, wallVars, auxVars, WallTypeOK
<1>6. CASE RereadWall
  BY <1>6 DEF RereadWall, Goto, Phases, journalVars, wallVars, auxVars, JournalTypeOK, WallTypeOK
<1>7. CASE NoWrite
  <2>1. JournalTypeOK'
    BY <1>7 DEF NoWrite, Release, journalVars, JournalTypeOK
  <2>2. safe' \in SUBSET Numbers
    BY <1>7, NumbersOnType DEF NoWrite, Recognised
  <2>3. QED
    BY <1>7, <2>1, <2>2, EndCycleType DEF NoWrite, wallVars, WallTypeOK
<1>8. CASE Refuse
  <2>1. JournalTypeOK' /\ safe' \in SUBSET Numbers
    BY <1>8, JournalIntentType DEF Refuse
  <2>2. QED
    BY <1>8, <2>1, EndCycleType DEF Refuse, wallVars, WallTypeOK
<1>9. CASE Send
  <2>1. JournalTypeOK' /\ safe' \in SUBSET Numbers
    BY <1>9, JournalIntentType DEF Send
  <2>2. doc' \in Seq(Entry)
    BY <1>9, TheDocumentProperties DEF Send
  <2>3. QED
    BY <1>9, <2>1, <2>2 DEF Send, Phases, wallVars, WallTypeOK
<1>10. ASSUME NEW heard \in {"accepted", "rejected", "unknown"}, PostStep(heard)
       PROVE  /\ JournalTypeOK' /\ phase' \in Phases /\ applying' \in BOOLEAN
              /\ wanted' \in Seq(Numbers) /\ snap' \in Seq(Entry) /\ doc' \in Seq(Entry)
              /\ calendar' \in Calendars /\ safe' \in SUBSET Numbers
              /\ sent' \in SUBSET Numbers /\ app' = app
  <2>1. sent' \in SUBSET Numbers
    BY <1>10, NumbersOnType DEF PostStep
  <2>2. QED
    BY <1>10, <2>1 DEF PostStep, Goto, Phases, journalVars, JournalTypeOK
<1>11. CASE PostAccepted
  BY <1>10, <1>11 DEF PostAccepted, Replace, WallTypeOK
<1>12. CASE PostRejected
  BY <1>10, <1>12, SpendType DEF PostRejected, WallTypeOK, Disturbances
<1>13. CASE PostUnanswered
  <2>1. PostStep("unknown")
    BY <1>13 DEF PostUnanswered
  <2>2. left' \in [Disturbances -> Nat]
    BY <1>13, SpendType DEF PostUnanswered, Disturbances
  <2>3. WallTypeOK'
    BY <1>10, <1>13, <2>1 DEF PostUnanswered, Replace, WallTypeOK
  <2>4. QED
    BY <1>10, <2>1, <2>2, <2>3
<1>14. CASE SettleAccepted
  BY <1>14, SettleType, EndCycleType DEF SettleAccepted, wallVars, auxVars, WallTypeOK
<1>15. CASE SettleRejected
  BY <1>15, SettleType, EndCycleType DEF SettleRejected, wallVars, auxVars, WallTypeOK
<1>16. CASE RereadAfterPost
  BY <1>16 DEF RereadAfterPost, Goto, Phases, journalVars, wallVars, auxVars, JournalTypeOK, WallTypeOK
<1>17. CASE RereadAfterPostFails
  BY <1>17, SpendType, EndCycleType DEF RereadAfterPostFails, journalVars, wallVars, auxVars,
     JournalTypeOK, WallTypeOK, Disturbances
<1>18. CASE SettleUnknown
  BY <1>18, SettleType, EndCycleType DEF SettleUnknown, wallVars, auxVars, WallTypeOK
<1>19. QED
  BY <1>1, <1>2, <1>3, <1>4, <1>5, <1>6, <1>7, <1>8, <1>9, <1>11, <1>12, <1>13, <1>14,
     <1>15, <1>16, <1>17, <1>18 DEF Cycle

(* Each step of the environment keeps the types. *)
LEMMA EnvironmentType ==
  ASSUME TypeOK, Environment
  PROVE  TypeOK'
<1> USE DEF TypeOK
<1>1. CASE Crash
  BY <1>1, SpendType, EndCycleType DEF Crash, journalVars, wallVars, auxVars,
     JournalTypeOK, WallTypeOK, Disturbances
<1>2. CASE CalendarChanges
  BY <1>2, SpendType DEF CalendarChanges, journalVars, wallVars, cycleVars, auxVars,
     JournalTypeOK, WallTypeOK, Disturbances
<1>3. CASE ServerLands
  <2>1. WallTypeOK'
    BY <1>3, WithoutType DEF ServerLands, Land, WallTypeOK
  <2>2. QED
    BY <1>3, <2>1, SpendType DEF ServerLands, StillThere, journalVars, cycleVars,
       JournalTypeOK, Disturbances
<1>4. CASE ServerAppliesLate
  <2>1. WallTypeOK'
    BY <1>4 DEF ServerAppliesLate, ApplyLate, Replace, WallTypeOK
  <2>2. QED
    BY <1>4, <2>1 DEF ServerAppliesLate, journalVars, cycleVars, auxVars, JournalTypeOK
<1>5. CASE OwnerLoads
  BY <1>5 DEF OwnerLoads, AppLoad, journalVars, cycleVars, auxVars, JournalTypeOK, WallTypeOK
<1>6. CASE OwnerEdits
  <2>1. PICK n \in Numbers : AppAdd(n) \/ AppRemove(n)
    BY <1>6 DEF OwnerEdits
  <2>2. app.flights \in Seq(Entry)
    BY DEF WallTypeOK
  <2>3. PICK flights \in Seq(Entry) : AppPost(flights)
    <3>1. CASE AppAdd(n)
      <4>1. [number |-> n, by |-> "owner"] \in Entry
        BY DEF Entry
      <4>2. Append(app.flights, [number |-> n, by |-> "owner"]) \in Seq(Entry)
        BY <2>2, <4>1, AppendProperties
      <4>3. QED
        BY <3>1, <4>2 DEF AppAdd
    <3>2. CASE AppRemove(n)
      BY <2>2, <3>2, WithoutType DEF AppRemove
    <3>3. QED
      BY <2>1, <3>1, <3>2
  <2>4. WallTypeOK'
    BY <2>3 DEF AppPost, Replace, WallTypeOK
  <2>5. QED
    BY <1>6, <2>4, SpendType DEF OwnerEdits, StillThere, journalVars, cycleVars,
       JournalTypeOK, Disturbances
<1>7. QED
  BY <1>1, <1>2, <1>3, <1>4, <1>5, <1>6 DEF Environment

(* Sync keeps its types. *)
THEOREM TypeCorrect == Spec => []TypeOK
<1>1. TypeOK /\ [Next]_vars => TypeOK'
  <2>1. CASE UNCHANGED vars
    BY <2>1 DEF TypeOK, vars, journalVars, wallVars, cycleVars, auxVars, JournalTypeOK, WallTypeOK
  <2>2. QED
    BY <2>1, CycleType, EnvironmentType DEF Next
<1>2. QED
  BY <1>1, InitType, PTL DEF Spec

-----------------------------------------------------------------------------
(* One intent at a time. *)

(* An intent is open from the moment it is journaled until its POST is
   settled, and never when a cycle plans. *)
IntentInv ==
    /\ PlansWithoutIntent
    /\ phase \in {"post", "accepted", "rejected", "unknown", "judge"} => pending.open

(* A settle leaves no intent open. *)
LEMMA SettleCloses ==
  ASSUME NEW applied, Settle(applied)
  PROVE  ~pending'.open
BY DEF Settle, NoIntent

(* Every step keeps IntentInv: only a plan opens an intent, and each way to a
   plan settles the old one first. *)
LEMMA IntentStep ==
  ASSUME IntentInv, [Next]_vars
  PROVE  IntentInv'
<1> USE DEF IntentInv, PlansWithoutIntent
<1>1. CASE UNCHANGED vars
  BY <1>1 DEF vars, journalVars, cycleVars
<1>2. CASE Environment
  BY <1>2 DEF Environment, Crash, CalendarChanges, ServerLands, ServerAppliesLate,
     OwnerLoads, OwnerEdits, EndCycle, journalVars, cycleVars
<1>3. CASE ReadCalendar \/ CalendarNotAuthoritative \/ ReadWall \/ WallNotAuthoritative
           \/ RereadWall \/ RereadAfterPost \/ RereadAfterPostFails
  BY <1>3 DEF ReadCalendar, CalendarNotAuthoritative, ReadWall, WallNotAuthoritative,
     RereadWall, RereadAfterPost, RereadAfterPostFails, Goto, EndCycle, journalVars, cycleVars
<1>4. CASE Recover
  <2>1. CASE pending.open
    <3>1. phase' = "reread" /\ ~pending'.open
      BY <1>4, <2>1, SettleCloses DEF Recover, Goto
    <3>2. QED
      BY <3>1
  <2>2. CASE ~pending.open
    BY <1>4, <2>2 DEF Recover, Goto, journalVars
  <2>3. QED
    BY <2>1, <2>2
<1>5. CASE NoWrite \/ Refuse \/ SettleAccepted \/ SettleRejected \/ SettleUnknown
  BY <1>5 DEF NoWrite, Refuse, SettleAccepted, SettleRejected, SettleUnknown, EndCycle
<1>6. CASE Send
  <2>1. pending'.open
    BY <1>6 DEF Send, JournalIntent, BeginPendingWrite, Intent
  <2>2. QED
    BY <1>6, <2>1 DEF Send
<1>7. CASE PostAccepted \/ PostRejected \/ PostUnanswered
  BY <1>7 DEF PostAccepted, PostRejected, PostUnanswered, PostStep, Goto, journalVars
<1>8. QED
  BY <1>1, <1>2, <1>3, <1>4, <1>5, <1>6, <1>7 DEF Next, Cycle

(* begin_pending_write never meets PendingWriteExists: whatever a crash, a
   deferred recovery or a refused list left behind is settled before a plan. *)
THEOREM PlansWithoutIntentAlways == Spec => []PlansWithoutIntent
<1>1. Init => IntentInv
  BY DEF Init, JournalInit, NoIntent, IntentInv, PlansWithoutIntent
<1>2. IntentInv /\ [Next]_vars => IntentInv'
  BY IntentStep
<1>3. IntentInv => PlansWithoutIntent
  BY DEF IntentInv
<1>4. QED
  BY <1>1, <1>2, <1>3, PTL DEF Spec

-----------------------------------------------------------------------------
(* The owner's entries stay.  A recognised number is on the wall and not in
   the journal; for that to last, everything that may yet reach the wall or
   the journal must know of it: the lists still on their way, the document
   about to be sent, the `before` of an open intent (which keeps it from being
   recorded as an addition) and the snapshot a plan is made from. *)
OwnerInv ==
    /\ OwnerEntriesStay
    /\ safe \cap owned = {}
    /\ pending.open => safe \subseteq Range(pending.before)
    /\ phase \in {"recover", "plan"} => safe \subseteq NumbersOn(snap)
    /\ phase = "post" => safe \subseteq NumbersOn(doc)
    /\ \A d \in inflight : safe \subseteq NumbersOn(d)

(* Settling an open intent adopts none of the owner's numbers. *)
LEMMA SettleKeepsUnowned ==
  ASSUME safe \cap owned = {}, pending.open => safe \subseteq Range(pending.before),
         pending.open, NEW applied, Settle(applied)
  PROVE  safe \cap owned' = {}
BY DEF Settle, OwnedAfter

(* Planning recognises only what the plan keeps and the journal does not own. *)
LEMMA RecognisedKept ==
  ASSUME TypeOK, OwnerInv, phase = "plan"
  PROVE  LET known == safe \cup Recognised
         IN  /\ known \subseteq NumbersOn(wall)
             /\ known \cap owned = {}
             /\ known \subseteq NumbersOn(snap)
             /\ known \subseteq NumbersOn(TheDocument)
             /\ \A d \in inflight : known \subseteq NumbersOn(d)
<1>1. NumbersOn(snap) \ owned \subseteq NumbersOn(TheDocument)
  BY TheDocumentProperties
<1>2. QED
  BY <1>1 DEF OwnerInv, OwnerEntriesStay, Recognised

(* Planning keeps OwnerInv: what it newly recognises is on its own list. *)
LEMMA OwnerPlanStep ==
  ASSUME TypeOK, IntentInv, OwnerInv, NoWrite \/ Refuse \/ Send
  PROVE  OwnerInv'
<1>1. phase = "plan" /\ safe' = safe \cup Recognised
  BY DEF NoWrite, Refuse, Send, JournalIntent
<1>2. wall' = wall /\ inflight' = inflight
  BY DEF NoWrite, Refuse, Send, wallVars
<1>3. /\ safe' \subseteq NumbersOn(wall')
      /\ safe' \cap owned = {}
      /\ safe' \subseteq NumbersOn(snap)
      /\ safe' \subseteq NumbersOn(TheDocument)
      /\ \A d \in inflight' : safe' \subseteq NumbersOn(d)
  BY <1>1, <1>2, RecognisedKept
<1>4. CASE NoWrite
  <2>1. owned' \subseteq owned /\ pending' = pending /\ phase' = "idle"
    BY <1>4 DEF NoWrite, Release, EndCycle, journalVars
  <2>2. ~pending.open
    BY <1>1 DEF IntentInv, PlansWithoutIntent
  <2>3. QED
    BY <1>3, <2>1, <2>2 DEF OwnerInv, OwnerEntriesStay
<1>5. CASE Refuse \/ Send
  <2>1. owned' = owned /\ pending'.before = FlightNumbers(snap)
    BY <1>5 DEF Refuse, Send, JournalIntent, BeginPendingWrite, Intent
  <2>2. Range(pending'.before) = NumbersOn(snap)
    BY <2>1 DEF NumbersOn
  <2>3. phase' = "idle" \/ (phase' = "post" /\ doc' = TheDocument)
    BY <1>5 DEF Refuse, Send, EndCycle
  <2>4. QED
    BY <1>3, <2>1, <2>2, <2>3 DEF OwnerInv, OwnerEntriesStay
<1>6. QED
  BY <1>4, <1>5

(* Each step of a cycle keeps OwnerInv. *)
LEMMA OwnerCycleStep ==
  ASSUME TypeOK, IntentInv, OwnerInv, Cycle
  PROVE  OwnerInv'
<1> USE DEF OwnerInv, OwnerEntriesStay
<1>1. CASE ReadCalendar \/ CalendarNotAuthoritative \/ WallNotAuthoritative
           \/ RereadAfterPost \/ RereadAfterPostFails
  BY <1>1 DEF ReadCalendar, CalendarNotAuthoritative, WallNotAuthoritative, RereadAfterPost,
     RereadAfterPostFails, Goto, EndCycle, journalVars, wallVars, cycleVars, auxVars
<1>2. CASE ReadWall \/ RereadWall
  BY <1>2 DEF ReadWall, RereadWall, Goto, journalVars, wallVars, auxVars
<1>3. CASE Recover
  <2>1. CASE pending.open
    <3>1. safe \cap owned' = {} /\ ~pending'.open /\ phase' = "reread"
      BY <1>3, <2>1, SettleKeepsUnowned, SettleCloses DEF Recover, Goto
    <3>2. QED
      BY <1>3, <3>1 DEF Recover, wallVars, auxVars
  <2>2. CASE ~pending.open
    BY <1>3, <2>2 DEF Recover, Goto, journalVars, wallVars, auxVars
  <2>3. QED
    BY <2>1, <2>2
<1>4. CASE NoWrite \/ Refuse \/ Send
  BY <1>4, OwnerPlanStep
<1>5. CASE PostAccepted \/ PostRejected \/ PostUnanswered
  <2>1. /\ phase = "post" /\ phase' \in {"accepted", "rejected", "unknown"}
        /\ safe' = safe /\ owned' = owned /\ pending' = pending
    BY <1>5 DEF PostAccepted, PostRejected, PostUnanswered, PostStep, Goto, journalVars
  <2>2. wall' \in {wall, doc} /\ inflight' \subseteq inflight \cup {doc}
    BY <1>5 DEF PostAccepted, PostRejected, PostUnanswered, Replace
  <2>3. QED
    BY <2>1, <2>2
<1>6. CASE SettleAccepted \/ SettleRejected \/ SettleUnknown
  <2>1. phase \in {"accepted", "rejected", "judge"} /\ \E applied : Settle(applied)
    BY <1>6 DEF SettleAccepted, SettleRejected, SettleUnknown
  <2>2. pending.open
    BY <2>1 DEF IntentInv
  <2>3. safe \cap owned' = {} /\ ~pending'.open
    BY <2>1, <2>2, SettleKeepsUnowned, SettleCloses
  <2>4. phase' = "idle" /\ wall' = wall /\ inflight' = inflight /\ safe' = safe
    BY <1>6 DEF SettleAccepted, SettleRejected, SettleUnknown, EndCycle, wallVars, auxVars
  <2>5. QED
    BY <2>3, <2>4
<1>7. QED
  BY <1>1, <1>2, <1>3, <1>4, <1>5, <1>6 DEF Cycle

(* Each step of the environment keeps OwnerInv. *)
LEMMA OwnerEnvironmentStep ==
  ASSUME OwnerInv, Environment
  PROVE  OwnerInv'
<1> USE DEF OwnerInv, OwnerEntriesStay
<1>1. CASE Crash \/ CalendarChanges \/ OwnerLoads
  BY <1>1 DEF Crash, CalendarChanges, OwnerLoads, AppLoad, EndCycle,
     journalVars, wallVars, cycleVars, auxVars
<1>2. CASE ServerAppliesLate
  BY <1>2 DEF ServerAppliesLate, ApplyLate, Replace, journalVars, cycleVars, auxVars
<1>3. CASE ServerLands \/ OwnerEdits
  <2>1. safe' = safe \cap NumbersOn(wall')
    BY <1>3 DEF ServerLands, OwnerEdits, StillThere
  <2>2. inflight' = inflight /\ UNCHANGED <<journalVars, cycleVars>>
    BY <1>3 DEF ServerLands, OwnerEdits, Land, AppAdd, AppRemove, AppPost
  <2>3. QED
    BY <2>1, <2>2 DEF journalVars, cycleVars
<1>4. QED
  BY <1>1, <1>2, <1>3 DEF Environment

(* What the daemon has once seen on the wall without owning it stays on the
   wall until the owner or the server takes it off, through any number of
   crashes, lost and late answers, landings and edits. *)
THEOREM OwnerEntriesStayAlways == Spec => []OwnerEntriesStay
<1>1. Init => OwnerInv
  BY DEF Init, JournalInit, WallInit, NoIntent, OwnerInv, OwnerEntriesStay
<1>2. Init => IntentInv
  BY DEF Init, JournalInit, NoIntent, IntentInv, PlansWithoutIntent
<1>3. TypeOK /\ IntentInv /\ OwnerInv /\ [Next]_vars => OwnerInv'
  <2>1. CASE UNCHANGED vars
    BY <2>1 DEF vars, journalVars, wallVars, cycleVars, auxVars, OwnerInv, OwnerEntriesStay
  <2>2. QED
    BY <2>1, OwnerCycleStep, OwnerEnvironmentStep DEF Next
<1>4. IntentInv /\ [Next]_vars => IntentInv'
  BY IntentStep
<1>5. OwnerInv => OwnerEntriesStay
  BY DEF OwnerInv
<1>6. QED
  BY <1>1, <1>2, <1>3, <1>4, <1>5, TypeCorrect, PTL DEF Spec

-----------------------------------------------------------------------------
(* Lists without repeats. *)

(* Taking entries off a list repeats nothing. *)
LEMMA WithoutDistinct ==
  ASSUME NEW flights \in Seq(Entry), NEW n, Distinct(flights)
  PROVE  Distinct(Without(flights, n))
<1> DEFINE idx == {i \in DOMAIN flights : flights[i].number # n}
           numbers == FlightNumbers(flights)
           pos(k) == CHOOSE i \in idx : Rank(idx, i) = k
<1>1. /\ numbers \in Seq(Numbers)
      /\ DOMAIN numbers = DOMAIN flights
      /\ Len(flights) \in Nat
      /\ DOMAIN flights = 1..Len(flights)
  BY FlightNumbersType, LenProperties
<1>2. IsInjective(KeptAt(numbers, idx))
  BY <1>1, KeptAtInjective DEF Distinct
<1>3. \A k \in 1..Cardinality(idx) : pos(k) \in DOMAIN flights
  <2>1. idx \in SUBSET (1..Len(flights))
    BY <1>1
  <2>2. ASSUME NEW k \in 1..Cardinality(idx) PROVE pos(k) \in idx
    <3>1. \E i \in idx : Rank(idx, i) = k
      <4> HIDE DEF idx
      <4>1. QED
        BY <1>1, <2>1, RankOnto
    <3>2. QED
      BY <3>1
  <2>3. QED
    BY <2>2
<1>4. FlightNumbers(KeptAt(flights, idx)) = KeptAt(numbers, idx)
  <2>1. KeptAt(flights, idx) = [k \in 1..Cardinality(idx) |-> flights[pos(k)]]
    BY DEF KeptAt
  <2>2. KeptAt(numbers, idx) = [k \in 1..Cardinality(idx) |-> numbers[pos(k)]]
    BY DEF KeptAt
  <2>3. \A k \in 1..Cardinality(idx) : numbers[pos(k)] = flights[pos(k)].number
    BY <1>3 DEF FlightNumbers
  <2> HIDE DEF pos, idx, numbers
  <2>4. QED
    BY <2>1, <2>2, <2>3 DEF FlightNumbers
<1>5. QED
  BY <1>2, <1>4 DEF Distinct, Without

(* Nor does adding an entry with a number the list lacks. *)
LEMMA AppendDistinct ==
  ASSUME NEW flights \in Seq(Entry), NEW e \in Entry, Distinct(flights),
         e.number \notin NumbersOn(flights)
  PROVE  Distinct(Append(flights, e))
<1> DEFINE longer == Append(flights, e)
           m == Len(flights)
<1>1. m \in Nat /\ DOMAIN flights = 1..m
  BY LenProperties
<1>2. /\ longer \in Seq(Entry) /\ Len(longer) = m + 1
      /\ \A i \in 1..m : longer[i] = flights[i]
      /\ longer[m + 1] = e
  BY AppendProperties
<1>3. DOMAIN longer = 1..(m + 1)
  BY <1>2, LenProperties
<1>4. \A i \in 1..m : flights[i].number # e.number
  BY <1>1 DEF NumbersOn, FlightNumbers, Range
<1>5. \A i, j \in 1..m : flights[i].number = flights[j].number => i = j
  BY <1>1 DEF Distinct, FlightNumbers, IsInjective
<1>6. ASSUME NEW i \in 1..(m + 1), NEW j \in 1..(m + 1), longer[i].number = longer[j].number
      PROVE  i = j
  <2> HIDE DEF longer
  <2>1. CASE i \in 1..m /\ j \in 1..m
    BY <1>2, <1>5, <1>6, <2>1
  <2>2. CASE i = m + 1 /\ j \in 1..m
    BY <1>2, <1>4, <1>6, <2>2
  <2>3. CASE i \in 1..m /\ j = m + 1
    BY <1>2, <1>4, <1>6, <2>3
  <2>4. QED
    BY <1>1, <2>1, <2>2, <2>3
<1>7. QED
  BY <1>3, <1>6 DEF Distinct, FlightNumbers, IsInjective

(* The document of a plan repeats nothing if neither the calendar nor the
   snapshot does. *)
LEMMA TheDocumentDistinct ==
  ASSUME TypeOK, IsInjective(wanted), Distinct(snap)
  PROVE  Distinct(TheDocument) /\ FlightNumbers(TheDocument) = ThePlan.desired
<1>1. wanted \in Seq(Numbers) /\ snap \in Seq(Entry)
  BY DEF TypeOK
<1>2. QED
  BY <1>1, PlannedDistinct DEF TheDocument, ThePlan, Plan

(* Every list that may yet become the wall, or the plan's input, is without
   repeats: the app's copy, the snapshot, the document, the lists on their
   way, the calendar and what was read of it. *)
DistinctInv ==
    /\ NoNumberTwice
    /\ Distinct(app.flights)
    /\ Distinct(snap)
    /\ Distinct(doc)
    /\ IsInjective(calendar)
    /\ IsInjective(wanted)

(* An empty list repeats nothing. *)
LEMMA EmptyDistinct == IsInjective(<<>>) /\ Distinct(<<>>)
BY DEF IsInjective, Distinct, FlightNumbers

(* The end of a cycle forgets its lists. *)
LEMMA EndCycleDistinct ==
  ASSUME EndCycle
  PROVE  Distinct(snap') /\ Distinct(doc') /\ IsInjective(wanted')
BY EmptyDistinct DEF EndCycle

(* Each step of a cycle repeats no number. *)
LEMMA DistinctCycleStep ==
  ASSUME TypeOK, DistinctInv, Cycle
  PROVE  DistinctInv'
<1> USE DEF DistinctInv
<1>1. CASE ReadCalendar
  BY <1>1 DEF ReadCalendar, wallVars, NoNumberTwice
<1>2. CASE CalendarNotAuthoritative
  BY <1>2 DEF CalendarNotAuthoritative, wallVars, cycleVars, NoNumberTwice
<1>3. CASE ReadWall \/ RereadWall \/ RereadAfterPost
  BY <1>3 DEF ReadWall, RereadWall, RereadAfterPost, wallVars, NoNumberTwice, Distinct
<1>4. CASE WallNotAuthoritative \/ NoWrite \/ Refuse \/ SettleAccepted \/ SettleRejected
           \/ RereadAfterPostFails \/ SettleUnknown
  <2>1. EndCycle /\ UNCHANGED <<wallVars, calendar>>
    BY <1>4 DEF WallNotAuthoritative, NoWrite, Refuse, SettleAccepted, SettleRejected,
       RereadAfterPostFails, SettleUnknown
  <2>2. QED
    BY <2>1, EndCycleDistinct DEF wallVars, NoNumberTwice
<1>5. CASE Recover
  BY <1>5 DEF Recover, wallVars, NoNumberTwice
<1>6. CASE Send
  <2>1. Distinct(doc')
    BY <1>6, TheDocumentDistinct DEF Send
  <2>2. QED
    BY <1>6, <2>1 DEF Send, wallVars, NoNumberTwice
<1>7. CASE PostAccepted \/ PostRejected \/ PostUnanswered
  <2>1. wall' \in {wall, doc} /\ inflight' \subseteq inflight \cup {doc}
    BY <1>7 DEF PostAccepted, PostRejected, PostUnanswered, Replace
  <2>2. UNCHANGED <<app, snap, doc, wanted, calendar>>
    BY <1>7 DEF PostAccepted, PostRejected, PostUnanswered, PostStep
  <2>3. NoNumberTwice'
    BY <2>1 DEF NoNumberTwice, Distinct
  <2>4. QED
    BY <2>2, <2>3
<1>8. QED
  BY <1>1, <1>2, <1>3, <1>4, <1>5, <1>6, <1>7 DEF Cycle

(* Nor does any step of the app, the server or a crash. *)
LEMMA DistinctEnvironmentStep ==
  ASSUME TypeOK, DistinctInv, Environment
  PROVE  DistinctInv'
<1> USE DEF DistinctInv
<1>0. wall \in Seq(Entry) /\ app.flights \in Seq(Entry)
  BY DEF TypeOK, WallTypeOK
<1>1. CASE Crash
  BY <1>1, EndCycleDistinct DEF Crash, wallVars, NoNumberTwice
<1>2. CASE CalendarChanges
  BY <1>2, CalendarsAssumption DEF CalendarChanges, wallVars, cycleVars, NoNumberTwice, DuplicateWanted
<1>3. CASE ServerLands
  <2>1. PICK n \in Numbers : Land(n)
    BY <1>3 DEF ServerLands
  <2>2. Distinct(wall') /\ UNCHANGED <<inflight, app>>
    BY <1>0, <2>1, WithoutDistinct DEF Land, NoNumberTwice, Distinct
  <2>3. QED
    BY <1>3, <2>2 DEF ServerLands, cycleVars, NoNumberTwice, Distinct
<1>4. CASE ServerAppliesLate
  <2>1. wall' \in inflight /\ inflight' \subseteq inflight /\ UNCHANGED app
    BY <1>4 DEF ServerAppliesLate, ApplyLate, Replace
  <2>2. QED
    BY <1>4, <2>1 DEF ServerAppliesLate, cycleVars, NoNumberTwice
<1>5. CASE OwnerLoads
  BY <1>5 DEF OwnerLoads, AppLoad, cycleVars, NoNumberTwice, Distinct
<1>6. CASE OwnerEdits
  <2>1. PICK n \in Numbers : AppAdd(n) \/ AppRemove(n)
    BY <1>6 DEF OwnerEdits
  <2>2. \E flights : Distinct(flights) /\ AppPost(flights)
    <3>1. CASE AppAdd(n)
      <4>1. [number |-> n, by |-> "owner"] \in Entry
        BY DEF Entry
      <4>2. QED
        BY <1>0, <3>1, <4>1, AppendDistinct DEF AppAdd
    <3>2. CASE AppRemove(n)
      BY <1>0, <3>2, WithoutDistinct DEF AppRemove
    <3>3. QED
      BY <2>1, <3>1, <3>2
  <2>3. Distinct(wall') /\ Distinct(app'.flights) /\ UNCHANGED inflight
    BY <2>2 DEF AppPost, Replace, TypeOK, WallTypeOK
  <2>4. QED
    BY <1>6, <2>3 DEF OwnerEdits, cycleVars, NoNumberTwice, Distinct
<1>7. QED
  BY <1>1, <1>2, <1>3, <1>4, <1>5, <1>6 DEF Environment

(* Every step repeats no number. *)
LEMMA DistinctStep ==
  ASSUME TypeOK, DistinctInv, [Next]_vars
  PROVE  DistinctInv'
<1>1. CASE UNCHANGED vars
  BY <1>1 DEF DistinctInv, NoNumberTwice, vars, wallVars, cycleVars
<1>2. QED
  BY <1>1, DistinctCycleStep, DistinctEnvironmentStep DEF Next

(* At the start there is only the owner's wall. *)
LEMMA DistinctInit == Init => DistinctInv
BY EmptyDistinct, InitialWallsAssumption, CalendarsAssumption
   DEF Init, WallInit, NoCopy, DistinctInv, NoNumberTwice, DuplicateWanted

(* No write of the daemon, late or not, leaves two entries with one number on
   the wall. *)
THEOREM NoNumberTwiceAlways == Spec => []NoNumberTwice
<1>1. TypeOK /\ DistinctInv /\ [Next]_vars => DistinctInv'
  BY DistinctStep
<1>2. DistinctInv => NoNumberTwice
  BY DEF DistinctInv
<1>3. QED
  BY <1>1, <1>2, DistinctInit, TypeCorrect, PTL DEF Spec

-----------------------------------------------------------------------------
(* What a POST takes off. *)

(* The document in hand is the one planned from the snapshot and the journal
   in hand. *)
DocumentInv == phase = "post" => doc = TheDocument

(* Every step keeps it: until the POST is sent nothing but a crash, which ends
   the cycle, touches what it was made from. *)
LEMMA DocumentStep ==
  ASSUME DocumentInv, [Next]_vars
  PROVE  DocumentInv'
<1>1. CASE Send
  BY <1>1 DEF Send, JournalIntent, BeginPendingWrite, DocumentInv, TheDocument
<1>2. CASE UNCHANGED vars
  BY <1>2 DEF vars, journalVars, cycleVars, DocumentInv, TheDocument
<1>3. CASE Environment
  BY <1>3 DEF Environment, Crash, CalendarChanges, ServerLands, ServerAppliesLate, OwnerLoads,
     OwnerEdits, EndCycle, journalVars, cycleVars, DocumentInv, TheDocument
<1>4. CASE CalendarNotAuthoritative
  BY <1>4 DEF CalendarNotAuthoritative, cycleVars, DocumentInv
<1>5. CASE Cycle /\ ~Send /\ ~CalendarNotAuthoritative
  <2>1. phase' # "post"
    BY <1>5 DEF Cycle, ReadCalendar, ReadWall, WallNotAuthoritative, Recover, RereadWall,
       NoWrite, Refuse, PostAccepted, PostRejected, PostUnanswered, PostStep, SettleAccepted,
       SettleRejected, RereadAfterPost, RereadAfterPostFails, SettleUnknown, Goto, EndCycle
  <2>2. QED
    BY <2>1 DEF DocumentInv
<1>6. QED
  BY <1>1, <1>2, <1>3, <1>4, <1>5 DEF Next

(* Sending the document over the wall it was planned from takes off only what
   the journal owns. *)
LEMMA PostKeepsUnowned ==
  ASSUME TypeOK, DistinctInv, DocumentInv, [Next]_vars,
         phase = "post", phase' \in {"accepted", "unknown"}, wall = snap,
         NEW i \in DOMAIN wall, wall[i].number \notin owned
  PROVE  wall[i] \in Range(wall')
<1>1. PostAccepted \/ PostUnanswered
  BY DEF Next, Cycle, Environment, vars, ReadCalendar, CalendarNotAuthoritative, ReadWall,
     WallNotAuthoritative, Recover, RereadWall, NoWrite, Refuse, Send, JournalIntent,
     PostRejected, PostStep, SettleAccepted, SettleRejected, RereadAfterPost,
     RereadAfterPostFails, SettleUnknown, Crash, CalendarChanges, ServerLands,
     ServerAppliesLate, OwnerLoads, OwnerEdits, Goto, EndCycle, cycleVars
<1>2. wall' = wall \/ wall' = doc
  BY <1>1 DEF PostAccepted, PostUnanswered, Replace
<1>3. wall[i] \in Range(doc)
  <2>1. /\ snap \in Seq(Entry) /\ Distinct(snap)
        /\ ThePlan.desired \in Seq(Numbers)
        /\ NumbersOn(snap) \ owned \subseteq Range(ThePlan.desired)
    BY TheDocumentProperties DEF TypeOK, DistinctInv
  <2>2. i \in DOMAIN snap /\ snap[i].number \in Range(ThePlan.desired)
    BY <2>1 DEF NumbersOn, FlightNumbers, Range
  <2>3. snap[i] \in Range(FlightsFor(ThePlan.desired, snap))
    BY <2>1, <2>2, FlightsForKeeps
  <2>4. QED
    BY <2>3 DEF DocumentInv, TheDocument, ThePlan, Plan
<1>4. wall[i] \in Range(wall)
  BY DEF Range
<1>5. QED
  BY <1>2, <1>3, <1>4

(* A POST that meets the wall it was planned against takes off only entries
   the journal owns, and sends every other one back as it was read, with its
   stamp and its toggles. *)
THEOREM PostDropsOnlyOwnedAlways == Spec => PostDropsOnlyOwned
<1>1. Init => DocumentInv
  BY DEF Init, DocumentInv
<1>2. DocumentInv /\ [Next]_vars => DocumentInv'
  BY DocumentStep
<1>3. TypeOK /\ DistinctInv /\ [Next]_vars => DistinctInv'
  BY DistinctStep
<1>4. TypeOK /\ DistinctInv /\ DocumentInv /\ [Next]_vars =>
        [(phase = "post" /\ phase' \in {"accepted", "unknown"} /\ wall = snap) =>
            \A i \in DOMAIN wall : wall[i].number \notin owned => wall[i] \in Range(wall')]_vars
  BY PostKeepsUnowned
<1>5. QED
  BY <1>1, <1>2, <1>3, <1>4, DistinctInit, TypeCorrect, PTL DEF Spec, PostDropsOnlyOwned

-----------------------------------------------------------------------------
(* The journal is exact while nobody else writes the wall. *)

(* The owner leaves the app alone, no flight lands and no POST comes late.
   Crashes, failures and the calendar's changes are free. *)
OnlyWriter == Budget["edit"] = 0 /\ Budget["landing"] = 0 /\ Budget["late"] = 0

(* The open intent has not been carried out, or wholly. *)
Undone == Made = owned /\ FlightNumbers(wall) # pending.desired
CarriedOut ==
    /\ Made = OwnedAfter(owned, pending.desired, pending.before)
    /\ FlightNumbers(wall) = pending.desired

(* The document about to be sent is the plan's, and so is the intent. *)
Planned ==
    /\ pending = Intent(ThePlan.desired, FlightNumbers(snap))
    /\ doc = TheDocument
    /\ Changed(ThePlan)
    /\ Len(TheDocument) <= Cap

(* Nothing but the daemon's own POST moves the wall, and each phase knows what
   became of it. *)
ExactInv ==
    /\ left["edit"] = 0 /\ left["landing"] = 0 /\ left["late"] = 0
    /\ inflight = {}
    /\ phase # "idle" => wanted \in Calendars
    /\ phase \in {"recover", "plan", "post", "judge"} => snap = wall
    /\ IF pending.open THEN Undone \/ CarriedOut ELSE Made = owned
    /\ phase \in {"post", "rejected"} => Undone
    /\ phase = "accepted" => CarriedOut
    /\ phase = "post" => Planned

(* A disturbance of another kind leaves these three spent. *)
LEMMA SpendOther ==
  ASSUME TypeOK, ExactInv, NEW kind \in {"crash", "fault", "calendar"}, Spend(kind)
  PROVE  left'["edit"] = 0 /\ left'["landing"] = 0 /\ left'["late"] = 0
BY DEF TypeOK, ExactInv, Spend, Disturbances

(* Where wall and journal stay as they are, so does what is known of them. *)
LEMMA SameWallSameJournal ==
  ASSUME UNCHANGED <<wall, journalVars>>
  PROVE  (Made' = Made) /\ (Undone' <=> Undone) /\ (CarriedOut' <=> CarriedOut)
BY DEF Made, Undone, CarriedOut, journalVars

(* Settling an open intent by what is known of the wall leaves an exact journal. *)
LEMMA SettleExact ==
  ASSUME NEW applied \in BOOLEAN, Settle(applied), UNCHANGED wall,
         pending.open, (Undone /\ ~applied) \/ (CarriedOut /\ applied)
  PROVE  Made' = owned' /\ ~pending'.open
<1>1. ~pending'.open
  BY SettleCloses
<1>2. Made' = Made
  BY DEF Made
<1>3. QED
  BY <1>1, <1>2 DEF Settle, Undone, CarriedOut

(* The journaled intent of a plan made from the wall as it is. *)
LEMMA IntentExact ==
  ASSUME TypeOK, IntentInv, ExactInv, DistinctInv, JournalIntent, UNCHANGED wall
  PROVE  Undone' /\ pending'.open /\ pending' = Intent(ThePlan.desired, FlightNumbers(snap))
<1>1. phase = "plan" /\ ~pending.open
  BY DEF JournalIntent, IntentInv, PlansWithoutIntent
<1>2. snap = wall /\ Made = owned
  BY <1>1 DEF ExactInv
<1>3. /\ pending' = Intent(ThePlan.desired, FlightNumbers(snap))
      /\ owned' = owned
      /\ Changed(ThePlan)
  BY DEF JournalIntent, BeginPendingWrite
<1>4. wanted \in Seq(Numbers) /\ FlightNumbers(snap) \in Seq(Numbers)
  BY TheDocumentProperties DEF TypeOK
<1>5. ThePlan.desired # FlightNumbers(snap)
  <2>1. Desired(wanted, FlightNumbers(snap), owned) # FlightNumbers(snap)
    BY <1>3, <1>4, ChangedMeansOther DEF ThePlan
  <2>2. QED
    BY <2>1 DEF ThePlan, Plan
<1>6. Made' = Made
  BY DEF Made
<1>7. pending'.open /\ pending'.desired = ThePlan.desired
  BY <1>3 DEF Intent
<1>8. QED
  BY <1>2, <1>3, <1>5, <1>6, <1>7 DEF Undone, Distinct

(* The server stores the document: the intent is carried out. *)
LEMMA StoredExact ==
  ASSUME TypeOK, ExactInv, DistinctInv, phase = "post", wall' = doc, UNCHANGED journalVars
  PROVE  CarriedOut'
<1>1. Planned /\ Made = owned /\ snap = wall
  BY DEF ExactInv, Undone
<1>2. snap \in Seq(Entry) /\ ThePlan.desired \in Seq(Numbers)
  BY TheDocumentProperties DEF TypeOK
<1>3. TheDocument = FlightsFor(ThePlan.desired, snap)
  BY DEF TheDocument, ThePlan, Plan
<1>4. MadeIn(TheDocument) = OwnedAfter(MadeIn(snap), ThePlan.desired, FlightNumbers(snap))
  BY <1>2, <1>3, MadeInDocument DEF DistinctInv
<1>5. MadeIn(snap) = owned
  BY <1>1 DEF Made, MadeIn
<1>6. Made' = MadeIn(TheDocument)
  BY <1>1 DEF Planned, Made, MadeIn
<1>7. FlightNumbers(wall') = ThePlan.desired
  BY <1>1, TheDocumentDistinct DEF Planned, DistinctInv
<1>8. /\ pending'.desired = ThePlan.desired
      /\ pending'.before = FlightNumbers(snap)
      /\ owned' = owned
  BY <1>1 DEF Planned, Intent, journalVars
<1>9. QED
  BY <1>4, <1>5, <1>6, <1>7, <1>8 DEF CarriedOut

(* What NoWrite releases is nothing: what the journal owns is on the wall. *)
LEMMA NothingToRelease ==
  ASSUME Made = owned, snap = wall
  PROVE  ThePlan.released = {}
<1>1. Made \subseteq Range(FlightNumbers(wall))
  BY DEF Made, FlightNumbers, Range
<1>2. QED
  BY <1>1 DEF ThePlan, Plan

(* Each step of a cycle keeps the journal exact. *)
LEMMA ExactCycleStep ==
  ASSUME TypeOK, IntentInv, DistinctInv, ExactInv, Cycle
  PROVE  ExactInv'
<1>1. CASE ReadCalendar
  <2>1. UNCHANGED <<wall, journalVars, left, inflight>> /\ phase' = "read"
    BY <1>1 DEF ReadCalendar, Goto, wallVars
  <2>2. wanted' \in Calendars
    BY <1>1 DEF ReadCalendar, TypeOK
  <2>3. QED
    BY <2>1, <2>2, SameWallSameJournal DEF ExactInv, journalVars
<1>2. CASE CalendarNotAuthoritative
  <2>1. UNCHANGED <<wall, journalVars, inflight, cycleVars>>
    BY <1>2 DEF CalendarNotAuthoritative, wallVars
  <2>2. phase = "idle" /\ Spend("fault")
    BY <1>2 DEF CalendarNotAuthoritative
  <2>3. QED
    BY <2>1, <2>2, SpendOther, SameWallSameJournal DEF ExactInv, journalVars, cycleVars
<1>3. CASE ReadWall \/ RereadWall \/ RereadAfterPost
  <2>1. /\ UNCHANGED <<wall, journalVars, left, inflight, wanted>>
        /\ snap' = wall /\ phase # "idle" /\ phase' \in {"recover", "plan", "judge"}
    BY <1>3 DEF ReadWall, RereadWall, RereadAfterPost, Goto, wallVars
  <2>2. QED
    BY <2>1, SameWallSameJournal DEF ExactInv, journalVars
<1>4. CASE WallNotAuthoritative \/ RereadAfterPostFails
  <2>1. /\ UNCHANGED <<wall, journalVars, inflight>>
        /\ Spend("fault") /\ phase' = "idle"
    BY <1>4 DEF WallNotAuthoritative, RereadAfterPostFails, EndCycle, wallVars
  <2>2. QED
    BY <2>1, SpendOther, SameWallSameJournal DEF ExactInv, journalVars
<1>5. CASE Recover
  <2>1. /\ UNCHANGED <<wall, left, inflight, wanted, snap>>
        /\ phase = "recover" /\ phase' = IF pending.open THEN "reread" ELSE "plan"
        /\ snap = wall /\ wanted \in Calendars
    BY <1>5 DEF Recover, Goto, wallVars, ExactInv
  <2>2. CASE pending.open
    <3>1. Settle(FlightNumbers(wall) = pending.desired)
      BY <1>5, <2>1, <2>2 DEF Recover
    <3>2. Undone \/ CarriedOut
      BY <2>2 DEF ExactInv
    <3>3. Made' = owned' /\ ~pending'.open
      <4>1. CASE Undone
        <5>1. Settle(FALSE)
          BY <3>1, <4>1 DEF Undone, Settle
        <5>2. QED
          BY <2>1, <2>2, <4>1, <5>1, SettleExact
      <4>2. CASE CarriedOut
        <5>1. Settle(TRUE)
          BY <3>1, <4>2 DEF CarriedOut, Settle
        <5>2. QED
          BY <2>1, <2>2, <4>2, <5>1, SettleExact
      <4>3. QED
        BY <3>2, <4>1, <4>2
    <3>4. QED
      BY <2>1, <2>2, <3>3 DEF ExactInv
  <2>3. CASE ~pending.open
    <3>1. UNCHANGED journalVars
      BY <1>5, <2>3 DEF Recover
    <3>2. QED
      BY <2>1, <2>3, <3>1, SameWallSameJournal DEF ExactInv, journalVars
  <2>4. QED
    BY <2>2, <2>3
<1>6. CASE NoWrite
  <2>1. /\ UNCHANGED <<wall, left, inflight, pending>>
        /\ phase = "plan" /\ phase' = "idle"
    BY <1>6 DEF NoWrite, EndCycle, wallVars, Release, journalVars
  <2>2. ~pending.open /\ snap = wall /\ Made = owned
    BY <2>1 DEF ExactInv, IntentInv, PlansWithoutIntent
  <2>3. owned' = owned
    BY <1>6, <2>2, NothingToRelease DEF NoWrite, Release, journalVars
  <2>4. Made' = Made
    BY <2>1 DEF Made
  <2>5. QED
    BY <2>1, <2>2, <2>3, <2>4 DEF ExactInv
<1>7. CASE Refuse
  <2>1. UNCHANGED <<wall, left, inflight>> /\ phase' = "idle" /\ JournalIntent
    BY <1>7 DEF Refuse, EndCycle, wallVars
  <2>2. Undone' /\ pending'.open
    BY <2>1, IntentExact
  <2>3. QED
    BY <2>1, <2>2 DEF ExactInv
<1>8. CASE Send
  <2>1. /\ UNCHANGED <<wall, left, inflight, wanted, snap, owned>>
        /\ phase = "plan" /\ phase' = "post" /\ JournalIntent
        /\ doc' = TheDocument /\ Len(TheDocument) <= Cap /\ Changed(ThePlan)
    BY <1>8 DEF Send, JournalIntent, BeginPendingWrite, wallVars
  <2>2. Undone' /\ pending'.open /\ pending' = Intent(ThePlan.desired, FlightNumbers(snap))
    BY <2>1, IntentExact
  <2>3. ThePlan' = ThePlan /\ TheDocument' = TheDocument
    BY <2>1 DEF ThePlan, TheDocument
  <2>4. Planned'
    BY <2>1, <2>2, <2>3 DEF Planned
  <2>5. QED
    BY <2>1, <2>2, <2>4 DEF ExactInv
<1>9. CASE PostAccepted \/ PostRejected \/ PostUnanswered
  <2>1. /\ phase = "post" /\ phase' \in {"accepted", "rejected", "unknown"}
        /\ UNCHANGED <<journalVars, wanted>>
    BY <1>9 DEF PostAccepted, PostRejected, PostUnanswered, PostStep, Goto
  <2>2. pending.open /\ pending'.open /\ wanted \in Calendars /\ Undone
    BY <2>1 DEF ExactInv, IntentInv, journalVars
  <2>3. /\ inflight' = inflight
        /\ left' = left \/ Spend("fault")
        /\ \/ wall' = doc /\ phase' # "rejected"
           \/ wall' = wall /\ phase' # "accepted"
    BY <1>9 DEF PostAccepted, PostRejected, PostUnanswered, PostStep, Goto, Replace, Spend, ExactInv
  <2>4. left'["edit"] = 0 /\ left'["landing"] = 0 /\ left'["late"] = 0
    BY <2>3, SpendOther DEF ExactInv
  <2>5. CASE wall' = doc /\ phase' # "rejected"
    <3>1. CarriedOut'
      BY <2>1, <2>5, StoredExact
    <3>2. QED
      BY <2>1, <2>2, <2>3, <2>4, <2>5, <3>1 DEF ExactInv
  <2>6. CASE wall' = wall /\ phase' # "accepted"
    <3>1. Undone'
      BY <2>1, <2>2, <2>6, SameWallSameJournal
    <3>2. QED
      BY <2>1, <2>2, <2>3, <2>4, <2>6, <3>1 DEF ExactInv
  <2>7. QED
    BY <2>3, <2>5, <2>6
<1>10. CASE SettleAccepted \/ SettleRejected \/ SettleUnknown
  <2>1. /\ UNCHANGED <<wall, left, inflight>> /\ phase' = "idle"
        /\ phase \in {"accepted", "rejected", "judge"}
    BY <1>10 DEF SettleAccepted, SettleRejected, SettleUnknown, EndCycle, wallVars
  <2>2. pending.open
    BY <2>1 DEF IntentInv
  <2>3. \E applied \in BOOLEAN : Settle(applied) /\ ((Undone /\ ~applied) \/ (CarriedOut /\ applied))
    <3>1. CASE SettleAccepted
      BY <3>1 DEF SettleAccepted, ExactInv
    <3>2. CASE SettleRejected
      <4>1. Undone /\ Settle(FALSE)
        BY <3>2 DEF SettleRejected, ExactInv
      <4>2. QED
        BY <4>1
    <3>3. CASE SettleUnknown
      <4>1. (Undone \/ CarriedOut) /\ snap = wall
        BY <2>2, <3>3 DEF SettleUnknown, ExactInv
      <4>2. CASE Undone
        <5>1. Settle(FALSE)
          BY <3>3, <4>1, <4>2 DEF SettleUnknown, Undone, Settle
        <5>2. QED
          BY <4>2, <5>1
      <4>3. CASE CarriedOut
        <5>1. Settle(TRUE)
          BY <3>3, <4>1, <4>3 DEF SettleUnknown, CarriedOut, Settle
        <5>2. QED
          BY <4>3, <5>1
      <4>4. QED
        BY <4>1, <4>2, <4>3
    <3>4. QED
      BY <1>10, <3>1, <3>2, <3>3
  <2>4. Made' = owned' /\ ~pending'.open
    BY <2>1, <2>2, <2>3, SettleExact
  <2>5. QED
    BY <2>1, <2>4 DEF ExactInv
<1>11. QED
  BY <1>1, <1>2, <1>3, <1>4, <1>5, <1>6, <1>7, <1>8, <1>9, <1>10 DEF Cycle

(* A crash and a change of the calendar touch neither wall nor journal, and
   nothing else may happen. *)
LEMMA ExactEnvironmentStep ==
  ASSUME TypeOK, ExactInv, Environment
  PROVE  ExactInv'
<1>1. CASE Crash
  <2>1. UNCHANGED <<wall, journalVars, inflight>> /\ phase' = "idle" /\ Spend("crash")
    BY <1>1 DEF Crash, EndCycle, wallVars
  <2>2. QED
    BY <2>1, SpendOther, SameWallSameJournal DEF ExactInv, journalVars
<1>2. CASE CalendarChanges
  <2>1. UNCHANGED <<wall, journalVars, inflight, cycleVars>> /\ Spend("calendar")
    BY <1>2 DEF CalendarChanges, wallVars
  <2>2. (ThePlan' = ThePlan) /\ (TheDocument' = TheDocument)
    BY <2>1 DEF ThePlan, TheDocument, cycleVars, journalVars
  <2>3. Planned' <=> Planned
    BY <2>1, <2>2 DEF Planned, cycleVars, journalVars
  <2>4. QED
    BY <2>1, <2>3, SpendOther, SameWallSameJournal DEF ExactInv, journalVars, cycleVars
<1>3. CASE ServerLands \/ ServerAppliesLate \/ OwnerLoads \/ OwnerEdits
  BY <1>3 DEF ServerLands, ServerAppliesLate, OwnerLoads, OwnerEdits, Spend, ExactInv
<1>4. QED
  BY <1>1, <1>2, <1>3 DEF Environment

(* Every step keeps the journal exact. *)
LEMMA ExactStep ==
  ASSUME TypeOK, IntentInv, DistinctInv, ExactInv, [Next]_vars
  PROVE  ExactInv'
<1>1. CASE UNCHANGED vars
  <2>1. (ThePlan' = ThePlan) /\ (TheDocument' = TheDocument) /\ UNCHANGED <<wall, journalVars>>
    BY <1>1 DEF ThePlan, TheDocument, vars, cycleVars, journalVars, wallVars
  <2>2. Planned' <=> Planned
    BY <1>1, <2>1 DEF Planned, vars, cycleVars, journalVars
  <2>3. QED
    BY <1>1, <2>1, <2>2, SameWallSameJournal DEF ExactInv, vars, cycleVars, journalVars, wallVars
<1>2. QED
  BY <1>1, ExactCycleStep, ExactEnvironmentStep DEF Next

(* The daemon has made nothing yet. *)
LEMMA ExactInit == Init /\ OnlyWriter => ExactInv
<1> SUFFICES ASSUME Init, OnlyWriter PROVE ExactInv
  OBVIOUS
<1>1. Made = {}
  BY InitialWallsAssumption DEF Init, WallInit, Made
<1>2. QED
  BY <1>1 DEF Init, WallInit, JournalInit, NoIntent, OnlyWriter, ExactInv

(* The whole invariant. *)
LEMMA ExactAlways == Spec /\ OnlyWriter => [](TypeOK /\ IntentInv /\ DistinctInv /\ ExactInv)
<1>1. Init => IntentInv
  BY DEF Init, JournalInit, NoIntent, IntentInv, PlansWithoutIntent
<1>2. IntentInv /\ [Next]_vars => IntentInv'
  BY IntentStep
<1>3. TypeOK /\ DistinctInv /\ [Next]_vars => DistinctInv'
  BY DistinctStep
<1>4. TypeOK /\ IntentInv /\ DistinctInv /\ ExactInv /\ [Next]_vars => ExactInv'
  BY ExactStep
<1>5. QED
  BY <1>1, <1>2, <1>3, <1>4, DistinctInit, ExactInit, TypeCorrect, PTL DEF Spec

(* While nobody else writes the wall, the journal is exact, through any number
   of crashes, failed requests and changes of the calendar. *)
THEOREM JournalExactAlways == Spec /\ OnlyWriter => []JournalExact
<1>1. ExactInv => JournalExact
  BY DEF ExactInv, JournalExact, Undone, CarriedOut
<1>2. QED
  BY <1>1, ExactAlways, PTL

-----------------------------------------------------------------------------
(* Sync implements AtomicSync. *)

(* AtomicSync plans, builds and owns with the operators of Reconcile. *)
LEMMA AtomicOperators ==
  ASSUME NEW wants, NEW onWall, NEW owns, NEW flights, NEW desired
  PROVE  /\ Atomic!Plan(wants, onWall, owns) = Plan(wants, onWall, owns)
         /\ Atomic!FlightNumbers(flights) = FlightNumbers(flights)
         /\ Atomic!FlightsFor(desired, flights) = FlightsFor(desired, flights)
         /\ Atomic!OwnedAfter(owns, desired, onWall) = OwnedAfter(owns, desired, onWall)
         /\ \A plan : Atomic!Changed(plan) <=> Changed(plan)
<1>1. \A s, S : Atomic!Kept(s, S) = Kept(s, S)
  BY Zenon DEF Atomic!Kept, Kept, Atomic!KeptAt, KeptAt, Atomic!Rank, Rank,
     Atomic!Cardinality, Cardinality
<1>2. \A f : Atomic!Range(f) = Range(f)
  BY DEF Atomic!Range, Range
<1>3. Atomic!Fresh(wants, onWall) = Fresh(wants, onWall)
  BY <1>1, <1>2 DEF Atomic!Fresh, Fresh
<1>4. Atomic!Staying(wants, onWall, owns) = Staying(wants, onWall, owns)
  BY <1>1, <1>2 DEF Atomic!Staying, Staying
<1>5. Atomic!Fitting(wants, onWall, owns) = Fitting(wants, onWall, owns)
  BY <1>3, <1>4 DEF Atomic!Fitting, Fitting
<1>6. Atomic!Additions(wants, onWall, owns) = Additions(wants, onWall, owns)
  BY <1>3, <1>5 DEF Atomic!Additions, Additions
<1>7. Atomic!Desired(wants, onWall, owns) = Desired(wants, onWall, owns)
  BY <1>4, <1>6 DEF Atomic!Desired, Desired
<1>8. Atomic!Plan(wants, onWall, owns) = Plan(wants, onWall, owns)
  BY <1>1, <1>2, <1>3, <1>5, <1>6, <1>7 DEF Atomic!Plan, Plan
<1>9. \A fl : Atomic!FlightNumbers(fl) = FlightNumbers(fl)
  BY DEF Atomic!FlightNumbers, FlightNumbers
<1>10. \A fl, n : Atomic!Existing(fl, n) = Existing(fl, n)
  BY DEF Atomic!Existing, Existing
<1>11. Atomic!FlightsFor(desired, flights) = FlightsFor(desired, flights)
  BY <1>2, <1>9, <1>10 DEF Atomic!FlightsFor, FlightsFor
<1>12. Atomic!OwnedAfter(owns, desired, onWall) = OwnedAfter(owns, desired, onWall)
  BY <1>2 DEF Atomic!OwnedAfter, OwnedAfter
<1>13. \A plan : Atomic!Changed(plan) <=> Changed(plan)
  BY DEF Atomic!Changed, Changed
<1>14. QED
  BY <1>8, <1>9, <1>11, <1>12, <1>13

(* Seen from outside, the journal owns what the daemon made. *)
LEMMA SettledIsMade ==
  ASSUME ExactInv
  PROVE  SettledOwned = Made
BY DEF ExactInv, SettledOwned, Undone, CarriedOut

(* The server's storing the document is a write of AtomicSync. *)
LEMMA StoredIsWrite ==
  ASSUME TypeOK, IntentInv, DistinctInv, ExactInv, phase = "post", wall' = doc,
         UNCHANGED journalVars, ExactInv'
  PROVE  Atomic!Write
<1>1. Planned /\ Made = owned /\ snap = wall /\ wanted \in Calendars
  BY DEF ExactInv, Undone
<1>2. CarriedOut'
  BY StoredExact
<1>3. /\ pending'.desired = ThePlan.desired
      /\ pending'.before = FlightNumbers(wall)
      /\ owned' = owned
      /\ doc = FlightsFor(ThePlan.desired, wall)
      /\ Changed(ThePlan)
  BY <1>1 DEF Planned, Intent, journalVars, TheDocument, ThePlan, Plan
<1>4. SettledOwned = owned
  BY <1>1, SettledIsMade
<1>5. SettledOwned' = OwnedAfter(owned, ThePlan.desired, FlightNumbers(wall))
  <2>1. SettledOwned' = Made'
    BY SettledIsMade DEF ExactInv, SettledOwned, Undone, CarriedOut
  <2>2. QED
    BY <1>2, <1>3, <2>1 DEF CarriedOut
<1>6. Len(ThePlan.desired) <= Cap
  <2>1. FlightNumbers(TheDocument) = ThePlan.desired
    BY TheDocumentDistinct DEF DistinctInv
  <2>2. Len(FlightNumbers(TheDocument)) = Len(TheDocument)
    BY TheDocumentProperties, FlightNumbersType
  <2>3. QED
    BY <1>1, <2>1, <2>2 DEF Planned
<1>7. Atomic!Plan(wanted, Atomic!FlightNumbers(wall), SettledOwned) = ThePlan
  BY <1>1, <1>4, AtomicOperators DEF ThePlan
<1>8. /\ Atomic!Changed(ThePlan)
      /\ wall' = Atomic!FlightsFor(ThePlan.desired, wall)
      /\ SettledOwned' = Atomic!OwnedAfter(SettledOwned, ThePlan.desired, Atomic!FlightNumbers(wall))
  BY <1>3, <1>4, <1>5, AtomicOperators
<1>9. wanted \in Calendars
  BY <1>1
<1>10. QED
  BY <1>6, <1>7, <1>8, <1>9 DEF Atomic!Write

(* Every other step leaves the wall, and so what the daemon made, as it is. *)
LEMMA StepRefines ==
  ASSUME TypeOK, IntentInv, DistinctInv, ExactInv, [Next]_vars, ExactInv'
  PROVE  Atomic!Write \/ UNCHANGED Atomic!vars
<1>1. CASE phase = "post" /\ wall' = doc /\ UNCHANGED journalVars
  BY <1>1, StoredIsWrite
<1>2. ASSUME UNCHANGED wall PROVE UNCHANGED Atomic!vars
  <2>1. Made' = Made
    BY <1>2 DEF Made
  <2>2. SettledOwned' = Made'
    BY DEF ExactInv, SettledOwned, Undone, CarriedOut
  <2>3. SettledOwned = Made
    BY SettledIsMade
  <2>4. QED
    BY <1>2, <2>1, <2>2, <2>3 DEF Atomic!vars
<1>3. CASE PostAccepted \/ PostRejected \/ PostUnanswered
  <2>1. phase = "post" /\ UNCHANGED journalVars /\ wall' \in {wall, doc}
    BY <1>3 DEF PostAccepted, PostRejected, PostUnanswered, PostStep, Goto, Replace
  <2>2. QED
    BY <1>1, <1>2, <2>1
<1>4. CASE UNCHANGED vars
  BY <1>2, <1>4 DEF vars, wallVars
<1>5. CASE Environment
  <2>1. UNCHANGED wall
    BY <1>5 DEF Environment, Crash, CalendarChanges, ServerLands, ServerAppliesLate, OwnerLoads,
       OwnerEdits, Spend, ExactInv, wallVars
  <2>2. QED
    BY <1>2, <2>1
<1>6. CASE Cycle /\ ~(PostAccepted \/ PostRejected \/ PostUnanswered)
  <2>1. UNCHANGED wall
    BY <1>6 DEF Cycle, ReadCalendar, CalendarNotAuthoritative, ReadWall, WallNotAuthoritative,
       Recover, RereadWall, NoWrite, Refuse, Send, SettleAccepted, SettleRejected,
       RereadAfterPost, RereadAfterPostFails, SettleUnknown, wallVars
  <2>2. QED
    BY <1>2, <2>1
<1>7. QED
  BY <1>3, <1>4, <1>5, <1>6 DEF Next

(* While nobody else writes the wall, a write and its record in the journal are
   one step to an observer, whatever crashes, fails or has to be retried. *)
THEOREM ImplementsAtomicSyncAlways == Spec /\ OnlyWriter => ImplementsAtomicSync
<1>1. Init /\ OnlyWriter => Atomic!Init
  <2>1. SUFFICES ASSUME Init, OnlyWriter PROVE Atomic!Init
    OBVIOUS
  <2>2. SettledOwned = {}
    BY <2>1 DEF Init, JournalInit, NoIntent, SettledOwned
  <2>3. QED
    BY <2>1, <2>2 DEF Init, WallInit, Atomic!Init
<1>2. /\ TypeOK /\ IntentInv /\ DistinctInv /\ ExactInv /\ [Next]_vars /\ ExactInv'
      => [Atomic!Write]_Atomic!vars
  BY StepRefines
<1>3. QED
  BY <1>1, <1>2, ExactAlways, PTL DEF Spec, ImplementsAtomicSync, Atomic!Spec
=============================================================================
