--------------------------- MODULE DeploymentProofs ---------------------------
(***************************************************************************)
(* Theorems of module Deployment, for any number of processes and events:  *)
(* the host lock keeps all but one out; so no cycle plans over another's   *)
(* intent, the one journal stays exact, and together the processes         *)
(* implement AtomicSync.                                                   *)
(***************************************************************************)
EXTENDS Deployment, ReconcileProofs

LockInv ==
    /\ step \in [Procs -> Steps]
    /\ OnlyTheHolderIsInside
    /\ PlansWithoutIntent

(* A process that exits leaves the others where they are, and the lock with
   whoever else holds it. *)
LEMMA ExitKeepsLock ==
    ASSUME LockInv, NEW p \in Procs, NEW code, Exit(p, code),
           pending' = pending \/ ~pending'.open
    PROVE  LockInv'
  <1>1. step' \in [Procs -> Steps]
    BY DEF LockInv, Exit, Steps
  <1>2. \A q \in Procs : q # p => step'[q] = step[q]
    BY DEF LockInv, Exit
  <1>3. step'[p] = "off"
    BY DEF LockInv, Exit
  <1>4. OnlyTheHolderIsInside'
    <2> SUFFICES ASSUME NEW q \in Procs, Inside(q)'
                 PROVE  holder' = q
      BY DEF OnlyTheHolderIsInside
    <2>1. q # p /\ Inside(q)
      BY <1>2, <1>3 DEF Inside
    <2>2. QED
      BY <2>1 DEF LockInv, OnlyTheHolderIsInside, Exit
  <1>5. PlansWithoutIntent'
    BY <1>2, <1>3 DEF LockInv, PlansWithoutIntent
  <1>6. QED
    BY <1>1, <1>4, <1>5 DEF LockInv

(* A step of the process that holds the lock keeps the lock. *)
LEMMA InsideStepKeepsLock ==
    ASSUME LockInv, NEW p \in Procs, Inside(p), NEW to \in Steps,
           step' = [step EXCEPT ![p] = to], holder' = holder,
           to = "plan" => ~pending'.open
    PROVE  LockInv'
  <1>1. step' \in [Procs -> Steps]
    BY DEF LockInv
  <1>2. \A q \in Procs : q # p => step'[q] = step[q] /\ ~Inside(q)
    BY DEF LockInv, OnlyTheHolderIsInside
  <1>3. OnlyTheHolderIsInside'
    BY <1>2 DEF LockInv, OnlyTheHolderIsInside, Inside
  <1>4. PlansWithoutIntent'
    <2> SUFFICES ASSUME NEW q \in Procs, step'[q] = "plan"
                 PROVE  ~pending'.open
      BY DEF PlansWithoutIntent
    <2>1. q = p
      BY <1>2 DEF Inside
    <2>2. to = "plan"
      BY <2>1 DEF LockInv
    <2>3. QED
      BY <2>2
  <1>5. QED
    BY <1>1, <1>3, <1>4 DEF LockInv

(* A process outside the lock, staying outside, disturbs nothing. *)
LEMMA LaunchKeepsLock ==
    ASSUME LockInv, NEW p \in Procs, NEW mode, Launch(p, mode)
    PROVE  LockInv'
  <1>1. step' \in [Procs -> Steps] /\ step[p] = "off" /\ step'[p] = "launched"
    BY DEF LockInv, Launch, Goto, Steps
  <1>2. \A q \in Procs : q # p => step'[q] = step[q]
    BY DEF LockInv, Launch, Goto
  <1>3. OnlyTheHolderIsInside'
    BY <1>1, <1>2 DEF LockInv, OnlyTheHolderIsInside, Inside, Launch
  <1>4. PlansWithoutIntent'
    BY <1>1, <1>2 DEF LockInv, PlansWithoutIntent, Launch, journalVars
  <1>5. QED
    BY <1>1, <1>3, <1>4 DEF LockInv

(* However a cycle ends. *)
LEMMA CycleOverKeepsLock ==
    ASSUME LockInv, NEW p \in Procs, Inside(p), NEW status, CycleOver(p, status),
           pending' = pending \/ ~pending'.open
    PROVE  LockInv'
  <1>1. CASE p = Daemon
    <2>1. step' = [step EXCEPT ![p] = "ready"] /\ holder' = holder
      BY <1>1 DEF CycleOver
    <2>2. QED
      BY <2>1, InsideStepKeepsLock DEF Steps
  <1>2. CASE p # Daemon
    <2>1. Exit(p, ExitCode(status))
      BY <1>2 DEF CycleOver
    <2>2. QED
      BY <2>1, ExitKeepsLock
  <1>3. QED
    BY <1>1, <1>2

(* Acquire: only the one that finds the lock free gets in. *)
LEMMA AcquireKeepsLock ==
    ASSUME LockInv, NEW p \in Procs, Acquire(p)
    PROVE  LockInv'
  <1>1. CASE holder = Nobody
    <2>1. step' = [step EXCEPT ![p] = "opening"] /\ holder' = p /\ pending' = pending
      BY <1>1 DEF Acquire, Goto, journalVars
    <2>2. \A q \in Procs : ~Inside(q)
      BY <1>1, ProcsAssumption DEF LockInv, OnlyTheHolderIsInside
    <2>3. step' \in [Procs -> Steps]
      BY <2>1 DEF LockInv, Steps
    <2>4. \A q \in Procs : q # p => step'[q] = step[q]
      BY <2>1 DEF LockInv
    <2>5. step'[p] = "opening"
      BY <2>1 DEF LockInv
    <2>6. OnlyTheHolderIsInside'
      BY <2>1, <2>2, <2>4 DEF OnlyTheHolderIsInside, Inside
    <2>7. PlansWithoutIntent'
      BY <2>1, <2>4, <2>5 DEF LockInv, PlansWithoutIntent
    <2>8. QED
      BY <2>3, <2>6, <2>7 DEF LockInv
  <1>2. CASE holder # Nobody
    <2>1. Exit(p, ExitBusy) /\ pending' = pending
      BY <1>2 DEF Acquire, journalVars
    <2>2. QED
      BY <2>1, ExitKeepsLock
  <1>3. QED
    BY <1>1, <1>2

(* What recovery and a settle leave: the journal as it was, or no intent. *)
LEMMA RecoveredClosesIntent ==
    ASSUME Recovered
    PROVE  ~pending'.open \/ (pending' = pending /\ ~pending.open)
  BY DEF Recovered, Settle, NoIntent, journalVars

(* Every step of a process under way keeps the lock. *)
LEMMA RunKeepsLock ==
    ASSUME LockInv, NEW p \in Procs, Run(p)
    PROVE  LockInv'
  <1>1. CASE Acquire(p)
    BY <1>1, AcquireKeepsLock
  <1>2. CASE OpenStore(p)
    <2>1. Inside(p) /\ pending' = pending
      BY <1>2 DEF OpenStore, Inside, Goto, journalVars
    <2>2. CASE Goto(p, "opening", "ready") /\ UNCHANGED holder
      BY <2>1, <2>2, InsideStepKeepsLock DEF Goto, Steps
    <2>3. CASE Exit(p, ExitConfig)
      BY <2>1, <2>3, ExitKeepsLock
    <2>4. QED
      BY <1>2, <2>2, <2>3 DEF OpenStore
  <1>3. CASE ReadFails(p)
    <2>1. Inside(p) /\ CycleOver(p, "not_authoritative")
      BY <1>3 DEF ReadFails, Inside
    <2>2. pending' = pending \/ ~pending'.open
      BY <1>3, RecoveredClosesIntent DEF ReadFails, journalVars
    <2>3. QED
      BY <2>1, <2>2, CycleOverKeepsLock
  <1>4. CASE ReadAndRecover(p)
    <2>1. Inside(p) /\ step' = [step EXCEPT ![p] = "plan"] /\ holder' = holder
      BY <1>4 DEF ReadAndRecover, Goto, Inside
    <2>2. ~pending'.open
      BY <1>4, RecoveredClosesIntent DEF ReadAndRecover
    <2>3. QED
      BY <2>1, <2>2, InsideStepKeepsLock DEF Steps
  <1>5. CASE NoWrite(p)
    <2>1. Inside(p) /\ CycleOver(p, "no_change") /\ pending' = pending
      BY <1>5 DEF NoWrite, Inside, Release, journalVars
    <2>2. QED
      BY <2>1, CycleOverKeepsLock
  <1>6. CASE JournalIntent(p)
    <2>1. Inside(p)
      BY <1>6 DEF JournalIntent, Inside
    <2>2. CASE pending.open
      <3>1. CycleOver(p, "error") /\ pending' = pending
        BY <1>6, <2>2 DEF JournalIntent, journalVars
      <3>2. QED
        BY <2>1, <3>1, CycleOverKeepsLock
    <2>3. CASE ~pending.open
      <3>1. step' = [step EXCEPT ![p] = "post"] /\ holder' = holder
        BY <1>6, <2>3 DEF JournalIntent, Goto
      <3>2. QED
        BY <2>1, <3>1, InsideStepKeepsLock DEF Steps
    <2>4. QED
      BY <2>2, <2>3
  <1>7. CASE Post(p)
    <2>1. Inside(p) /\ holder' = holder /\ pending' = pending
      BY <1>7 DEF Post, Inside, journalVars
    <2>2. PICK to \in {"applied", "rejected", "unknown"} : step' = [step EXCEPT ![p] = to]
      BY <1>7 DEF Post
    <2>3. QED
      BY <2>1, <2>2, InsideStepKeepsLock DEF Steps
  <1>8. CASE SettleWrite(p)
    <2>1. Inside(p) /\ CycleOver(p, step[p])
      BY <1>8 DEF SettleWrite, Inside
    <2>2. pending' = pending \/ ~pending'.open
      BY <1>8 DEF SettleWrite, Settle, NoIntent, journalVars
    <2>3. QED
      BY <2>1, <2>2, CycleOverKeepsLock
  <1>9. CASE JournalFails(p)
    <2>1. Inside(p) /\ CycleOver(p, "error") /\ pending' = pending
      BY <1>9 DEF JournalFails, Inside, journalVars
    <2>2. QED
      BY <2>1, CycleOverKeepsLock
  <1>10. QED
    BY <1>1, <1>2, <1>3, <1>4, <1>5, <1>6, <1>7, <1>8, <1>9 DEF Run

(* The lock invariant is inductive. *)
THEOREM LockInvAlways == Spec => []LockInv
  <1>1. Init => LockInv
    BY DEF Init, LockInv, OnlyTheHolderIsInside, PlansWithoutIntent, Inside, Steps
  <1>2. LockInv /\ [Next]_vars => LockInv'
    <2> SUFFICES ASSUME LockInv, [Next]_vars
                 PROVE  LockInv'
      OBVIOUS
    <2>1. ASSUME NEW p \in Procs, Run(p)
          PROVE  LockInv'
      BY <2>1, RunKeepsLock
    <2>2. ASSUME NEW p \in Procs, Kill(p)
          PROVE  LockInv'
      BY <2>2, ExitKeepsLock DEF Kill, journalVars
    <2>3. ASSUME NEW p \in Syncs, StartSync(p)
          PROVE  LockInv'
      BY <2>3, LaunchKeepsLock DEF StartSync, Procs
    <2>4. CASE StartDaemon
      BY <2>4, LaunchKeepsLock DEF StartDaemon, Procs
    <2>5. CASE LeaveLoop
      BY <2>5, ExitKeepsLock DEF LeaveLoop, Procs, journalVars
    <2>6. CASE StopUnit \/ StartUnit \/ CalendarChanges \/ UNCHANGED vars
      <3>1. step' = step /\ holder' = holder /\ pending' = pending
        BY <2>6 DEF StopUnit, StartUnit, CalendarChanges, vars, procVars, journalVars
      <3>2. QED
        BY <3>1 DEF LockInv, OnlyTheHolderIsInside, PlansWithoutIntent, Inside
    <2>7. QED
      BY <2>1, <2>2, <2>3, <2>4, <2>5, <2>6 DEF Next
  <1>3. QED
    BY <1>1, <1>2, PTL DEF Spec

(* Whoever is past the host lock is its holder, so no two processes are, for
   any number of processes, killed and restarted anywhere. *)
THEOREM OnlyTheHolderIsInsideAlways == Spec => []OnlyTheHolderIsInside
  <1>1. LockInv => OnlyTheHolderIsInside
    BY DEF LockInv
  <1>2. QED
    BY <1>1, LockInvAlways, PTL

(* No process plans a write over an intent another one left or holds open. *)
THEOREM PlansWithoutIntentAlways == Spec => []PlansWithoutIntent
  <1>1. LockInv => PlansWithoutIntent
    BY DEF LockInv
  <1>2. QED
    BY <1>1, LockInvAlways, PTL

-----------------------------------------------------------------------------
(* Exit code 3. *)

(* The steps before a POST. *)
Unsent == {"launched", "opening", "ready", "plan", "post"}

(* A running process has no exit code yet; the daemon never exits for a source
   it could not read; a sync has one cycle and so one POST. *)
CodeOf(p) ==
    /\ step[p] # "off" \/ p = Daemon => exit[p] # ExitNotAuthoritative
    /\ p # Daemon /\ step[p] \in Unsent => ~posted[p]
    /\ exit[p] = ExitNotAuthoritative => ~posted[p]

CodesInv ==
    /\ exit \in [Procs -> Nat]
    /\ posted \in [Procs -> BOOLEAN]
    /\ \A p \in Procs : CodeOf(p)

(* A step of one process leaves the others' codes. *)
LEMMA OneProcessCodes ==
    ASSUME LockInv, CodesInv, NEW p \in Procs, NEW s \in Steps, NEW code \in Nat, NEW sent \in BOOLEAN,
           step' = [step EXCEPT ![p] = s], exit' = [exit EXCEPT ![p] = code],
           posted' = [posted EXCEPT ![p] = sent],
           s # "off" \/ p = Daemon => code # ExitNotAuthoritative,
           p # Daemon /\ s \in Unsent => ~sent,
           code = ExitNotAuthoritative => ~sent
    PROVE  CodesInv'
  <1>1. step'[p] = s /\ exit'[p] = code /\ posted'[p] = sent
    BY DEF LockInv, CodesInv
  <1>2. \A q \in Procs : q # p => step'[q] = step[q] /\ exit'[q] = exit[q] /\ posted'[q] = posted[q]
    BY DEF LockInv, CodesInv
  <1>3. exit' \in [Procs -> Nat] /\ posted' \in [Procs -> BOOLEAN]
    BY DEF CodesInv
  <1>4. \A q \in Procs : CodeOf(q)'
    BY <1>1, <1>2 DEF CodesInv, CodeOf
  <1>5. QED
    BY <1>3, <1>4 DEF CodesInv

(* However a cycle ends: a sync with the code of its report, the daemon not. *)
LEMMA CycleOverCodes ==
    ASSUME LockInv, CodesInv, NEW p \in Procs, NEW status, CycleOver(p, status), step[p] # "off",
           status = "not_authoritative" => step[p] \in Unsent
    PROVE  CodesInv'
  <1>1. CodeOf(p) /\ exit[p] \in Nat /\ posted[p] \in BOOLEAN
    BY DEF CodesInv
  <1>2. CASE p = Daemon
    <2>1. /\ step' = [step EXCEPT ![p] = "ready"]
          /\ exit' = [exit EXCEPT ![p] = exit[p]] /\ posted' = [posted EXCEPT ![p] = posted[p]]
      BY <1>2 DEF CycleOver, CodesInv
    <2>2. QED
      BY <1>1, <1>2, <2>1, OneProcessCodes DEF CodeOf, Steps
  <1>3. CASE p # Daemon
    <2>1. /\ step' = [step EXCEPT ![p] = "off"]
          /\ exit' = [exit EXCEPT ![p] = ExitCode(status)]
          /\ posted' = [posted EXCEPT ![p] = posted[p]]
      BY <1>3 DEF CycleOver, Exit, CodesInv
    <2>2. /\ ExitCode(status) \in Nat
          /\ ExitCode(status) = ExitNotAuthoritative => status = "not_authoritative"
      BY DEF ExitCode, ExitNotAuthoritative, ExitWriteFailed, ExitConfig
    <2>3. status = "not_authoritative" => ~posted[p]
      BY <1>1, <1>3 DEF CodeOf
    <2>4. QED
      BY <1>1, <1>3, <2>1, <2>2, <2>3, OneProcessCodes DEF CodeOf, Steps, Unsent
  <1>4. QED
    BY <1>2, <1>3

(* Leaving with any other code. *)
LEMMA ExitCodes ==
    ASSUME LockInv, CodesInv, NEW p \in Procs, NEW code \in Nat \ {ExitNotAuthoritative}, Exit(p, code)
    PROVE  CodesInv'
  <1>1. /\ step' = [step EXCEPT ![p] = "off"]
        /\ exit' = [exit EXCEPT ![p] = code]
        /\ posted' = [posted EXCEPT ![p] = posted[p]]
        /\ posted[p] \in BOOLEAN
    BY DEF Exit, CodesInv
  <1>2. QED
    BY <1>1, OneProcessCodes DEF Steps, Unsent

(* Going from one step to the next, before the POST. *)
LEMMA GotoCodes ==
    ASSUME LockInv, CodesInv, NEW p \in Procs, NEW from \in Unsent, NEW to \in Unsent,
           Goto(p, from, to), UNCHANGED <<exit, posted>>
    PROVE  CodesInv'
  <1>1. /\ exit' = [exit EXCEPT ![p] = exit[p]] /\ exit[p] \in Nat
        /\ posted' = [posted EXCEPT ![p] = posted[p]] /\ posted[p] \in BOOLEAN
        /\ CodeOf(p)
    BY DEF CodesInv
  <1>2. step' = [step EXCEPT ![p] = to] /\ step[p] = from
    BY DEF Goto
  <1>3. to \in Steps /\ from # "off"
    BY DEF Unsent, Steps
  <1>4. exit[p] # ExitNotAuthoritative /\ (p # Daemon => ~posted[p])
    BY <1>1, <1>2, <1>3 DEF CodeOf
  <1>5. QED
    BY <1>1, <1>2, <1>3, <1>4, OneProcessCodes

LEMMA LaunchCodes ==
    ASSUME LockInv, CodesInv, NEW p \in Procs, NEW mode, Launch(p, mode)
    PROVE  CodesInv'
  <1>1. /\ step' = [step EXCEPT ![p] = "launched"]
        /\ exit' = [exit EXCEPT ![p] = NotRun]
        /\ posted' = [posted EXCEPT ![p] = FALSE]
    BY DEF Launch, Goto
  <1>2. NotRun \in Nat /\ NotRun # ExitNotAuthoritative /\ "launched" \in Steps
    BY DEF Steps, NotRun, ExitNotAuthoritative
  <1>3. QED
    BY <1>1, <1>2, OneProcessCodes

LEMMA RunCodes ==
    ASSUME LockInv, CodesInv, NEW p \in Procs, Run(p)
    PROVE  CodesInv'
  <1>1. CASE Acquire(p)
    <2>1. CASE holder = Nobody
      <3>1. Goto(p, "launched", "opening") /\ UNCHANGED <<exit, posted>>
        BY <1>1, <2>1 DEF Acquire
      <3>2. QED
        BY <3>1, GotoCodes DEF Unsent
    <2>2. CASE holder # Nobody
      BY <1>1, <2>2, ExitCodes DEF Acquire, ExitBusy, ExitNotAuthoritative
    <2>3. QED
      BY <2>1, <2>2
  <1>2. CASE OpenStore(p)
    <2>1. CASE Goto(p, "opening", "ready") /\ UNCHANGED <<posted, exit>>
      BY <2>1, GotoCodes DEF Unsent
    <2>2. CASE Exit(p, ExitConfig)
      BY <2>2, ExitCodes DEF ExitConfig, ExitNotAuthoritative
    <2>3. QED
      BY <1>2, <2>1, <2>2 DEF OpenStore
  <1>3. CASE ReadFails(p)
    BY <1>3, CycleOverCodes DEF ReadFails, Unsent
  <1>4. CASE ReadAndRecover(p)
    <2>1. Goto(p, "ready", "plan") /\ UNCHANGED <<exit, posted>>
      BY <1>4 DEF ReadAndRecover
    <2>2. QED
      BY <2>1, GotoCodes DEF Unsent
  <1>5. CASE NoWrite(p)
    BY <1>5, CycleOverCodes DEF NoWrite
  <1>6. CASE JournalIntent(p)
    <2>1. CASE pending.open
      BY <1>6, <2>1, CycleOverCodes DEF JournalIntent
    <2>2. CASE ~pending.open
      <3>1. Goto(p, "plan", "post") /\ UNCHANGED <<exit, posted>>
        BY <1>6, <2>2 DEF JournalIntent
      <3>2. QED
        BY <3>1, GotoCodes DEF Unsent
    <2>3. QED
      BY <2>1, <2>2
  <1>7. CASE Post(p)
    <2>1. PICK to \in {"applied", "rejected", "unknown"} : step' = [step EXCEPT ![p] = to]
      BY <1>7 DEF Post
    <2>2. /\ step[p] = "post" /\ posted' = [posted EXCEPT ![p] = TRUE]
          /\ exit' = [exit EXCEPT ![p] = exit[p]] /\ exit[p] \in Nat
      BY <1>7 DEF Post, CodesInv
    <2>3. exit[p] # ExitNotAuthoritative
      BY <2>2 DEF CodesInv, CodeOf
    <2>4. to \in Steps /\ to \notin Unsent
      BY DEF Steps, Unsent
    <2>5. QED
      BY <2>1, <2>2, <2>3, <2>4, OneProcessCodes
  <1>8. CASE SettleWrite(p)
    BY <1>8, CycleOverCodes DEF SettleWrite
  <1>9. CASE JournalFails(p)
    BY <1>9, CycleOverCodes DEF JournalFails
  <1>10. QED
    BY <1>1, <1>2, <1>3, <1>4, <1>5, <1>6, <1>7, <1>8, <1>9 DEF Run

LEMMA CodesInvAlways == Spec => []CodesInv
  <1>1. Init => CodesInv
    BY DEF Init, CodesInv, CodeOf, NotRun, ExitNotAuthoritative
  <1>2. LockInv /\ CodesInv /\ [Next]_vars => CodesInv'
    <2> SUFFICES ASSUME LockInv, CodesInv, [Next]_vars
                 PROVE  CodesInv'
      OBVIOUS
    <2>1. ASSUME NEW p \in Procs, Run(p)
          PROVE  CodesInv'
      BY <2>1, RunCodes
    <2>2. ASSUME NEW p \in Procs, Kill(p)
          PROVE  CodesInv'
      BY <2>2, ExitCodes DEF Kill, Killed, ExitNotAuthoritative
    <2>3. ASSUME NEW p \in Syncs, StartSync(p)
          PROVE  CodesInv'
      BY <2>3, LaunchCodes DEF StartSync, Procs
    <2>4. CASE StartDaemon
      BY <2>4, LaunchCodes DEF StartDaemon, Procs
    <2>5. CASE LeaveLoop
      BY <2>5, ExitCodes DEF LeaveLoop, Procs, ExitNotAuthoritative
    <2>6. CASE StartUnit
      <3>1. /\ step' = step /\ posted' = posted
            /\ exit' = [exit EXCEPT ![Daemon] = NotRun]
        BY <2>6 DEF StartUnit
      <3>2. QED
        BY <3>1 DEF CodesInv, CodeOf, NotRun, ExitNotAuthoritative, Procs
    <2>7. CASE StopUnit \/ CalendarChanges \/ UNCHANGED vars
      <3>1. UNCHANGED <<step, exit, posted>>
        BY <2>7 DEF StopUnit, CalendarChanges, vars, procVars
      <3>2. QED
        BY <3>1 DEF CodesInv, CodeOf
    <2>8. QED
      BY <2>1, <2>2, <2>3, <2>4, <2>5, <2>6, <2>7 DEF Next
  <1>3. QED
    BY <1>1, <1>2, LockInvAlways, PTL DEF Spec

(* Exit code 3 means what src/cli.rs says of it, for any number of processes:
   the one that ended in it sent nothing. *)
THEOREM ExitThreeWroteNothingAlways == Spec => []ExitThreeWroteNothing
  <1>1. CodesInv => ExitThreeWroteNothing
    BY DEF CodesInv, CodeOf, ExitThreeWroteNothing
  <1>2. QED
    BY <1>1, CodesInvAlways, PTL

-----------------------------------------------------------------------------
(* One exact journal. *)

(* The open intent has not been carried out, or wholly. *)
Undone == Made = owned /\ FlightNumbers(wall) # pending.desired
CarriedOut ==
    /\ Made = OwnedAfter(owned, pending.desired, pending.before)
    /\ FlightNumbers(wall) = pending.desired

JournalKnown == IF pending.open THEN Undone \/ CarriedOut ELSE Made = owned

(* The intent is the plan p made. *)
PlannedBy(p) ==
    /\ pending = Intent(PlanOf(p).desired, FlightNumbers(snap[p]))
    /\ Changed(PlanOf(p))

(* What a process under way can rely on. *)
Knows(p) ==
    /\ step[p] \in {"plan", "post", "applied"} => wanted[p] \in Calendars
    /\ step[p] \in {"plan", "post"} => snap[p] = wall
    /\ step[p] \in {"post", "applied", "rejected", "unknown"} => pending.open
    /\ step[p] \in {"post", "rejected"} => Undone
    /\ step[p] = "applied" => CarriedOut
    /\ step[p] \in {"post", "applied"} => PlannedBy(p)

(* Apart from what each process knows: types, a wall without repeats within
   the cap, and a journal that is exact. *)
StoreInv ==
    /\ JournalTypeOK
    /\ wall \in Seq(Entry) /\ Distinct(wall) /\ Len(wall) <= Cap
    /\ calendar \in Calendars
    /\ wanted \in [Procs -> Seq(Numbers)]
    /\ snap \in [Procs -> Seq(Entry)]
    /\ JournalKnown

HostInv == StoreInv /\ \A p \in Procs : Knows(p)

LEMMA EmptyLists == <<>> \in Seq(Numbers) /\ <<>> \in Seq(Entry) /\ Distinct(<<>>) /\ Len(<<>>) <= Cap
BY EmptySeq, CapAssumption DEF Distinct, FlightNumbers, IsInjective

(* A step by the one inside: nobody else is far enough to know anything. *)
LEMMA InsideStepKeepsHost ==
    ASSUME LockInv, NEW p \in Procs, Inside(p), StoreInv', Knows(p)',
           \A q \in Procs : q # p => step'[q] = step[q]
    PROVE  HostInv'
  <1>1. \A q \in Procs : q # p => step'[q] \in {"off", "launched"}
    BY DEF LockInv, OnlyTheHolderIsInside, Inside
  <1>2. \A q \in Procs : q # p => Knows(q)'
    BY <1>1 DEF Knows
  <1>3. QED
    BY <1>2 DEF HostInv

(* A process that starts, waits or leaves, and touches neither journal nor wall. *)
LEMMA IdleStepKeepsHost ==
    ASSUME HostInv, NEW p \in Procs, UNCHANGED <<journalVars, wall, calendar>>,
           wanted' \in [Procs -> Seq(Numbers)], snap' \in [Procs -> Seq(Entry)],
           step'[p] \in {"off", "launched", "opening", "ready"},
           \A q \in Procs : q # p =>
               step'[q] = step[q] /\ wanted'[q] = wanted[q] /\ snap'[q] = snap[q]
    PROVE  HostInv'
  <1>1. UNCHANGED <<owned, pending, wall>>
    BY DEF journalVars
  <1>2. (Undone' <=> Undone) /\ (CarriedOut' <=> CarriedOut) /\ Made' = Made
    BY <1>1 DEF Undone, CarriedOut, Made
  <1>3. StoreInv'
    BY <1>1, <1>2 DEF HostInv, StoreInv, JournalTypeOK, JournalKnown
  <1>4. Knows(p)'
    BY DEF Knows
  <1>5. ASSUME NEW q \in Procs, q # p PROVE Knows(q)'
    <2>1. PlanOf(q)' = PlanOf(q)
      BY <1>1, <1>5 DEF PlanOf
    <2>2. Knows(q)
      BY DEF HostInv
    <2>3. QED
      BY <1>1, <1>2, <1>5, <2>1, <2>2 DEF Knows, PlannedBy
  <1>6. QED
    BY <1>3, <1>4, <1>5 DEF HostInv

(* Where a process is after it left, or its cycle ended. *)
LEMMA ExitFrame ==
    ASSUME LockInv, StoreInv, NEW p \in Procs, NEW code, Exit(p, code)
    PROVE  /\ wanted' \in [Procs -> Seq(Numbers)] /\ snap' \in [Procs -> Seq(Entry)]
           /\ step'[p] = "off"
           /\ \A q \in Procs : q # p =>
                  step'[q] = step[q] /\ wanted'[q] = wanted[q] /\ snap'[q] = snap[q]
BY EmptyLists DEF LockInv, StoreInv, Exit

LEMMA CycleOverFrame ==
    ASSUME LockInv, StoreInv, NEW p \in Procs, NEW status, CycleOver(p, status)
    PROVE  /\ wanted' \in [Procs -> Seq(Numbers)] /\ snap' \in [Procs -> Seq(Entry)]
           /\ step'[p] \in {"off", "ready"}
           /\ \A q \in Procs : q # p =>
                  step'[q] = step[q] /\ wanted'[q] = wanted[q] /\ snap'[q] = snap[q]
  <1>1. CASE p = Daemon
    BY <1>1, EmptyLists DEF LockInv, StoreInv, CycleOver
  <1>2. CASE p # Daemon
    BY <1>2, ExitFrame DEF CycleOver
  <1>3. QED
    BY <1>1, <1>2

(* Settling an open intent by what is known of the wall leaves an exact journal. *)
LEMMA SettleExact ==
    ASSUME StoreInv, NEW applied \in BOOLEAN, Settle(applied), UNCHANGED wall,
           (Undone /\ ~applied) \/ (CarriedOut /\ applied)
    PROVE  JournalTypeOK' /\ Made' = owned' /\ ~pending'.open
  <1>1. pending' = NoIntent /\ Made' = Made
    BY DEF Settle, Made
  <1>2. OwnedAfter(owned, pending.desired, pending.before) \in SUBSET Numbers
    BY RangeOfSeq DEF OwnedAfter, StoreInv, JournalTypeOK
  <1>3. JournalTypeOK'
    BY <1>1, <1>2, EmptyLists DEF StoreInv, JournalTypeOK, Settle, NoIntent
  <1>4. Made' = owned'
    BY <1>1 DEF Settle, Undone, CarriedOut
  <1>5. QED
    BY <1>1, <1>3, <1>4 DEF NoIntent

(* The wall tells whether an open intent was carried out. *)
LEMMA WallTells ==
    ASSUME StoreInv, pending.open, Settle(FlightNumbers(wall) = pending.desired), UNCHANGED wall
    PROVE  JournalTypeOK' /\ Made' = owned' /\ ~pending'.open
  <1>1. CASE Undone
    <2>1. Settle(FALSE)
      BY <1>1 DEF Undone, Settle
    <2>2. QED
      BY <1>1, <2>1, SettleExact
  <1>2. CASE CarriedOut
    <2>1. Settle(TRUE)
      BY <1>2 DEF CarriedOut, Settle
    <2>2. QED
      BY <1>2, <2>1, SettleExact
  <1>3. QED
    BY <1>1, <1>2 DEF StoreInv, JournalKnown

LEMMA RecoveredExact ==
    ASSUME StoreInv, Recovered, UNCHANGED wall
    PROVE  JournalTypeOK' /\ Made' = owned' /\ ~pending'.open
  <1>1. CASE pending.open
    BY <1>1, WallTells DEF Recovered
  <1>2. CASE ~pending.open
    <2>1. UNCHANGED <<owned, pending>>
      BY <1>2 DEF Recovered, journalVars
    <2>2. QED
      BY <1>2, <2>1 DEF StoreInv, JournalTypeOK, JournalKnown, Made
  <1>3. QED
    BY <1>1, <1>2

(* The end of a cycle, with a journal that is exact or as it was. *)
LEMMA CycleOverKeepsHost ==
    ASSUME LockInv, HostInv, NEW p \in Procs, Inside(p), NEW status, CycleOver(p, status),
           UNCHANGED <<wall, calendar>>,
           UNCHANGED journalVars \/ (JournalTypeOK' /\ Made' = owned' /\ ~pending'.open)
    PROVE  HostInv'
  <1>1. /\ wanted' \in [Procs -> Seq(Numbers)] /\ snap' \in [Procs -> Seq(Entry)]
        /\ step'[p] \in {"off", "ready"}
        /\ \A q \in Procs : q # p =>
               step'[q] = step[q] /\ wanted'[q] = wanted[q] /\ snap'[q] = snap[q]
    BY CycleOverFrame DEF HostInv
  <1>2. CASE UNCHANGED journalVars
    BY <1>1, <1>2, IdleStepKeepsHost
  <1>3. CASE JournalTypeOK' /\ Made' = owned' /\ ~pending'.open
    <2>1. StoreInv'
      BY <1>1, <1>3 DEF HostInv, StoreInv, JournalKnown
    <2>2. Knows(p)'
      BY <1>1 DEF Knows
    <2>3. QED
      BY <1>1, <2>1, <2>2, InsideStepKeepsHost
  <1>4. QED
    BY <1>2, <1>3

LEMMA ReadAndRecoverKeepsHost ==
    ASSUME LockInv, HostInv, NEW p \in Procs, ReadAndRecover(p)
    PROVE  HostInv'
  <1>1. /\ Inside(p) /\ Recovered
        /\ step' = [step EXCEPT ![p] = "plan"]
        /\ wanted' = [wanted EXCEPT ![p] = calendar]
        /\ snap' = [snap EXCEPT ![p] = wall]
        /\ UNCHANGED <<wall, calendar>>
    BY DEF ReadAndRecover, Goto, Inside
  <1>2. JournalTypeOK' /\ Made' = owned' /\ ~pending'.open
    BY <1>1, RecoveredExact DEF HostInv
  <1>3. calendar \in Seq(Numbers) /\ wall \in Seq(Entry)
    BY CalendarsAssumption DEF HostInv, StoreInv
  <1>4. /\ wanted' \in [Procs -> Seq(Numbers)] /\ snap' \in [Procs -> Seq(Entry)]
        /\ step'[p] = "plan" /\ wanted'[p] = calendar /\ snap'[p] = wall
        /\ \A q \in Procs : q # p => step'[q] = step[q]
    BY <1>1, <1>3 DEF LockInv, HostInv, StoreInv
  <1>5. StoreInv'
    BY <1>1, <1>2, <1>4 DEF HostInv, StoreInv, JournalKnown
  <1>6. Knows(p)'
    BY <1>1, <1>4 DEF Knows, HostInv, StoreInv
  <1>7. QED
    BY <1>1, <1>4, <1>5, <1>6, InsideStepKeepsHost

(* What NoWrite releases is nothing: what the journal owns is on the wall. *)
LEMMA NothingToRelease ==
    ASSUME NEW p \in Procs, Made = owned, snap[p] = wall
    PROVE  PlanOf(p).released = {}
  <1>1. Made \subseteq Range(FlightNumbers(wall))
    BY DEF Made, FlightNumbers, Range
  <1>2. QED
    BY <1>1 DEF PlanOf, Plan

(* At the plan the journal is exact, and the snapshot the wall. *)
LEMMA AtPlan ==
    ASSUME LockInv, HostInv, NEW p \in Procs, step[p] = "plan"
    PROVE  ~pending.open /\ Made = owned /\ snap[p] = wall /\ wanted[p] \in Calendars
BY DEF LockInv, PlansWithoutIntent, HostInv, StoreInv, JournalKnown, Knows

LEMMA NoWriteLeavesJournal ==
    ASSUME LockInv, HostInv, NEW p \in Procs, NoWrite(p)
    PROVE  UNCHANGED journalVars
  <1>1. PlanOf(p).released = {}
    BY AtPlan, NothingToRelease DEF NoWrite
  <1>2. QED
    BY <1>1 DEF NoWrite, Release, journalVars

(* The plan of a process: its types, and what it sends. *)
LEMMA ThePlanOf ==
    ASSUME StoreInv, NEW p \in Procs, wanted[p] \in Calendars, snap[p] = wall
    PROVE  LET desired == PlanOf(p).desired
           IN  /\ desired = Desired(wanted[p], FlightNumbers(wall), owned)
               /\ wanted[p] \in Seq(Numbers) /\ FlightNumbers(wall) \in Seq(Numbers)
               /\ desired \in Seq(Numbers) /\ Len(desired) <= Cap
               /\ FlightsFor(desired, wall) \in Seq(Entry)
               /\ FlightNumbers(FlightsFor(desired, wall)) = desired
               /\ Distinct(FlightsFor(desired, wall))
               /\ Changed(PlanOf(p)) => desired # FlightNumbers(wall)
  <1>1. PlanOf(p) = Plan(wanted[p], FlightNumbers(wall), owned)
    BY DEF PlanOf
  <1>2. wanted[p] \in Seq(Numbers) /\ IsInjective(wanted[p])
    BY CalendarsAssumption DEF DuplicateWanted
  <1>3. /\ wall \in Seq(Entry) /\ Distinct(wall)
        /\ FlightNumbers(wall) \in Seq(Numbers) /\ Len(FlightNumbers(wall)) <= Cap
    BY FlightNumbersType DEF StoreInv
  <1>4. PlanOf(p).desired = Desired(wanted[p], FlightNumbers(wall), owned)
    BY <1>1 DEF Plan
  <1>5. Len(PlanOf(p).desired) <= Cap
    BY <1>2, <1>3, <1>4, DesiredWithinCap
  <1>6. Changed(PlanOf(p)) => PlanOf(p).desired # FlightNumbers(wall)
    BY <1>1, <1>2, <1>3, <1>4, ChangedMeansOther
  <1>7. QED
    BY <1>2, <1>3, <1>4, <1>5, <1>6, PlannedDistinct

LEMMA JournalIntentKeepsHost ==
    ASSUME LockInv, HostInv, NEW p \in Procs, JournalIntent(p)
    PROVE  HostInv'
  <1>1. /\ step[p] = "plan" /\ Inside(p) /\ StoreInv
        /\ ~pending.open /\ Made = owned /\ snap[p] = wall /\ wanted[p] \in Calendars
    BY AtPlan DEF JournalIntent, Inside, HostInv
  <1>2. /\ step' = [step EXCEPT ![p] = "post"]
        /\ Changed(PlanOf(p))
        /\ pending' = Intent(PlanOf(p).desired, FlightNumbers(snap[p]))
        /\ UNCHANGED <<owned, wall, calendar, wanted, snap>>
    BY <1>1 DEF JournalIntent, Goto, BeginPendingWrite
  <1>3. /\ step'[p] = "post"
        /\ \A q \in Procs : q # p => step'[q] = step[q]
    BY <1>2 DEF LockInv
  <1>4. PlanOf(p)' = PlanOf(p) /\ Made' = Made
    BY <1>2 DEF PlanOf, Made
  <1>5. /\ PlanOf(p).desired \in Seq(Numbers) /\ FlightNumbers(wall) \in Seq(Numbers)
        /\ PlanOf(p).desired # FlightNumbers(wall)
    BY <1>1, <1>2, ThePlanOf
  <1>6. pending'.open /\ pending'.desired = PlanOf(p).desired
    BY <1>2 DEF Intent
  <1>7. Undone'
    BY <1>1, <1>2, <1>4, <1>5, <1>6 DEF Undone
  <1>8. JournalTypeOK'
    BY <1>1, <1>2, <1>5 DEF StoreInv, JournalTypeOK, Intent
  <1>9. StoreInv'
    BY <1>1, <1>2, <1>6, <1>7, <1>8 DEF StoreInv, JournalKnown
  <1>10. Knows(p)'
    BY <1>1, <1>2, <1>3, <1>4, <1>6, <1>7 DEF Knows, PlannedBy
  <1>11. QED
    BY <1>1, <1>3, <1>9, <1>10, InsideStepKeepsHost

(* The server's storing what the one at its POST sends carries the intent out. *)
LEMMA StoredExact ==
    ASSUME StoreInv, NEW p \in Procs, wanted[p] \in Calendars, snap[p] = wall, Undone, PlannedBy(p),
           wall' = FlightsFor(pending.desired, snap[p]), UNCHANGED journalVars
    PROVE  /\ CarriedOut'
           /\ wall' \in Seq(Entry) /\ Distinct(wall') /\ Len(wall') <= Cap
  <1>1. pending.desired = PlanOf(p).desired /\ pending.before = FlightNumbers(wall)
    BY DEF PlannedBy, Intent
  <1>2. wall \in Seq(Entry) /\ Distinct(wall) /\ pending.desired \in Seq(Numbers)
    BY <1>1, ThePlanOf DEF StoreInv
  <1>3. /\ wall' \in Seq(Entry) /\ Distinct(wall')
        /\ FlightNumbers(wall') = pending.desired /\ Len(pending.desired) <= Cap
    BY <1>1, ThePlanOf
  <1>4. Len(wall') <= Cap
    BY <1>3, FlightNumbersType
  <1>5. MadeIn(wall') = OwnedAfter(MadeIn(wall), pending.desired, pending.before)
    BY <1>1, <1>2, MadeInDocument
  <1>6. Made = MadeIn(wall) /\ Made' = MadeIn(wall')
    BY DEF Made, MadeIn
  <1>7. QED
    BY <1>3, <1>4, <1>5, <1>6 DEF CarriedOut, Undone, journalVars

LEMMA PostKeepsHost ==
    ASSUME LockInv, HostInv, NEW p \in Procs, Post(p)
    PROVE  HostInv'
  <1>1. /\ step[p] = "post" /\ Inside(p) /\ StoreInv
        /\ wanted[p] \in Calendars /\ snap[p] = wall /\ pending.open /\ Undone /\ PlannedBy(p)
    BY DEF Post, Inside, HostInv, Knows
  <1>2. UNCHANGED <<journalVars, owned, pending, calendar, wanted, snap>>
    BY DEF Post, journalVars
  <1>3. PICK to \in {"applied", "rejected", "unknown"} :
            /\ step' = [step EXCEPT ![p] = to]
            /\ \/ wall' = FlightsFor(pending.desired, snap[p]) /\ to # "rejected"
               \/ wall' = wall /\ to # "applied"
    BY DEF Post
  <1>4. step'[p] = to /\ \A q \in Procs : q # p => step'[q] = step[q]
    BY <1>3 DEF LockInv
  <1>5. PlannedBy(p)'
    BY <1>1, <1>2 DEF PlannedBy, PlanOf
  <1>6. CASE wall' = FlightsFor(pending.desired, snap[p]) /\ to # "rejected"
    <2>1. CarriedOut' /\ wall' \in Seq(Entry) /\ Distinct(wall') /\ Len(wall') <= Cap
      BY <1>1, <1>2, <1>6, StoredExact
    <2>2. StoreInv'
      BY <1>1, <1>2, <2>1 DEF StoreInv, JournalTypeOK, JournalKnown
    <2>3. Knows(p)'
      BY <1>1, <1>2, <1>4, <1>5, <1>6, <2>1 DEF Knows
    <2>4. QED
      BY <1>1, <1>4, <2>2, <2>3, InsideStepKeepsHost
  <1>7. CASE wall' = wall /\ to # "applied"
    <2>1. Undone'
      BY <1>1, <1>2, <1>7 DEF Undone, Made
    <2>2. StoreInv'
      BY <1>1, <1>2, <1>7, <2>1 DEF StoreInv, JournalTypeOK, JournalKnown
    <2>3. Knows(p)'
      BY <1>1, <1>2, <1>4, <1>7, <2>1 DEF Knows
    <2>4. QED
      BY <1>1, <1>4, <2>2, <2>3, InsideStepKeepsHost
  <1>8. QED
    BY <1>3, <1>6, <1>7

LEMMA SettleWriteKeepsHost ==
    ASSUME LockInv, HostInv, NEW p \in Procs, SettleWrite(p)
    PROVE  HostInv'
  <1>1. /\ Inside(p) /\ CycleOver(p, step[p]) /\ UNCHANGED <<wall, calendar>>
        /\ StoreInv /\ Knows(p) /\ step[p] \in {"applied", "rejected", "unknown"}
    BY DEF SettleWrite, Inside, HostInv
  <1>2. UNCHANGED journalVars \/ (JournalTypeOK' /\ Made' = owned' /\ ~pending'.open)
    <2>1. CASE step[p] = "applied" /\ Settle(TRUE)
      BY <1>1, <2>1, SettleExact DEF Knows
    <2>2. CASE step[p] = "rejected" /\ Settle(FALSE)
      BY <1>1, <2>2, SettleExact DEF Knows
    <2>3. CASE step[p] = "unknown" /\ Settle(FlightNumbers(wall) = pending.desired)
      BY <1>1, <2>3, WallTells DEF Knows
    <2>4. QED
      BY <2>1, <2>2, <2>3 DEF SettleWrite
  <1>3. QED
    BY <1>1, <1>2, CycleOverKeepsHost

LEMMA RunKeepsHost ==
    ASSUME LockInv, HostInv, NEW p \in Procs, Run(p)
    PROVE  HostInv'
  <1>1. CASE Acquire(p)
    <2>1. UNCHANGED <<journalVars, wall, calendar>>
      BY <1>1 DEF Acquire
    <2>2. CASE holder = Nobody
      <3>1. step' = [step EXCEPT ![p] = "opening"] /\ UNCHANGED <<wanted, snap>>
        BY <1>1, <2>2 DEF Acquire, Goto
      <3>2. QED
        BY <2>1, <3>1, IdleStepKeepsHost DEF LockInv, HostInv, StoreInv
    <2>3. CASE holder # Nobody
      BY <1>1, <2>1, <2>3, ExitFrame, IdleStepKeepsHost DEF Acquire, HostInv
    <2>4. QED
      BY <2>2, <2>3
  <1>2. CASE OpenStore(p)
    <2>1. UNCHANGED <<journalVars, wall, calendar>>
      BY <1>2 DEF OpenStore
    <2>2. CASE Goto(p, "opening", "ready") /\ UNCHANGED <<wanted, snap>>
      BY <2>1, <2>2, IdleStepKeepsHost DEF Goto, LockInv, HostInv, StoreInv
    <2>3. CASE Exit(p, ExitConfig)
      BY <2>1, <2>3, ExitFrame, IdleStepKeepsHost DEF HostInv
    <2>4. QED
      BY <1>2, <2>2, <2>3 DEF OpenStore
  <1>3. CASE ReadFails(p)
    <2>1. Inside(p) /\ CycleOver(p, "not_authoritative") /\ UNCHANGED <<wall, calendar>>
      BY <1>3 DEF ReadFails, Inside
    <2>2. UNCHANGED journalVars \/ (JournalTypeOK' /\ Made' = owned' /\ ~pending'.open)
      BY <1>3, <2>1, RecoveredExact DEF ReadFails, HostInv
    <2>3. QED
      BY <2>1, <2>2, CycleOverKeepsHost
  <1>4. CASE ReadAndRecover(p)
    BY <1>4, ReadAndRecoverKeepsHost
  <1>5. CASE NoWrite(p)
    <2>1. Inside(p) /\ CycleOver(p, "no_change") /\ UNCHANGED <<wall, calendar>>
      BY <1>5 DEF NoWrite, Inside
    <2>2. QED
      BY <1>5, <2>1, NoWriteLeavesJournal, CycleOverKeepsHost
  <1>6. CASE JournalIntent(p)
    BY <1>6, JournalIntentKeepsHost
  <1>7. CASE Post(p)
    BY <1>7, PostKeepsHost
  <1>8. CASE SettleWrite(p)
    BY <1>8, SettleWriteKeepsHost
  <1>9. CASE JournalFails(p)
    <2>1. Inside(p) /\ CycleOver(p, "error") /\ UNCHANGED <<journalVars, wall, calendar>>
      BY <1>9 DEF JournalFails, Inside
    <2>2. QED
      BY <2>1, CycleOverKeepsHost
  <1>10. QED
    BY <1>1, <1>2, <1>3, <1>4, <1>5, <1>6, <1>7, <1>8, <1>9 DEF Run

LEMMA LaunchKeepsHost ==
    ASSUME LockInv, HostInv, NEW p \in Procs, NEW mode, Launch(p, mode)
    PROVE  HostInv'
  <1>1. /\ step' = [step EXCEPT ![p] = "launched"]
        /\ UNCHANGED <<journalVars, wall, calendar, wanted, snap>>
    BY DEF Launch, Goto
  <1>2. QED
    BY <1>1, IdleStepKeepsHost DEF LockInv, HostInv, StoreInv

LEMMA HostStep == LockInv /\ HostInv /\ [Next]_vars => HostInv'
  <1> SUFFICES ASSUME LockInv, HostInv, [Next]_vars
               PROVE  HostInv'
    OBVIOUS
  <1>1. ASSUME NEW p \in Procs, Run(p)
        PROVE  HostInv'
    BY <1>1, RunKeepsHost
  <1>2. ASSUME NEW p \in Procs, Kill(p)
        PROVE  HostInv'
    BY <1>2, ExitFrame, IdleStepKeepsHost DEF Kill, HostInv
  <1>3. ASSUME NEW p \in Syncs, StartSync(p)
        PROVE  HostInv'
    BY <1>3, LaunchKeepsHost DEF StartSync, Procs
  <1>4. CASE StartDaemon
    BY <1>4, LaunchKeepsHost DEF StartDaemon, Procs
  <1>5. CASE LeaveLoop
    BY <1>5, ExitFrame, IdleStepKeepsHost DEF LeaveLoop, HostInv, Procs
  <1>6. CASE StopUnit \/ StartUnit \/ CalendarChanges \/ UNCHANGED vars
    <2>1. UNCHANGED <<owned, pending, wall, step, wanted, snap>> /\ calendar' \in Calendars
      BY <1>6 DEF StopUnit, StartUnit, CalendarChanges, vars, procVars, journalVars, HostInv, StoreInv
    <2>2. (Undone' <=> Undone) /\ (CarriedOut' <=> CarriedOut) /\ Made' = Made
      BY <2>1 DEF Undone, CarriedOut, Made
    <2>3. StoreInv'
      BY <2>1, <2>2 DEF HostInv, StoreInv, JournalTypeOK, JournalKnown
    <2>4. \A p \in Procs : Knows(p)'
      BY <2>1, <2>2 DEF HostInv, Knows, PlannedBy, PlanOf
    <2>5. QED
      BY <2>3, <2>4 DEF HostInv
  <1>7. QED
    BY <1>1, <1>2, <1>3, <1>4, <1>5, <1>6 DEF Next

LEMMA HostInit == Init => HostInv
  <1> SUFFICES ASSUME Init
               PROVE  HostInv
    OBVIOUS
  <1>1. Made = {}
    BY DEF Init, Made
  <1>2. JournalTypeOK
    BY EmptyLists DEF Init, JournalInit, JournalTypeOK, NoIntent
  <1>3. StoreInv
    BY <1>1, <1>2, EmptyLists DEF Init, JournalInit, NoIntent, StoreInv, JournalKnown
  <1>4. QED
    BY <1>3 DEF Init, HostInv, Knows

LEMMA HostInvAlways == Spec => [](LockInv /\ HostInv)
  <1>1. QED
    BY HostInit, HostStep, LockInvAlways, PTL DEF Spec

(* Any number of processes, launched, killed and restarted anywhere, keep the
   one journal exact. *)
THEOREM JournalExactAlways == Spec => []JournalExact
  <1>1. HostInv => JournalExact
    BY DEF HostInv, StoreInv, JournalKnown, JournalExact, Undone, CarriedOut
  <1>2. QED
    BY <1>1, HostInvAlways, PTL

-----------------------------------------------------------------------------
(* An applying sync that succeeds leaves nothing to do. *)

(* A process moves no other. *)
LEMMA RunMovesOne ==
    ASSUME NEW p \in Procs, Run(p)
    PROVE  \E s : step' = [step EXCEPT ![p] = s]
  <1>1. ASSUME NEW status, CycleOver(p, status) PROVE \E s : step' = [step EXCEPT ![p] = s]
    BY <1>1 DEF CycleOver, Exit
  <1>2. CASE ReadFails(p) \/ NoWrite(p) \/ SettleWrite(p) \/ JournalFails(p)
    BY <1>1, <1>2 DEF ReadFails, NoWrite, SettleWrite, JournalFails
  <1>3. CASE JournalIntent(p)
    BY <1>1, <1>3 DEF JournalIntent, Goto
  <1>4. CASE Acquire(p) \/ OpenStore(p) \/ ReadAndRecover(p) \/ Post(p)
    BY <1>4 DEF Acquire, OpenStore, ReadAndRecover, Post, Goto, Exit
  <1>5. QED
    BY <1>2, <1>3, <1>4 DEF Run

(* The sync exits by NoWrite, having found nothing to do, or by settling a
   write that applied, from which a next plan asks nothing. *)
LEMMA SyncLeavesNothing ==
    ASSUME LockInv, HostInv, CodesInv, Next, NEW p \in Syncs,
           step[p] # "off", step'[p] = "off", apply[p], exit'[p] = 0
    PROVE  ~Changed(Plan(wanted[p], FlightNumbers(wall'), owned')) /\ ~pending'.open
  <1>0. p \in Procs /\ p # Daemon
    BY ProcsAssumption DEF Procs
  <1>1. CASE NoWrite(p)
    <2>1. ~pending.open /\ snap[p] = wall /\ UNCHANGED <<owned, pending, wall>>
      BY <1>0, <1>1, AtPlan, NoWriteLeavesJournal DEF NoWrite, journalVars
    <2>2. ~Changed(PlanOf(p))
      BY <1>1 DEF NoWrite
    <2>3. QED
      BY <2>1, <2>2 DEF PlanOf
  <1>2. CASE SettleWrite(p) /\ step[p] = "applied"
    <2>1. /\ Settle(TRUE) /\ UNCHANGED wall
          /\ wanted[p] \in Calendars /\ CarriedOut /\ PlannedBy(p)
      BY <1>0, <1>2 DEF SettleWrite, HostInv, Knows
    <2>2. /\ wanted[p] \in Seq(Numbers) /\ FlightNumbers(snap[p]) \in Seq(Numbers)
      BY <1>0, <2>1, CalendarsAssumption, FlightNumbersType DEF HostInv, StoreInv
    <2>3. /\ pending.before = FlightNumbers(snap[p])
          /\ pending.desired = Desired(wanted[p], FlightNumbers(snap[p]), owned)
      BY <2>1 DEF PlannedBy, Intent, PlanOf, Plan
    <2>4. /\ FlightNumbers(wall') = pending.desired
          /\ owned' = OwnedAfter(owned, pending.desired, pending.before)
          /\ ~pending'.open
      BY <2>1 DEF CarriedOut, Settle, NoIntent
    <2>5. QED
      BY <2>2, <2>3, <2>4, SettledPlanAsksNothing
  <1>3. ASSUME NEW code, Exit(p, code), code # 0 PROVE FALSE
    <2>1. exit' = [exit EXCEPT ![p] = code]
      BY <1>3 DEF Exit
    <2>2. QED
      BY <1>0, <1>3, <2>1 DEF CodesInv
  <1>4. ASSUME NEW s, s # "off", step' = [step EXCEPT ![p] = s] PROVE FALSE
    BY <1>0, <1>4 DEF LockInv
  <1>5. ASSUME NEW q \in Procs, q # p, NEW s, step' = [step EXCEPT ![q] = s] PROVE FALSE
    BY <1>0, <1>5 DEF LockInv
  <1>6. ASSUME NEW status \in {"not_authoritative", "rejected", "unknown", "error"},
               CycleOver(p, status)
        PROVE  FALSE
    <2>1. Exit(p, ExitCode(status)) /\ ExitCode(status) # 0
      BY <1>0, <1>6 DEF CycleOver, ExitCode, ExitNotAuthoritative, ExitWriteFailed, ExitConfig
    <2>2. QED
      BY <1>3, <2>1
  <1>7. CASE Run(p)
    <2>1. CASE Acquire(p) \/ OpenStore(p)
      BY <1>3, <1>4, <2>1 DEF Acquire, OpenStore, Goto, ExitBusy, ExitConfig
    <2>2. CASE ReadFails(p) \/ JournalFails(p)
      BY <1>6, <2>2 DEF ReadFails, JournalFails
    <2>3. CASE ReadAndRecover(p)
      BY <1>4, <2>3 DEF ReadAndRecover, Goto
    <2>4. CASE JournalIntent(p)
      BY <1>4, <1>6, <2>4 DEF JournalIntent, Goto
    <2>5. CASE Post(p)
      BY <1>4, <2>5 DEF Post
    <2>6. CASE SettleWrite(p) /\ step[p] # "applied"
      BY <1>6, <2>6 DEF SettleWrite
    <2>7. QED
      BY <1>1, <1>2, <1>7, <2>1, <2>2, <2>3, <2>4, <2>5, <2>6 DEF Run
  <1>8. CASE Kill(p)
    BY <1>3, <1>8 DEF Kill, Killed
  <1>9. ASSUME NEW q \in Procs, q # p, Run(q) \/ Kill(q) PROVE FALSE
    <2>1. CASE Run(q)
      BY <1>5, <1>9, <2>1, RunMovesOne
    <2>2. CASE Kill(q)
      BY <1>5, <1>9, <2>2 DEF Kill, Exit
    <2>3. QED
      BY <1>9, <2>1, <2>2
  <1>10. ASSUME NEW q \in Procs, NEW mode, Launch(q, mode) PROVE FALSE
    <2>1. step' = [step EXCEPT ![q] = "launched"]
      BY <1>10 DEF Launch, Goto
    <2>2. QED
      BY <1>4, <1>5, <2>1
  <1>11. ASSUME \E q \in Syncs : StartSync(q) PROVE FALSE
    BY <1>10, <1>11 DEF StartSync, Procs
  <1>12. CASE StartDaemon
    BY <1>10, <1>12 DEF StartDaemon, Procs
  <1>13. CASE LeaveLoop
    BY <1>0, <1>5, <1>13 DEF LeaveLoop, Exit, Procs
  <1>14. CASE StopUnit \/ StartUnit \/ CalendarChanges
    BY <1>14 DEF StopUnit, StartUnit, CalendarChanges, procVars
  <1>15. QED
    BY <1>7, <1>8, <1>9, <1>11, <1>12, <1>13, <1>14 DEF Next

(* An applying sync that exits with 0 leaves nothing for the next to do, for
   any number of processes and whatever happened to them before: the plan of
   what it settled asks for nothing. *)
THEOREM SecondSyncIsNoChangeAlways == Spec => SecondSyncIsNoChange
  <1> DEFINE Leaves(p) ==
          (step[p] # "off" /\ step'[p] = "off" /\ apply[p] /\ exit'[p] = 0) =>
              ~Changed(Plan(wanted[p], FlightNumbers(wall'), owned')) /\ ~pending'.open
  <1>1. LockInv /\ HostInv /\ CodesInv /\ [Next]_vars => [\A p \in Syncs : Leaves(p)]_vars
    <2> SUFFICES ASSUME LockInv, HostInv, CodesInv, Next, NEW p \in Syncs
                 PROVE  Leaves(p)
      OBVIOUS
    <2>1. QED
      BY SyncLeavesNothing
  <1>2. QED
    BY <1>1, HostInvAlways, CodesInvAlways, PTL DEF Spec, SecondSyncIsNoChange

-----------------------------------------------------------------------------
(* Deployment implements AtomicSync. *)

(* AtomicSync plans, builds and owns with the operators of Reconcile. *)
LEMMA AtomicOperators ==
  ASSUME NEW wants, NEW onWall, NEW owns, NEW flights, NEW desired
  PROVE  /\ Atomic!Plan(wants, onWall, owns) = Plan(wants, onWall, owns)
         /\ Atomic!FlightNumbers(flights) = FlightNumbers(flights)
         /\ Atomic!FlightsFor(desired, flights) = FlightsFor(desired, flights)
         /\ Atomic!OwnedAfter(owns, desired, onWall) = OwnedAfter(owns, desired, onWall)
         /\ \A plan : Atomic!Changed(plan) <=> Changed(plan)
<1>1. \A s, S : Atomic!Kept(s, S) = Kept(s, S)
  BY Zenon DEF Atomic!Kept, Kept, Atomic!KeptAt, KeptAt, Atomic!Rank, Rank,
     Atomic!Cardinality, Cardinality
<1>2. \A f : Atomic!Range(f) = Range(f)
  BY DEF Atomic!Range, Range
<1>3. Atomic!Fresh(wants, onWall) = Fresh(wants, onWall)
  BY <1>1, <1>2 DEF Atomic!Fresh, Fresh
<1>4. Atomic!Staying(wants, onWall, owns) = Staying(wants, onWall, owns)
  BY <1>1, <1>2 DEF Atomic!Staying, Staying
<1>5. Atomic!Fitting(wants, onWall, owns) = Fitting(wants, onWall, owns)
  BY <1>3, <1>4 DEF Atomic!Fitting, Fitting
<1>6. Atomic!Additions(wants, onWall, owns) = Additions(wants, onWall, owns)
  BY <1>3, <1>5 DEF Atomic!Additions, Additions
<1>7. Atomic!Desired(wants, onWall, owns) = Desired(wants, onWall, owns)
  BY <1>4, <1>6 DEF Atomic!Desired, Desired
<1>8. Atomic!Plan(wants, onWall, owns) = Plan(wants, onWall, owns)
  BY <1>1, <1>2, <1>3, <1>5, <1>6, <1>7 DEF Atomic!Plan, Plan
<1>9. \A fl : Atomic!FlightNumbers(fl) = FlightNumbers(fl)
  BY DEF Atomic!FlightNumbers, FlightNumbers
<1>10. \A fl, n : Atomic!Existing(fl, n) = Existing(fl, n)
  BY DEF Atomic!Existing, Existing
<1>11. Atomic!FlightsFor(desired, flights) = FlightsFor(desired, flights)
  BY <1>2, <1>9, <1>10 DEF Atomic!FlightsFor, FlightsFor
<1>12. Atomic!OwnedAfter(owns, desired, onWall) = OwnedAfter(owns, desired, onWall)
  BY <1>2 DEF Atomic!OwnedAfter, OwnedAfter
<1>13. \A plan : Atomic!Changed(plan) <=> Changed(plan)
  BY DEF Atomic!Changed, Changed
<1>14. QED
  BY <1>8, <1>9, <1>11, <1>12, <1>13

(* Seen from outside, the journal owns what the daemon made. *)
LEMMA SettledIsMade ==
    ASSUME HostInv
    PROVE  SettledOwned = Made
BY DEF HostInv, StoreInv, JournalKnown, SettledOwned, Undone, CarriedOut

(* Every step that leaves the wall leaves what the daemon made. *)
LEMMA SameWallStutters ==
    ASSUME HostInv, HostInv', UNCHANGED wall
    PROVE  UNCHANGED Atomic!vars
  <1>1. Made' = Made
    BY DEF Made
  <1>2. SettledOwned' = Made'
    BY DEF HostInv, StoreInv, JournalKnown, SettledOwned, Undone, CarriedOut
  <1>3. QED
    BY <1>1, <1>2, SettledIsMade DEF Atomic!vars

(* The server's storing what a process sends is a write of AtomicSync. *)
LEMMA StoredIsWrite ==
    ASSUME HostInv, HostInv', NEW p \in Procs, Post(p),
           wall' = FlightsFor(pending.desired, snap[p])
    PROVE  Atomic!Write
  <1>1. /\ StoreInv /\ wanted[p] \in Calendars /\ snap[p] = wall
        /\ pending.open /\ Undone /\ PlannedBy(p) /\ UNCHANGED journalVars
    BY DEF Post, HostInv, Knows
  <1>2. CarriedOut'
    BY <1>1, StoredExact
  <1>3. /\ PlanOf(p) = Plan(wanted[p], FlightNumbers(wall), owned)
        /\ Changed(PlanOf(p))
        /\ pending.desired = PlanOf(p).desired /\ pending.before = FlightNumbers(wall)
    BY <1>1 DEF PlanOf, PlannedBy, Intent
  <1>4. Len(PlanOf(p).desired) <= Cap
    BY <1>1, ThePlanOf
  <1>5. SettledOwned = owned
    BY <1>1, SettledIsMade DEF Undone
  <1>6. SettledOwned' = OwnedAfter(owned, PlanOf(p).desired, FlightNumbers(wall))
    <2>1. SettledOwned' = Made'
      BY DEF HostInv, StoreInv, JournalKnown, SettledOwned, Undone, CarriedOut
    <2>2. Made' = OwnedAfter(owned', pending'.desired, pending'.before)
      BY <1>2 DEF CarriedOut
    <2>3. owned' = owned /\ pending' = pending
      BY <1>1 DEF journalVars
    <2>4. QED
      BY <1>3, <2>1, <2>2, <2>3
  <1>7. Atomic!Plan(wanted[p], Atomic!FlightNumbers(wall), SettledOwned) = PlanOf(p)
    BY <1>3, <1>5, AtomicOperators
  <1>8. /\ Atomic!Changed(PlanOf(p))
        /\ wall' = Atomic!FlightsFor(PlanOf(p).desired, wall)
        /\ SettledOwned' = Atomic!OwnedAfter(SettledOwned, PlanOf(p).desired, Atomic!FlightNumbers(wall))
    <2>1. Atomic!Changed(PlanOf(p))
      BY <1>3, AtomicOperators
    <2>2. wall' = Atomic!FlightsFor(PlanOf(p).desired, wall)
      BY <1>1, <1>3, AtomicOperators
    <2>3. SettledOwned' = Atomic!OwnedAfter(SettledOwned, PlanOf(p).desired, Atomic!FlightNumbers(wall))
      BY <1>5, <1>6, AtomicOperators
    <2>4. QED
      BY <2>1, <2>2, <2>3
  <1>9. wanted[p] \in Calendars
    BY <1>1
  <1>10. QED
    BY <1>4, <1>7, <1>8, <1>9 DEF Atomic!Write

LEMMA StepRefines ==
    ASSUME HostInv, HostInv', [Next]_vars
    PROVE  Atomic!Write \/ UNCHANGED Atomic!vars
  <1>1. ASSUME NEW p \in Procs, Post(p)
        PROVE  Atomic!Write \/ UNCHANGED Atomic!vars
    <2>1. wall' \in {wall, FlightsFor(pending.desired, snap[p])}
      BY <1>1 DEF Post
    <2>2. QED
      BY <1>1, <2>1, SameWallStutters, StoredIsWrite
  <1>2. ASSUME NEW p \in Procs, Run(p), ~Post(p)
        PROVE  UNCHANGED wall
    BY <1>2 DEF Run, Acquire, OpenStore, ReadFails, ReadAndRecover, NoWrite, JournalIntent,
       SettleWrite, JournalFails
  <1>3. ASSUME NEW p \in Procs, Kill(p)
        PROVE  UNCHANGED wall
    BY <1>3 DEF Kill
  <1>4. ASSUME NEW p \in Syncs, StartSync(p)
        PROVE  UNCHANGED wall
    BY <1>4 DEF StartSync, Launch
  <1>5. CASE StartDaemon \/ LeaveLoop \/ StopUnit \/ StartUnit \/ CalendarChanges \/ UNCHANGED vars
    <2>1. UNCHANGED wall
      BY <1>5 DEF StartDaemon, Launch, LeaveLoop, StopUnit, StartUnit, CalendarChanges, vars
    <2>2. QED
      BY <2>1, SameWallStutters
  <1>6. QED
    BY <1>1, <1>2, <1>3, <1>4, <1>5, SameWallStutters DEF Next

(* Whatever processes are launched, killed and restarted on the host, together
   they are one AtomicSync: a write and its record in the journal are one step
   to an observer, although one process may send what another settles. *)
THEOREM ImplementsAtomicSyncAlways == Spec => ImplementsAtomicSync
  <1>1. Init => Atomic!Init
    <2>1. SUFFICES ASSUME Init
                   PROVE  Atomic!Init
      OBVIOUS
    <2>2. SettledOwned = {}
      BY <2>1 DEF Init, JournalInit, NoIntent, SettledOwned
    <2>3. QED
      BY <2>1, <2>2 DEF Init, Atomic!Init
  <1>2. HostInv /\ HostInv' /\ [Next]_vars => [Atomic!Write]_Atomic!vars
    BY StepRefines
  <1>3. QED
    BY <1>1, <1>2, HostInvAlways, PTL DEF Spec, ImplementsAtomicSync, Atomic!Spec
=============================================================================
