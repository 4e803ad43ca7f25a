------------------------------ MODULE Deployment ------------------------------
(***************************************************************************)
(* The processes on one host: the daemon (`flighty-wall run` under         *)
(* systemd) and one-shot `flighty-wall sync`s share a journal and a wall,  *)
(* and only the host lock keeps them apart (src/cli.rs, src/service/lock.rs*)
(* and systemd/flighty-wall.service).  A process may be killed between any *)
(* two steps; the kernel then drops its lock.                              *)
(*                                                                         *)
(* A cycle is coarser here than in module Sync: reading the sources and    *)
(* recovering is one step, and nobody else writes the wall.  What matters  *)
(* is which process takes each step.                                       *)
(***************************************************************************)
EXTENDS Journal

CONSTANTS Daemon, Syncs,    \* the service, and the commands run by hand
          Nobody,           \* holds the lock when no process does
          Calendars,        \* what the calendar may want
          Budget            \* how often each kind of event may happen

Procs == {Daemon} \cup Syncs

Events == {"sync", "stop", "kill", "fault", "calendar"}

ASSUME ProcsAssumption == Daemon \notin Syncs /\ Nobody \notin Procs
ASSUME CalendarsAssumption == \A c \in Calendars : c \in Seq(Numbers) /\ ~DuplicateWanted(c)
ASSUME BudgetAssumption == Budget \in [Events -> Nat]

VARIABLES wall,       \* the server's tracked flights
          calendar,   \* what the calendar wants now
          unit,       \* "up", or "stopped" by the owner
          holder,     \* the process that holds the host lock, or Nobody
          step,       \* where each process is
          apply,      \* its `apply`; FALSE is a dry run
          wanted,     \* what its cycle read from the calendar
          snap,       \* and from the wall
          posted,     \* whether it sent a POST since it was launched
          exit,       \* its last exit code; Killed, or NotRun
          left        \* the events still allowed

procVars == <<step, apply, wanted, snap, posted, exit>>
vars == <<journalVars, wall, calendar, unit, holder, procVars, left>>

Killed == 137
NotRun == 255

Steps == {"off", "launched", "opening", "ready", "plan", "post",
          "applied", "rejected", "unknown"}

(* The exit codes of src/cli.rs. *)
ExitConfig == 2
ExitNotAuthoritative == 3
ExitWriteFailed == 4
ExitBusy == 5

Init ==
    /\ JournalInit
    /\ wall = <<>>
    /\ calendar \in Calendars
    /\ unit = "up"
    /\ holder = Nobody
    /\ step = [p \in Procs |-> "off"]
    /\ apply = [p \in Procs |-> FALSE]
    /\ wanted = [p \in Procs |-> <<>>]
    /\ snap = [p \in Procs |-> <<>>]
    /\ posted = [p \in Procs |-> FALSE]
    /\ exit = [p \in Procs |-> NotRun]
    /\ left = Budget

Spend(kind) == left[kind] > 0 /\ left' = [left EXCEPT ![kind] = @ - 1]

Goto(p, from, to) == step[p] = from /\ step' = [step EXCEPT ![p] = to]

(* The process is gone, and with it its memory and its lock. *)
Exit(p, code) ==
    /\ step' = [step EXCEPT ![p] = "off"]
    /\ exit' = [exit EXCEPT ![p] = code]
    /\ apply' = [apply EXCEPT ![p] = FALSE]
    /\ wanted' = [wanted EXCEPT ![p] = <<>>]
    /\ snap' = [snap EXCEPT ![p] = <<>>]
    /\ holder' = IF holder = p THEN Nobody ELSE holder
    /\ UNCHANGED posted

-----------------------------------------------------------------------------
(* Starting. *)

Launch(p, mode) ==
    /\ Goto(p, "off", "launched")
    /\ apply' = [apply EXCEPT ![p] = mode]
    /\ posted' = [posted EXCEPT ![p] = FALSE]
    /\ exit' = [exit EXCEPT ![p] = NotRun]
    /\ UNCHANGED <<journalVars, wall, calendar, holder, wanted, snap>>

(* systemd starts the unit, and starts it again whenever it failed
   (Restart=on-failure). *)
StartDaemon ==
    /\ unit = "up"
    /\ exit[Daemon] # 0
    /\ Launch(Daemon, TRUE)
    /\ UNCHANGED <<unit, left>>

StartSync(p) ==
    /\ Spend("sync")
    /\ \E mode \in BOOLEAN : Launch(p, mode)
    /\ UNCHANGED unit

(* Mutated forms: the lock is waved through; a busy lock is no failure. *)
AcquireAnyway(p) ==
    /\ Goto(p, "launched", "opening")
    /\ holder' = p
    /\ UNCHANGED <<journalVars, wall, calendar, unit, apply, wanted, snap, posted, exit, left>>
AcquireOrLeave(p) ==
    /\ step[p] = "launched"
    /\ IF holder = Nobody
       THEN /\ Goto(p, "launched", "opening")
            /\ holder' = p
            /\ UNCHANGED <<apply, wanted, snap, posted, exit>>
       ELSE Exit(p, 0)
    /\ UNCHANGED <<journalVars, wall, calendar, unit, left>>

(* HostLock::acquire: now or never. *)
Acquire(p) ==
    /\ step[p] = "launched"
    /\ IF holder = Nobody
       THEN /\ Goto(p, "launched", "opening")
            /\ holder' = p
            /\ UNCHANGED <<apply, wanted, snap, posted, exit>>
       ELSE Exit(p, ExitBusy)
    /\ UNCHANGED <<journalVars, wall, calendar, unit, left>>

(* StateStore::open, only under the lock. *)
OpenStore(p) ==
    /\ \/ /\ Goto(p, "opening", "ready")
          /\ UNCHANGED <<holder, apply, wanted, snap, posted, exit, left>>
       \/ /\ step[p] = "opening"
          /\ Exit(p, ExitConfig)
          /\ Spend("fault")
    /\ UNCHANGED <<journalVars, wall, calendar, unit>>

-----------------------------------------------------------------------------
(* One cycle.  When it is over the daemon waits for the next one, whatever
   became of this one; a sync exits with the code of its report. *)

(* Mutated forms: a rejected write is reported as a success; a failed one as
   a source that could not be read. *)
ExitCodeLenient(status) ==
    CASE status = "not_authoritative" -> ExitNotAuthoritative
      [] status = "unknown" -> ExitWriteFailed
      [] status = "error" -> ExitConfig
      [] OTHER -> 0
ExitCodeMixed(status) ==
    CASE status \in {"not_authoritative", "unknown"} -> ExitNotAuthoritative
      [] status = "rejected" -> ExitWriteFailed
      [] status = "error" -> ExitConfig
      [] OTHER -> 0

(* exit_code of the report's status, and Failure::exit_code of an error. *)
ExitCode(status) ==
    CASE status = "not_authoritative" -> ExitNotAuthoritative
      [] status \in {"rejected", "unknown"} -> ExitWriteFailed
      [] status = "error" -> ExitConfig
      [] OTHER -> 0

CycleOver(p, status) ==
    IF p = Daemon
    THEN /\ step' = [step EXCEPT ![p] = "ready"]
         /\ wanted' = [wanted EXCEPT ![p] = <<>>]
         /\ snap' = [snap EXCEPT ![p] = <<>>]
         /\ UNCHANGED <<holder, apply, posted, exit>>
    ELSE Exit(p, ExitCode(status))

(* Mutated form: a write nobody settled is taken for lost. *)
RecoveredAsLost == IF pending.open THEN Settle(FALSE) ELSE UNCHANGED journalVars

(* What an earlier write left open is settled against the wall. *)
Recovered ==
    IF pending.open
    THEN Settle(FlightNumbers(wall) = pending.desired)
    ELSE UNCHANGED journalVars

(* The calendar or the wall could not be read, before or after recovery. *)
ReadFails(p) ==
    /\ step[p] = "ready"
    /\ p = Daemon => unit = "up"
    /\ Spend("fault")
    /\ UNCHANGED journalVars \/ Recovered
    /\ CycleOver(p, "not_authoritative")
    /\ UNCHANGED <<wall, calendar, unit>>

(* Both were read. *)
ReadAndRecover(p) ==
    /\ p = Daemon => unit = "up"
    /\ Goto(p, "ready", "plan")
    /\ wanted' = [wanted EXCEPT ![p] = calendar]
    /\ snap' = [snap EXCEPT ![p] = wall]
    /\ Recovered
    /\ UNCHANGED <<wall, calendar, unit, holder, apply, posted, exit, left>>

PlanOf(p) == Plan(wanted[p], FlightNumbers(snap[p]), owned)

NoWrite(p) ==
    /\ step[p] = "plan"
    /\ ~apply[p] \/ ~Changed(PlanOf(p))
    /\ IF apply[p] THEN Release(PlanOf(p).released) ELSE UNCHANGED journalVars
    /\ CycleOver(p, "no_change")
    /\ UNCHANGED <<wall, calendar, unit, left>>

(* The intent is journaled; one that is already open is an error. *)
JournalIntent(p) ==
    /\ step[p] = "plan"
    /\ apply[p] /\ Changed(PlanOf(p))
    /\ IF pending.open
       THEN CycleOver(p, "error") /\ UNCHANGED journalVars
       ELSE /\ Goto(p, "plan", "post")
            /\ BeginPendingWrite(PlanOf(p).desired, FlightNumbers(snap[p]))
            /\ UNCHANGED <<holder, apply, wanted, snap, posted, exit>>
    /\ UNCHANGED <<wall, calendar, unit, left>>

Post(p) ==
    /\ step[p] = "post"
    /\ posted' = [posted EXCEPT ![p] = TRUE]
    /\ \/ /\ step' = [step EXCEPT ![p] = "applied"]
          /\ wall' = FlightsFor(pending.desired, snap[p])
          /\ UNCHANGED left
       \/ /\ step' = [step EXCEPT ![p] = "rejected"]
          /\ Spend("fault")
          /\ UNCHANGED wall
       \/ /\ step' = [step EXCEPT ![p] = "unknown"]
          /\ Spend("fault")
          /\ wall' \in {wall, FlightsFor(pending.desired, snap[p])}
    /\ UNCHANGED <<journalVars, calendar, unit, holder, apply, wanted, snap, exit>>

(* The answer decides, or a re-read, or nothing yet if that fails too. *)
SettleWrite(p) ==
    /\ step[p] \in {"applied", "rejected", "unknown"}
    /\ \/ /\ \/ step[p] = "applied" /\ Settle(TRUE)
             \/ step[p] = "rejected" /\ Settle(FALSE)
             \/ step[p] = "unknown" /\ Settle(FlightNumbers(wall) = pending.desired)
          /\ UNCHANGED left
       \/ step[p] = "unknown" /\ Spend("fault") /\ UNCHANGED journalVars
    /\ CycleOver(p, step[p])
    /\ UNCHANGED <<wall, calendar, unit>>

(* A journal transaction fails: the cycle ends in an error, the journal as it
   was. *)
JournalFails(p) ==
    /\ step[p] \in {"plan", "applied", "rejected", "unknown"}
    /\ Spend("fault")
    /\ CycleOver(p, "error")
    /\ UNCHANGED <<journalVars, wall, calendar, unit>>

-----------------------------------------------------------------------------
(* The owner stops the unit; the daemon notices between two cycles. *)
StopUnit ==
    /\ unit = "up"
    /\ Spend("stop")
    /\ unit' = "stopped"
    /\ UNCHANGED <<journalVars, wall, calendar, holder, procVars>>

LeaveLoop ==
    /\ step[Daemon] = "ready"
    /\ unit = "stopped"
    /\ Exit(Daemon, 0)
    /\ UNCHANGED <<journalVars, wall, calendar, unit, left>>

StartUnit ==
    /\ unit = "stopped"
    /\ step[Daemon] = "off"
    /\ Spend("stop")
    /\ unit' = "up"
    /\ exit' = [exit EXCEPT ![Daemon] = NotRun]
    /\ UNCHANGED <<journalVars, wall, calendar, holder, step, apply, wanted, snap, posted>>

(* SIGKILL, a panic, the end of TimeoutStopSec. *)
Kill(p) ==
    /\ step[p] # "off"
    /\ Spend("kill")
    /\ Exit(p, Killed)
    /\ UNCHANGED <<journalVars, wall, calendar, unit>>

CalendarChanges ==
    /\ Spend("calendar")
    /\ calendar' \in Calendars \ {calendar}
    /\ UNCHANGED <<journalVars, wall, unit, holder, procVars>>

Run(p) ==
    \/ Acquire(p) \/ OpenStore(p) \/ ReadFails(p) \/ ReadAndRecover(p)
    \/ NoWrite(p) \/ JournalIntent(p) \/ Post(p) \/ SettleWrite(p) \/ JournalFails(p)

Next ==
    \/ \E p \in Procs : Run(p) \/ Kill(p)
    \/ \E p \in Syncs : StartSync(p)
    \/ StartDaemon \/ LeaveLoop
    \/ StopUnit \/ StartUnit \/ CalendarChanges

Spec == Init /\ [][Next]_vars

(* Processes are scheduled and systemd does what the unit file says; nobody
   has to run a sync, kill or stop anything. *)
FairSpec ==
    /\ Spec
    /\ \A p \in Procs : WF_vars(Run(p))
    /\ WF_vars(StartDaemon)
    /\ WF_vars(LeaveLoop)

-----------------------------------------------------------------------------
Inside(p) == step[p] \notin {"off", "launched"}

(* "two mutating processes never share one state database" (src/service/
   lock.rs:1): whoever is past the lock is its holder. *)
OnlyTheHolderIsInside == \A p \in Procs : Inside(p) => holder = p

(* No cycle plans over another's open intent, so none ends in
   PendingWriteExists, whoever was killed where. *)
PlansWithoutIntent == \A p \in Procs : step[p] = "plan" => ~pending.open

Made == {wall[i].number : i \in {j \in DOMAIN wall : wall[j].by = "daemon"}}

(* Two processes and their restarts keep one journal exact, as one process
   does in Sync. *)
JournalExact ==
    IF pending.open
    THEN Made \in {owned, OwnedAfter(owned, pending.desired, pending.before)}
    ELSE Made = owned

(* src/cli.rs:35 "A source could not be read authoritatively; nothing was
   written": not by this process. *)
ExitThreeWroteNothing == \A p \in Procs : exit[p] = ExitNotAuthoritative => ~posted[p]

(* README.md:206 "the second `sync --apply` must report status=no_change": an
   applying sync that exits with 0 leaves nothing to do for the next. *)
SecondSyncIsNoChange ==
    [][ \A p \in Syncs : (step[p] # "off" /\ step'[p] = "off" /\ apply[p] /\ exit'[p] = 0) =>
            ~Changed(Plan(wanted[p], FlightNumbers(wall'), owned')) /\ ~pending'.open ]_vars

(* While the owner wants the unit up, the daemon gets back to its cycles: from
   a busy lock, a failed start and a kill. *)
DaemonComesBack == unit = "up" ~> (step[Daemon] = "plan" \/ unit = "stopped")

-----------------------------------------------------------------------------
(* An intent the server has carried out counts as settled, as in Sync. *)
SettledOwned ==
    IF pending.open /\ FlightNumbers(wall) = pending.desired
    THEN OwnedAfter(owned, pending.desired, pending.before)
    ELSE owned

(* All processes of the host, one after another and cut short anywhere, are one
   AtomicSync: to an observer a write and its record in the journal are one
   step, although one process may send and another, launched later, record it
   (src/service/lock.rs:1, src/reconcile.rs recover_pending_write). *)
Atomic == INSTANCE AtomicSync WITH owned <- SettledOwned, InitialWalls <- {<<>>}

ImplementsAtomicSync == Atomic!Spec
=============================================================================
