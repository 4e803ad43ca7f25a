------------------------------- MODULE RunLoop -------------------------------
(***************************************************************************)
(* The daemon's poll loop: run_forever and StopSignal of                   *)
(* src/service/run_loop.rs, with the clock and the wait run_daemon gives   *)
(* them.  A signal may arrive between any two steps.  Time is counted      *)
(* from the start of the cycle; it passes while a cycle runs and while the *)
(* loop sleeps, and the other steps take none.                             *)
(***************************************************************************)
EXTENDS Integers

CONSTANTS Interval,   \* poll_interval_seconds, in ticks
          Poll,       \* the longest sleep between two looks at the flag (100ms)
          MaxCycle    \* the longest a cycle takes

ASSUME TimesAssumption ==
    Interval \in Nat \ {0} /\ Poll \in Nat \ {0} /\ MaxCycle \in Nat

VARIABLES pc,         \* "check", "begin", "cycle", "poll", "nap" or "stopped"
          stop,       \* the StopSignal
          elapsed,    \* time since this cycle began
          remaining,  \* time to the wait's deadline
          nap         \* time left of this sleep

(* Auxiliary. *)
VARIABLES begun,      \* cycles begun since the signal, up to 2
          late,       \* time slept since the signal
          took        \* how long the last cycle ran

auxVars == <<begun, late, took>>
vars == <<pc, stop, elapsed, remaining, nap, auxVars>>

TypeOK ==
    /\ pc \in {"check", "begin", "cycle", "poll", "nap", "stopped"}
    /\ stop \in BOOLEAN
    /\ elapsed \in Nat
    /\ remaining \in Nat
    /\ nap \in Nat
    /\ begun \in 0..2
    /\ late \in Nat
    /\ took \in Nat

(* The first cycle begins at once: there is no earlier one to be too close to. *)
Init ==
    /\ pc = "check"
    /\ stop = FALSE
    /\ elapsed = Interval
    /\ remaining = 0
    /\ nap = 0
    /\ begun = 0
    /\ late = 0
    /\ took = 0

Goto(from, to) == pc = from /\ pc' = to

Earliest(s, t) == IF s < t THEN s ELSE t

-----------------------------------------------------------------------------
(* Mutated form: the flag is not looked at. *)
CheckNothing ==
    /\ Goto("check", "begin")
    /\ UNCHANGED <<stop, elapsed, remaining, nap, auxVars>>

(* run_forever: the flag is looked at, and only then does the cycle begin. *)
CheckStop ==
    /\ Goto("check", IF stop THEN "stopped" ELSE "begin")
    /\ UNCHANGED <<stop, elapsed, remaining, nap, auxVars>>

BeginCycle ==
    /\ Goto("begin", "cycle")
    /\ elapsed' = 0
    /\ begun' = IF stop THEN Earliest(begun + 1, 2) ELSE begun
    /\ UNCHANGED <<stop, remaining, nap, late, took>>

(* Mutated form: the whole interval is waited after the cycle. *)
EndCycleThenInterval ==
    /\ Goto("cycle", "poll")
    /\ remaining' = Interval
    /\ took' = elapsed
    /\ UNCHANGED <<stop, elapsed, nap, begun, late>>

(* The cycle returned, with a report or with an error.  If it took longer than
   the interval the next begins at once; else the rest is waited out. *)
EndCycle ==
    /\ Goto("cycle", IF elapsed >= Interval THEN "check" ELSE "poll")
    /\ remaining' = IF elapsed >= Interval THEN 0 ELSE Interval - elapsed
    /\ took' = elapsed
    /\ UNCHANGED <<stop, elapsed, nap, begun, late>>

(* Mutated form: one sleep for the whole wait. *)
PollStopOnce ==
    /\ Goto("poll", IF stop \/ remaining = 0 THEN "check" ELSE "nap")
    /\ nap' = IF pc' = "nap" THEN remaining ELSE 0
    /\ UNCHANGED <<stop, elapsed, remaining, auxVars>>

(* StopSignal::wait: return if the flag is set or the deadline has come, else
   sleep for at most Poll. *)
PollStop ==
    /\ Goto("poll", IF stop \/ remaining = 0 THEN "check" ELSE "nap")
    /\ nap' = IF pc' = "nap" THEN Earliest(remaining, Poll) ELSE 0
    /\ UNCHANGED <<stop, elapsed, remaining, auxVars>>

WakeUp ==
    /\ nap = 0
    /\ Goto("nap", "poll")
    /\ UNCHANGED <<stop, elapsed, remaining, nap, auxVars>>

(* SIGTERM or SIGINT. *)
Signal ==
    /\ pc # "stopped"
    /\ ~stop
    /\ stop' = TRUE
    /\ UNCHANGED <<pc, elapsed, remaining, nap, auxVars>>

CycleTick ==
    /\ pc = "cycle"
    /\ elapsed < MaxCycle
    /\ elapsed' = elapsed + 1
    /\ UNCHANGED <<pc, stop, remaining, nap, auxVars>>

NapTick ==
    /\ pc = "nap"
    /\ nap > 0
    /\ elapsed' = elapsed + 1
    /\ remaining' = remaining - 1
    /\ nap' = nap - 1
    /\ late' = IF stop THEN late + 1 ELSE late
    /\ UNCHANGED <<pc, stop, begun, took>>

Loop == CheckStop \/ BeginCycle \/ EndCycle \/ PollStop \/ WakeUp \/ CycleTick \/ NapTick

Next == Loop \/ Signal

Spec == Init /\ [][Next]_vars

-----------------------------------------------------------------------------
(* Two cycles begin at least an interval apart, and exactly an interval apart
   unless the first overran it: the loop neither hammers the server nor drifts. *)
CyclesSpaced ==
    [][ BeginCycle => elapsed = (IF took > Interval THEN took ELSE Interval) ]_vars

(* "a signal delivered mid-sleep is honoured within that" (100ms); one that
   arrives just after the loop looked lets one cycle begin, and no second one
   ("never sleeps past a stop"). *)
StopHonoured == late <= Poll /\ begun <= 1
=============================================================================
