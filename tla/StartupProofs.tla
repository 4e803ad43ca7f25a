---------------------------- MODULE StartupProofs ----------------------------
(***************************************************************************)
(* What the runs of the commands show on small instances, for every        *)
(* configuration, disk and number of launches, kills and edits.  A start's *)
(* invariant has four parts: the poll loop's own, what is true of the      *)
(* files the program made, what the stage says of the directory, and what  *)
(* it says of the configuration.  The files that commands write have one   *)
(* of their own, FilesInv.                                                 *)
(***************************************************************************)
EXTENDS Commands, SequenceTheorems, WellFoundedInduction, TLAPS

-----------------------------------------------------------------------------
(* The poll loop by itself, for every interval, poll and cycle length.  The
   waiting part of the invariant ties the sleep to the deadline and both to
   the interval; the stopping part says that a set flag is acted on at the
   next look. *)

(* When the next cycle may begin. *)
Due == IF took > Interval THEN took ELSE Interval

(* A wait always ends at the due time, and a sleep never overruns the wait. *)
WaitInv ==
    /\ pc \in {"poll", "nap"} => elapsed + remaining = Interval /\ took <= Interval
    /\ pc = "nap" => nap <= remaining
    /\ pc = "begin" => elapsed = Due
    /\ pc = "check" => stop \/ elapsed = Due

(* Until the signal nothing is counted; after it at most the cycle that was
   about to begin begins, and at most the sleep under way is slept out. *)
StopInv ==
    /\ ~stop => begun = 0 /\ late = 0
    /\ pc = "begin" => begun = 0
    /\ begun <= 1
    /\ late <= Poll
    /\ pc = "nap" => late + nap <= Poll

LoopInv == TypeOK /\ WaitInv /\ StopInv

(* The invariant holds at the start. *)
LEMMA InitLoopInv == Init => LoopInv
<1> SUFFICES ASSUME Init PROVE LoopInv
  OBVIOUS
<1>1. Interval \in Nat /\ ~(0 > Interval) /\ 0 <= Poll
  BY TimesAssumption
<1>2. TypeOK
  <2>1. stop \in BOOLEAN /\ pc \in {"check", "begin", "cycle", "poll", "nap", "stopped"}
    BY Zenon DEF Init
  <2>2. elapsed \in Nat /\ remaining \in Nat /\ nap \in Nat
        /\ begun \in 0..2 /\ late \in Nat /\ took \in Nat
    BY <1>1 DEF Init
  <2>3. QED
    BY <2>1, <2>2 DEF TypeOK
<1>3. WaitInv
  BY <1>1 DEF Init, WaitInv, Due
<1>4. StopInv
  BY <1>1 DEF Init, StopInv
<1>5. QED
  BY <1>2, <1>3, <1>4 DEF LoopInv

(* Every step keeps it. *)
LEMMA LoopInvStep ==
  ASSUME LoopInv, [Next]_vars
  PROVE  LoopInv'
<1> USE TimesAssumption DEF LoopInv, TypeOK, WaitInv, StopInv, Due
<1>1. CASE UNCHANGED vars
  BY <1>1 DEF vars, auxVars
<1>2. CASE CheckStop
  BY <1>2 DEF CheckStop, Goto, auxVars
<1>3. CASE BeginCycle
  BY <1>3 DEF BeginCycle, Goto, Earliest
<1>4. CASE EndCycle
  <2>1. CASE elapsed >= Interval
    BY <1>4, <2>1 DEF EndCycle, Goto
  <2>2. CASE elapsed < Interval
    BY <1>4, <2>2 DEF EndCycle, Goto
  <2>3. QED
    BY <2>1, <2>2
<1>5. CASE PollStop
  <2>1. CASE stop \/ remaining = 0
    BY <1>5, <2>1 DEF PollStop, Goto, auxVars
  <2>2. CASE ~stop /\ remaining # 0
    BY <1>5, <2>2 DEF PollStop, Goto, Earliest, auxVars
  <2>3. QED
    BY <2>1, <2>2
<1>6. CASE WakeUp
  BY <1>6 DEF WakeUp, Goto, auxVars
<1>7. CASE CycleTick
  BY <1>7 DEF CycleTick, auxVars
<1>8. CASE NapTick
  BY <1>8 DEF NapTick
<1>9. CASE Signal
  BY <1>9 DEF Signal, auxVars
<1>10. QED
  BY <1>1, <1>2, <1>3, <1>4, <1>5, <1>6, <1>7, <1>8, <1>9 DEF Next, Loop

(* The loop keeps its invariant. *)
THEOREM LoopInvAlways == Spec => []LoopInv
BY InitLoopInv, LoopInvStep, PTL DEF Spec

(* A signal that arrives mid-sleep is acted on within one poll, whatever is
   left of the interval; one that arrives after the loop looked at the flag
   lets one cycle begin, and no second one. *)
THEOREM StopHonouredAlways == Spec => []StopHonoured
<1>1. LoopInv => StopHonoured
  BY DEF LoopInv, StopInv, StopHonoured
<1>2. QED
  BY <1>1, LoopInvAlways, PTL

(* Cycles begin exactly an interval apart, or at once after an overrun. *)
THEOREM CyclesSpacedAlways == Spec => CyclesSpaced
<1>1. LoopInv /\ [Next]_vars =>
        [BeginCycle => elapsed = (IF took > Interval THEN took ELSE Interval)]_vars
  BY DEF LoopInv, WaitInv, Due, BeginCycle, Goto
<1>2. QED
  BY <1>1, LoopInvAlways, PTL DEF Spec, CyclesSpaced

-----------------------------------------------------------------------------
(* The program from its launch to its end. *)

Bare == AppConfig(call.body).storage.state_path.word = "bare"

Sound == Accepted(call.body)

Asked ==
    \/ call.command = "sync" /\ call.apply_flag
    \/ /\ "service" \in DOMAIN call.body
       /\ "dry_run" \in DOMAIN call.body.service
       /\ call.body.service.dry_run.word = "false"

Reasons == Paths \cup {"nothing", "busy", "store", "input", "output"}

(* What the program made is private unless it is SQLite's, and that is only in
   a private directory. *)
MadeInv ==
    /\ mine \subseteq {"dir", "lock"} \cup StateFiles
    /\ \A p \in mine \cap {"dir", "lock", "db"} : disk[p] = "private"
    /\ mine \cap {"wal", "shm"} # {} => disk.dir = "private"
    /\ mine # {} => ~Bare
    /\ at # "off" => why = "nothing"
    /\ why \notin mine

PastPaths == Opening \cup {"wall", "reader", "signals", "loop", "cycle"}
PastRead == Stages \ {"off", "read", "capture", "write"}

(* Past its check the directory is closed to others, unless the owner changed
   it since. *)
StageInv ==
    /\ ~meddled /\ at \in {"open_db", "connect"} => disk.dir \in {"private", "readonly"}
    /\ ~meddled /\ at \in {"secure", "loop", "cycle"} => disk.dir = "private"
    /\ at \in PastPaths => ~Bare

ConfigInv ==
    /\ at \in PastRead => Sound
    /\ posted => Asked

StartInv == StartTypeOK /\ LoopInv /\ MadeInv /\ StageInv /\ ConfigInv

-----------------------------------------------------------------------------
(* The configuration. *)

BoundedKeys ==
    {"poll_interval_seconds", "lookahead_days", "max_pages", "max_events", "max_field_chars",
     "max_snapshot_bytes"}

(* Every bound is above zero, and so are the defaults. *)
LEMMA BoundsPositive ==
  ASSUME NEW key \in BoundedKeys
  PROVE  /\ key \in DOMAIN Bounds
         /\ \A n \in Bounds[key] : n \in Int /\ n > 0
         /\ FieldDefault[key].n \in Int /\ FieldDefault[key].n > 0
<1>1. DOMAIN Bounds = BoundedKeys
  BY SMT DEF Bounds, BoundedKeys
<1>2. \A min, max \in Nat \ {0} : \A n \in Within(min, max) : n \in Int /\ n > 0
  BY SMT DEF Within
<1>3. \A n \in Nat \ {0} : Whole(n).n \in Int /\ Whole(n).n > 0
  BY SMT DEF Whole, Value
<1>4. CASE key = "poll_interval_seconds"
  <2>1. Bounds[key] = Within(30, 86400) /\ FieldDefault[key] = Whole(120)
    BY SMT, <1>4 DEF Bounds, FieldDefault
  <2>2. QED
    BY SMT, <1>1, <1>2, <1>3, <2>1
<1>5. CASE key = "lookahead_days"
  <2>1. Bounds[key] = Within(1, 90) /\ FieldDefault[key] = Whole(7)
    BY SMT, <1>5 DEF Bounds, FieldDefault
  <2>2. QED
    BY SMT, <1>1, <1>2, <1>3, <2>1
<1>6. CASE key = "max_pages"
  <2>1. Bounds[key] = Within(1, 100) /\ FieldDefault[key] = Whole(10)
    BY SMT, <1>6 DEF Bounds, FieldDefault
  <2>2. QED
    BY SMT, <1>1, <1>2, <1>3, <2>1
<1>7. CASE key = "max_events"
  <2>1. Bounds[key] = Within(1, 10000) /\ FieldDefault[key] = Whole(500)
    BY SMT, <1>7 DEF Bounds, FieldDefault
  <2>2. QED
    BY SMT, <1>1, <1>2, <1>3, <2>1
<1>8. CASE key = "max_field_chars"
  <2>1. Bounds[key] = Within(256, 1000000) /\ FieldDefault[key] = Whole(8192)
    BY SMT, <1>8 DEF Bounds, FieldDefault
  <2>2. QED
    BY SMT, <1>1, <1>2, <1>3, <2>1
<1>9. CASE key = "max_snapshot_bytes"
  <2>1. Bounds[key] = Within(1024, 100000000) /\ FieldDefault[key] = Whole(1048576)
    BY SMT, <1>9 DEF Bounds, FieldDefault
  <2>2. QED
    BY SMT, <1>1, <1>2, <1>3, <2>1
<1>10. QED
  BY <1>4, <1>5, <1>6, <1>7, <1>8, <1>9 DEF BoundedKeys

(* Which keys those are. *)
LEMMA BoundedInSchema ==
  /\ Schema["service"] = {"poll_interval_seconds", "lookahead_days", "dry_run"}
  /\ Schema["calendar_limits"] = BoundedKeys \ {"poll_interval_seconds", "lookahead_days"}
BY SMT DEF Schema, BoundedKeys

(* So is the default of a table left out. *)
LEMMA DefaultsPositive ==
  /\ \A key \in {"poll_interval_seconds", "lookahead_days"} :
        ServiceDefault[key].n \in Int /\ ServiceDefault[key].n > 0
  /\ \A key \in BoundedKeys \ {"poll_interval_seconds", "lookahead_days"} :
        LimitsDefault[key].n \in Int /\ LimitsDefault[key].n > 0
<1>1. /\ ServiceDefault["poll_interval_seconds"] = Whole(120)
      /\ ServiceDefault["lookahead_days"] = Whole(7)
  BY SMT DEF ServiceDefault
<1>2. /\ LimitsDefault["max_pages"] = Whole(10) /\ LimitsDefault["max_events"] = Whole(500)
      /\ LimitsDefault["max_field_chars"] = Whole(8192)
      /\ LimitsDefault["max_snapshot_bytes"] = Whole(1048576)
  BY SMT DEF LimitsDefault
<1>3. \A n \in Nat \ {0} : Whole(n).n \in Int /\ Whole(n).n > 0
  BY SMT DEF Whole, Value
<1>4. QED
  BY SMT, <1>1, <1>2, <1>3 DEF BoundedKeys

(* A key that has a bound has it after the defaults are filled in. *)
LEMMA FilledInBounds ==
  ASSUME NEW body, Accepted(body),
         NEW table \in {"service", "calendar_limits"}, NEW key \in Schema[table], key # "dry_run"
  PROVE  AppConfig(body)[table][key].n \in Int /\ AppConfig(body)[table][key].n > 0
<1>1. key \in BoundedKeys
  BY BoundedInSchema DEF BoundedKeys
<1>2. CASE table \in DOMAIN body
  <2>1. AppConfig(body)[table] = Filled(table, body[table])
    BY <1>2 DEF AppConfig
  <2>2. CASE key \in DOMAIN body[table]
    <3>1. Admits(key, body[table][key])
      BY <1>2, <2>2 DEF Accepted, TableAccepted
    <3>2. body[table][key].n \in Bounds[key]
      BY <1>1, <3>1, BoundsPositive DEF Admits
    <3>3. AppConfig(body)[table][key] = Stored(body[table][key])
      BY <2>1, <2>2 DEF Filled
    <3>4. QED
      BY <1>1, <3>2, <3>3, BoundsPositive DEF Stored, Value
  <2>3. CASE key \notin DOMAIN body[table]
    <3>1. AppConfig(body)[table][key] = FieldDefault[key]
      BY <2>1, <2>3 DEF Filled
    <3>2. QED
      BY <1>1, <3>1, BoundsPositive
  <2>4. QED
    BY <2>2, <2>3
<1>3. CASE table \notin DOMAIN body
  <2>1. AppConfig(body)[table] = IF table = "service" THEN ServiceDefault ELSE LimitsDefault
    BY <1>3 DEF AppConfig
  <2>2. CASE table = "service"
    BY <2>1, <2>2, BoundedInSchema, DefaultsPositive
  <2>3. CASE table = "calendar_limits"
    BY <2>1, <2>3, BoundedInSchema, DefaultsPositive
  <2>4. QED
    BY <2>2, <2>3
<1>4. QED
  BY <1>2, <1>3

(* The timeout is a number above zero. *)
LEMMA FilledTimeout ==
  ASSUME NEW body, Accepted(body), "flightwall" \in DOMAIN body
  PROVE  LET timeout == AppConfig(body).flightwall.timeout_seconds
         IN  timeout.word # "nan" /\ timeout.n > 0
<1> DEFINE t == body["flightwall"]
           timeout == AppConfig(body).flightwall.timeout_seconds
<1>1. AppConfig(body).flightwall = Filled("flightwall", t)
  BY DEF AppConfig
<1>2. CASE "timeout_seconds" \in DOMAIN t
  <2>1. Admits("timeout_seconds", t["timeout_seconds"])
    BY <1>2 DEF Accepted, TableAccepted
  <2>2. TimeoutSeconds(t["timeout_seconds"])
    <3>1. "timeout_seconds" \notin DOMAIN Bounds
      BY SMT DEF Bounds
    <3>2. QED
      BY <2>1, <3>1 DEF Admits
  <2>3. timeout = Stored(t["timeout_seconds"])
    BY <1>1, <1>2 DEF Filled, Schema
  <2>4. QED
    BY SMT, <2>2, <2>3 DEF TimeoutSeconds, Stored, Value
<1>3. CASE "timeout_seconds" \notin DOMAIN t
  <2>1. "timeout_seconds" \in Schema["flightwall"]
    BY SMT DEF Schema
  <2>2. timeout = FieldDefault["timeout_seconds"]
    BY <1>1, <1>3, <2>1 DEF Filled
  <2>3. FieldDefault["timeout_seconds"] = Seconds(15)
    BY SMT DEF FieldDefault
  <2>4. Seconds(15).word # "nan" /\ Seconds(15).n > 0
    BY SMT DEF Seconds, Value
  <2>5. QED
    BY <2>2, <2>3, <2>4
<1>4. QED
  BY <1>2, <1>3

(* What is accepted can be used: a panic in build_wall or a window of no days
   cannot come from a file. *)
LEMMA AcceptedUsable ==
  ASSUME NEW body, Accepted(body)
  PROVE  Usable(AppConfig(body))
<1> DEFINE config == AppConfig(body)
<1>1. config.service.poll_interval_seconds.n > 0 /\ config.service.lookahead_days.n > 0
  BY FilledInBounds DEF Schema
<1>2. \A key \in Schema.calendar_limits : CalendarLimits(config)[key] > 0
  <2> SUFFICES ASSUME NEW key \in Schema.calendar_limits PROVE CalendarLimits(config)[key] > 0
    OBVIOUS
  <2>1. key # "dry_run" /\ key \in Schema["calendar_limits"]
    BY DEF Schema
  <2>2. config.calendar_limits[key].n \in Int /\ config.calendar_limits[key].n > 0
    BY <2>1, FilledInBounds
  <2>3. QED
    BY <2>2 DEF CalendarLimits
<1>3. "flightwall" \in DOMAIN config =>
        config.flightwall.timeout_seconds.word # "nan" /\ config.flightwall.timeout_seconds.n > 0
  <2>1. "flightwall" \in DOMAIN config => "flightwall" \in DOMAIN body
    BY DEF AppConfig
  <2>2. QED
    BY <2>1, FilledTimeout
<1>4. QED
  BY <1>1, <1>2, <1>3 DEF Usable

(* A dry run that was not asked for is not turned off. *)
LEMMA AppliesOnlyIfAsked == Applies => Asked
<1> SUFFICES ASSUME AppConfig(call.body).service.dry_run.word = "false"
             PROVE  /\ "service" \in DOMAIN call.body
                    /\ "dry_run" \in DOMAIN call.body["service"]
                    /\ call.body["service"]["dry_run"].word = "false"
  BY DEF Applies, Asked
<1>1. "service" \in DOMAIN call.body
  BY SMT DEF AppConfig, ServiceDefault, Bool, Value
<1>2. AppConfig(call.body).service = Filled("service", call.body["service"])
  BY <1>1 DEF AppConfig
<1>3. "dry_run" \in DOMAIN call.body["service"]
  BY SMT, <1>2 DEF Filled, Schema, FieldDefault, Bool, Value
<1>4. AppConfig(call.body).service.dry_run = Stored(call.body["service"]["dry_run"])
  BY <1>2, <1>3 DEF Filled, Schema
<1>5. QED
  BY <1>1, <1>3, <1>4 DEF Stored, Value

-----------------------------------------------------------------------------
(* Ways a step keeps the invariant. *)

(* What is said of the command line and the file does not change. *)
LEMMA CallStays ==
  ASSUME call' = call
  PROVE  Bare' = Bare /\ Sound' = Sound /\ Asked' = Asked
BY DEF Bare, Sound, Asked

LEMMA SpendType ==
  ASSUME left \in [Happenings -> Nat], NEW kind \in Happenings, Spend(kind)
  PROVE  left' \in [Happenings -> Nat]
BY DEF Spend

(* A process that is gone leaves a loop that has not begun. *)
LEMMA GoneLoop == ASSUME Gone PROVE LoopInv'
<1>1. Interval \in Nat /\ Interval > 0 /\ Poll \in Nat
  BY TimesAssumption
<1>2. stop' \in BOOLEAN /\ pc' \in {"check", "begin", "cycle", "poll", "nap", "stopped"}
  BY Zenon DEF Gone
<1>3. TypeOK'
  BY <1>1, <1>2 DEF Gone, TypeOK
<1>4. WaitInv'
  BY <1>1 DEF Gone, WaitInv, Due
<1>5. StopInv'
  BY <1>1 DEF Gone, StopInv
<1>6. QED
  BY <1>3, <1>4, <1>5 DEF LoopInv

(* A refused or ended launch, for a reason the program did not make itself. *)
LEMMA GoneKeeps ==
  ASSUME StartInv, Gone, UNCHANGED <<call, disk, mine>>, posted' \in BOOLEAN, posted' => posted,
         why' \in Reasons, why' \notin mine, left' \in [Happenings -> Nat]
  PROVE  StartInv'
<1>1. LoopInv'
  BY GoneLoop
<1>2. StartTypeOK'
  BY <1>1 DEF StartInv, StartTypeOK, Gone, Stages, Reasons, LoopInv
<1>3. MadeInv'
  BY CallStays DEF StartInv, MadeInv, Gone
<1>4. StageInv'
  BY DEF Gone, StageInv, PastPaths, Opening
<1>5. ConfigInv'
  <2>1. at' \notin PastRead
    BY DEF Gone, PastRead
  <2>2. posted' => Asked'
    BY CallStays DEF StartInv, ConfigInv
  <2>3. QED
    BY <2>1, <2>2 DEF ConfigInv
<1>6. QED
  BY <1>1, <1>2, <1>3, <1>4, <1>5 DEF StartInv

LEMMA RefuseKeeps ==
  ASSUME StartInv, NEW reason \in Reasons, reason \notin mine, Refuse(reason)
  PROVE  StartInv'
BY GoneKeeps DEF Refuse, StartInv, StartTypeOK

(* A step to a further stage that leaves the loop alone. *)
LEMMA GoesOn ==
  ASSUME StartInv, UNCHANGED <<vars, call, meddled, left, why>>,
         at # "off", at' \in Stages \ {"off"},
         txn' \in {"before", "open", "after", "failed"}, posted' \in BOOLEAN,
         posted' => posted \/ Asked,
         disk' \in [Paths -> Modes],
         mine' \subseteq {"dir", "lock"} \cup StateFiles,
         \A p \in mine' \cap {"dir", "lock", "db"} : disk'[p] = "private",
         mine' \cap {"wal", "shm"} # {} => disk'["dir"] = "private",
         mine' # {} => ~Bare,
         at' \in PastPaths => ~Bare,
         at' \in PastRead => Sound,
         ~meddled /\ at' \in {"open_db", "connect"} => disk'["dir"] \in {"private", "readonly"},
         ~meddled /\ at' \in {"secure", "loop", "cycle"} => disk'["dir"] = "private"
  PROVE  StartInv'
<1>1. LoopInv'
  BY DEF StartInv, LoopInv, TypeOK, WaitInv, StopInv, Due, vars, auxVars
<1>2. StartTypeOK'
  <2>1. mine' \in SUBSET Paths
    BY DEF Paths, StateFiles
  <2>2. QED
    BY <1>1, <2>1 DEF StartInv, StartTypeOK, LoopInv
<1>3. MadeInv'
  <2>1. why = "nothing" /\ "nothing" \notin {"dir", "lock"} \cup StateFiles
    BY DEF StartInv, MadeInv, StateFiles
  <2>2. why' \notin mine' /\ why' = "nothing"
    BY <2>1
  <2>3. QED
    BY <2>2, CallStays DEF MadeInv
<1>4. StageInv'
  BY CallStays DEF StageInv
<1>5. ConfigInv'
  BY CallStays DEF StartInv, ConfigInv
<1>6. QED
  BY <1>1, <1>2, <1>3, <1>4, <1>5 DEF StartInv

(* The same, when no file is touched. *)
LEMMA GoesOnQuietly ==
  ASSUME StartInv, UNCHANGED <<vars, call, fileVars, left, why>>,
         at # "off", at' \in Stages \ {"off"},
         txn' \in {"before", "open", "after", "failed"}, posted' \in BOOLEAN,
         posted' => posted \/ Asked,
         at' \in PastPaths => ~Bare,
         at' \in PastRead => Sound,
         ~meddled /\ at' \in {"open_db", "connect"} => disk["dir"] \in {"private", "readonly"},
         ~meddled /\ at' \in {"secure", "loop", "cycle"} => disk["dir"] = "private"
  PROVE  StartInv'
<1>1. UNCHANGED <<disk, mine, meddled>>
  BY DEF fileVars
<1>2. /\ disk' \in [Paths -> Modes]
      /\ mine' \subseteq {"dir", "lock"} \cup StateFiles
      /\ \A p \in mine' \cap {"dir", "lock", "db"} : disk'[p] = "private"
      /\ mine' \cap {"wal", "shm"} # {} => disk'["dir"] = "private"
      /\ mine' # {} => ~Bare
  BY <1>1 DEF StartInv, StartTypeOK, MadeInv
<1>3. QED
  BY <1>1, <1>2, GoesOn

(* The two outcomes of a check. *)
LEMMA CheckKeeps ==
  ASSUME StartInv, NEW from, NEW ok \in BOOLEAN, NEW reason \in Reasons,
         NEW to \in Stages \ {"off"}, Check(from, ok, reason, to),
         from # "off", ~ok => reason \notin mine,
         ok /\ to \in PastPaths => ~Bare,
         ok /\ to \in PastRead => Sound,
         ok /\ ~meddled /\ to \in {"open_db", "connect"} => disk["dir"] \in {"private", "readonly"},
         ok /\ ~meddled /\ to \in {"secure", "loop", "cycle"} => disk["dir"] = "private"
  PROVE  StartInv'
<1>1. CASE ok
  <2>1. at = from /\ at' = to /\ UNCHANGED <<vars, call, fileVars, txn, left, why, posted>>
    BY <1>1 DEF Check
  <2>2. txn' \in {"before", "open", "after", "failed"} /\ posted' \in BOOLEAN
    BY <2>1 DEF StartInv, StartTypeOK
  <2>3. QED
    BY <1>1, <2>1, <2>2, GoesOnQuietly
<1>2. CASE ~ok
  BY <1>2, RefuseKeeps DEF Check
<1>3. QED
  BY <1>1, <1>2

-----------------------------------------------------------------------------
(* What the invariant says where it is used. *)

(* What the program made is not what a check meets when it refuses. *)
LEMMA MadeFacts ==
  ASSUME StartInv
  PROVE  /\ \A p \in {"config", "google_key", "wall_creds", "above"} : p \notin mine
         /\ \A p \in mine \cap {"dir", "lock", "db"} : disk[p] = "private"
         /\ "busy" \notin mine /\ "store" \notin mine /\ "nothing" \notin mine
BY DEF StartInv, MadeInv, StateFiles

LEMMA LaunchStep == ASSUME StartInv, Launch PROVE StartInv'
<1>1. at = "off" /\ at' \in {"capture", "read"}
  BY DEF Launch, Move
<1>2. why' = "nothing" /\ posted' = FALSE /\ UNCHANGED <<vars, call, fileVars, txn>>
  BY DEF Launch
<1>3. LoopInv'
  BY <1>2 DEF StartInv, LoopInv, TypeOK, WaitInv, StopInv, Due, vars, auxVars
<1>4. StartTypeOK'
  <2>1. left' \in [Happenings -> Nat]
    BY SpendType DEF Launch, StartInv, StartTypeOK, Happenings
  <2>2. QED
    BY <1>1, <1>2, <1>3, <2>1 DEF StartInv, StartTypeOK, LoopInv, fileVars, Stages
<1>5. MadeInv'
  BY <1>2, CallStays DEF StartInv, MadeInv, fileVars, StateFiles
<1>6. StageInv'
  BY <1>1 DEF StageInv, PastPaths, Opening
<1>7. ConfigInv'
  BY <1>1, <1>2 DEF ConfigInv, PastRead
<1>8. QED
  BY <1>3, <1>4, <1>5, <1>6, <1>7 DEF StartInv

LEMMA ReadConfigStep == ASSUME StartInv, ReadConfig PROVE StartInv'
<1> DEFINE ok == disk.config \in {"private", "loose", "readonly"} /\ Accepted(call.body)
<1>1. Check("read", ok, "config", "paths") /\ ok \in BOOLEAN
  BY DEF ReadConfig
<1>2. "config" \in Reasons /\ "config" \notin mine
  BY MadeFacts DEF Reasons, Paths
<1>3. "paths" \in Stages \ {"off"} /\ "paths" \notin PastPaths
  BY DEF Stages, PastPaths, Opening
<1>4. ok => Sound
  BY DEF Sound
<1> HIDE DEF ok
<1>5. QED
  BY <1>1, <1>2, <1>3, <1>4, CheckKeeps

LEMMA CheckPathsStep == ASSUME StartInv, CheckPaths PROVE StartInv'
<1>1. at = "paths" /\ Sound
  BY DEF CheckPaths, StartInv, ConfigInv, PastRead, Stages
<1>2. {"dir", "google_key", "wall_creds"} \subseteq Reasons
  BY DEF Reasons, Paths
<1>3. CASE ~StateParentWritable /\ Refuse("dir")
  <2>1. "dir" \notin mine
    <3> SUFFICES ASSUME "dir" \in mine PROVE FALSE
      OBVIOUS
    <3>1. ~Bare /\ disk.dir = "private"
      BY DEF StartInv, MadeInv
    <3>2. QED
      BY <1>3, <3>1 DEF StateParentWritable, WritableDir, Bare
  <2>2. QED
    BY <1>2, <1>3, <2>1, RefuseKeeps
<1>4. CASE Refuse("google_key")
  BY <1>2, <1>4, MadeFacts, RefuseKeeps
<1>5. CASE StateParentWritable /\ Check("paths", HasWall => PrivateFile("wall_creds"), "wall_creds",
                                        IF call.command = "inspect" THEN "reader" ELSE "wall")
  <2> DEFINE ok == HasWall => PrivateFile("wall_creds")
             to == IF call.command = "inspect" THEN "reader" ELSE "wall"
  <2>1. Check("paths", ok, "wall_creds", to) /\ ok \in BOOLEAN
    BY <1>5
  <2>2. to \in {"reader", "wall"} /\ to \in Stages \ {"off"}
    BY DEF Stages
  <2>3. ~Bare
    BY <1>5 DEF StateParentWritable, Bare
  <2>4. "wall_creds" \in Reasons /\ "wall_creds" \notin mine
    BY <1>2, MadeFacts
  <2> HIDE DEF ok, to
  <2>5. QED
    BY <1>1, <2>1, <2>2, <2>3, <2>4, CheckKeeps
<1>6. QED
  BY <1>3, <1>4, <1>5 DEF CheckPaths

LEMMA BuildWallStep == ASSUME StartInv, BuildWall PROVE StartInv'
<1> DEFINE ok == HasWall /\ disk.wall_creds \in {"private", "readonly"}
           reason == IF HasWall THEN "wall_creds" ELSE "config"
           to == IF call.command = "probe" THEN "ask" ELSE "reader"
<1>1. Check("wall", ok, reason, to) /\ ok \in BOOLEAN
  BY DEF BuildWall
<1>2. reason \in Reasons /\ reason \notin mine
  BY MadeFacts DEF Reasons, Paths
<1>3. to \in {"ask", "reader"} /\ to \in Stages \ {"off"}
  BY DEF Stages
<1>4. ~Bare /\ Sound
  BY <1>1 DEF Check, StartInv, StageInv, ConfigInv, PastPaths, PastRead, Stages
<1> HIDE DEF ok, reason, to
<1>5. QED
  BY <1>1, <1>2, <1>3, <1>4, CheckKeeps

LEMMA BuildReaderStep == ASSUME StartInv, BuildReader PROVE StartInv'
<1> DEFINE ok == disk.google_key \in {"private", "readonly"}
           to == CASE call.command = "run" -> "signals"
                   [] call.command = "sync" -> "lock_dir"
                   [] OTHER -> "ask"
<1>1. Check("reader", ok, "google_key", to) /\ ok \in BOOLEAN
  BY DEF BuildReader
<1>2. "google_key" \in Reasons /\ "google_key" \notin mine
  BY MadeFacts DEF Reasons, Paths
<1>3. to \in {"signals", "lock_dir", "ask"}
  BY Zenon
<1>4. to \in Stages \ {"off"}
  BY <1>3 DEF Stages, Opening
<1>5. ~Bare /\ Sound
  BY <1>1 DEF Check, StartInv, StageInv, ConfigInv, PastPaths, PastRead, Stages
<1> HIDE DEF ok, to
<1>6. QED
  BY <1>1, <1>2, <1>3, <1>4, <1>5, CheckKeeps

LEMMA InstallSignalsStep == ASSUME StartInv, InstallSignals PROVE StartInv'
<1>1. Check("signals", TRUE, "nothing", "lock_dir")
  BY DEF InstallSignals
<1>2. "nothing" \in Reasons /\ "lock_dir" \in Stages \ {"off"}
  BY DEF Reasons, Stages, Opening
<1>3. ~Bare /\ Sound
  BY <1>1 DEF Check, StartInv, StageInv, ConfigInv, PastPaths, PastRead, Stages
<1>4. QED
  BY <1>1, <1>2, <1>3, CheckKeeps

-----------------------------------------------------------------------------
(* The lock and the store. *)

(* Making what is missing, private. *)
LEMMA MakeKeeps ==
  ASSUME StartInv, NEW from \in Opening, NEW p \in {"dir", "lock", "db"},
         NEW to \in Opening \ {"secure"}, MakeIfMissing(from, p, "private", to),
         ~meddled /\ to \in {"open_db", "connect"} => disk'["dir"] \in {"private", "readonly"}
  PROVE  StartInv'
<1>1. at = from /\ at' = to /\ UNCHANGED <<vars, call, txn, left, why, posted>>
  BY DEF MakeIfMissing, Move
<1>2. at # "off" /\ at' \in Stages \ {"off"} /\ at' \notin {"secure", "loop", "cycle"}
  BY <1>1 DEF Opening, Stages
<1>3. ~Bare /\ Sound
  BY <1>1 DEF StartInv, StageInv, ConfigInv, PastPaths, PastRead, Opening, Stages
<1>4. txn' \in {"before", "open", "after", "failed"} /\ posted' \in BOOLEAN /\ (posted' => posted)
  BY <1>1 DEF StartInv, StartTypeOK
<1>5. CASE disk[p] = "absent"
  <2>1. disk' = [disk EXCEPT ![p] = "private"] /\ mine' = mine \cup {p} /\ meddled' = meddled
    BY <1>5 DEF MakeIfMissing, Make
  <2>2. p \in Paths /\ "dir" \in Paths /\ {"dir", "lock", "db"} \subseteq Paths
    BY DEF Paths, StateFiles
  <2>3. disk' \in [Paths -> Modes]
    BY <2>1, <2>2 DEF StartInv, StartTypeOK, Modes
  <2>4. mine' \subseteq {"dir", "lock"} \cup StateFiles
    BY <2>1 DEF StartInv, MadeInv, StateFiles
  <2>5. \A q \in mine' \cap {"dir", "lock", "db"} : disk'[q] = "private"
    BY <2>1, <2>2 DEF StartInv, MadeInv, StartTypeOK
  <2>6. mine' \cap {"wal", "shm"} # {} => disk'["dir"] = "private"
    <3>1. mine' \cap {"wal", "shm"} = mine \cap {"wal", "shm"}
      BY <2>1
    <3>2. disk["dir"] = "private" => disk'["dir"] = "private"
      BY <2>1, <2>2 DEF StartInv, StartTypeOK
    <3>3. QED
      BY <3>1, <3>2 DEF StartInv, MadeInv
  <2>7. QED
    BY <1>1, <1>2, <1>3, <1>4, <2>1, <2>3, <2>4, <2>5, <2>6, GoesOn
<1>6. CASE disk[p] # "absent"
  <2>1. UNCHANGED fileVars
    BY <1>6 DEF MakeIfMissing
  <2>2. disk' = disk
    BY <2>1 DEF fileVars
  <2>3. QED
    BY <1>1, <1>2, <1>3, <1>4, <2>1, <2>2, GoesOnQuietly
<1>7. QED
  BY <1>5, <1>6

LEMMA MakeLockDirStep == ASSUME StartInv, MakeLockDir PROVE StartInv'
<1>1. CASE MakeIfMissing("lock_dir", "dir", "private", "lock_file")
  BY <1>1, MakeKeeps DEF Opening
<1>2. CASE /\ disk.dir \in {"special", "garbled"} \/ (disk.dir = "absent" /\ disk.above # "private")
           /\ Refuse("dir")
  <2>1. "dir" \notin mine /\ "dir" \in Reasons
    BY <1>2, MadeFacts DEF Reasons, Paths
  <2>2. QED
    BY <1>2, <2>1, RefuseKeeps
<1>3. QED
  BY <1>1, <1>2 DEF MakeLockDir

LEMMA TakeLockStep == ASSUME StartInv, TakeLock PROVE StartInv'
<1>1. CASE MakeIfMissing("lock_file", "lock", "private", "open_dir")
  BY <1>1, MakeKeeps DEF Opening
<1>2. CASE /\ disk.lock \in {"special", "readonly"} \/ (disk.lock = "absent" /\ ~WritableDir)
           /\ Refuse("lock")
  <2>1. "lock" \notin mine /\ "lock" \in Reasons
    BY <1>2, MadeFacts DEF Reasons, Paths
  <2>2. QED
    BY <1>2, <2>1, RefuseKeeps
<1>3. CASE Gone /\ why' = "busy" /\ Spend("fault") /\ UNCHANGED <<call, disk, mine, posted>>
  <2>1. left' \in [Happenings -> Nat] /\ posted' \in BOOLEAN /\ (posted' => posted)
    BY <1>3, SpendType DEF StartInv, StartTypeOK, Happenings
  <2>2. why' \in Reasons /\ why' \notin mine
    BY <1>3, MadeFacts DEF Reasons
  <2>3. QED
    BY <1>3, <2>1, <2>2, GoneKeeps
<1>4. QED
  BY <1>1, <1>2, <1>3 DEF TakeLock

LEMMA PrepareDirectoryStep == ASSUME StartInv, PrepareDirectory PROVE StartInv'
<1>1. CASE /\ disk.dir \in {"private", "readonly"} \/ (disk.dir = "absent" /\ disk.above = "private")
           /\ MakeIfMissing("open_dir", "dir", "private", "open_db")
  <2>1. disk'["dir"] \in {"private", "readonly"}
    <3>1. CASE disk.dir = "absent"
      BY <1>1, <3>1 DEF MakeIfMissing, Make, StartInv, StartTypeOK, Paths
    <3>2. CASE disk.dir # "absent"
      BY <1>1, <3>2 DEF MakeIfMissing, fileVars
    <3>3. QED
      BY <3>1, <3>2
  <2>2. QED
    BY <1>1, <2>1, MakeKeeps DEF Opening
<1>2. CASE /\ disk.dir \in {"loose", "special", "garbled"} \/ (disk.dir = "absent" /\ disk.above # "private")
           /\ Refuse("dir")
  <2>1. "dir" \notin mine /\ "dir" \in Reasons
    BY <1>2, MadeFacts DEF Reasons, Paths
  <2>2. QED
    BY <1>2, <2>1, RefuseKeeps
<1>3. QED
  BY <1>1, <1>2 DEF PrepareDirectory

LEMMA PrepareDatabaseFileStep == ASSUME StartInv, PrepareDatabaseFile PROVE StartInv'
<1>1. CASE MakeIfMissing("open_db", "db", "private", "connect")
  <2>1. disk'["dir"] = disk["dir"]
    <3>1. CASE disk.db = "absent"
      BY <1>1, <3>1 DEF MakeIfMissing, Make, StartInv, StartTypeOK, Paths
    <3>2. CASE disk.db # "absent"
      BY <1>1, <3>2 DEF MakeIfMissing, fileVars
    <3>3. QED
      BY <3>1, <3>2
  <2>2. ~meddled => disk["dir"] \in {"private", "readonly"}
    BY <1>1 DEF MakeIfMissing, Move, StartInv, StageInv
  <2>3. QED
    BY <1>1, <2>1, <2>2, MakeKeeps DEF Opening
<1>2. CASE /\ disk.db \in {"loose", "special"} \/ (disk.db = "absent" /\ ~WritableDir)
           /\ Refuse("db")
  <2>1. "db" \notin mine /\ "db" \in Reasons
    BY <1>2, MadeFacts DEF Reasons, Paths, StateFiles
  <2>2. QED
    BY <1>2, <2>1, RefuseKeeps
<1>3. QED
  BY <1>1, <1>2 DEF PrepareDatabaseFile

(* SQLite's files touch no other, and are the program's unless the owner had a
   hand in it. *)
LEMMA SiblingsFacts ==
  ASSUME StartInv, SiblingsAppear
  PROVE  /\ disk' \in [Paths -> Modes]
         /\ \A p \in Paths \ {"wal", "shm"} : disk'[p] = disk[p]
         /\ mine \subseteq mine' /\ mine' \subseteq mine \cup {"wal", "shm"}
         /\ meddled => mine' = mine
         /\ meddled' = meddled
<1> DEFINE missing == {f \in {"wal", "shm"} : disk[f] = "absent"}
<1>1. PICK mode \in [missing -> {"private", "loose"}] :
        disk' = [f \in Paths |-> IF f \in missing THEN mode[f] ELSE disk[f]]
  BY DEF SiblingsAppear
<1>2. \A f \in missing : mode[f] \in Modes
  BY <1>1 DEF Modes
<1>3. disk \in [Paths -> Modes]
  BY DEF StartInv, StartTypeOK
<1>4. missing \subseteq {"wal", "shm"}
  OBVIOUS
<1>5. mine' = (IF meddled THEN mine ELSE mine \cup missing) /\ meddled' = meddled
  BY DEF SiblingsAppear
<1> HIDE DEF missing
<1>6. disk' \in [Paths -> Modes]
  BY <1>1, <1>2, <1>3
<1>7. \A p \in Paths \ {"wal", "shm"} : disk'[p] = disk[p]
  BY <1>1, <1>4
<1>8. QED
  BY <1>4, <1>5, <1>6, <1>7

(* A step in which they appear, in a directory that is private or the owner's
   doing. *)
LEMMA SiblingsKeep ==
  ASSUME StartInv, SiblingsAppear, UNCHANGED <<vars, call, left, why, posted>>,
         at # "off", ~Bare, Sound, at' \in {"secure", "loop", "cycle"},
         txn' \in {"before", "open", "after", "failed"},
         ~meddled => disk["dir"] = "private"
  PROVE  StartInv'
<1>1. {"dir", "lock", "db"} \subseteq Paths \ {"wal", "shm"}
  BY DEF Paths, StateFiles
<1>2. disk'["dir"] = disk["dir"]
  BY <1>1, SiblingsFacts
<1>3. \A p \in mine' \cap {"dir", "lock", "db"} : disk'[p] = "private"
  BY <1>1, SiblingsFacts DEF StartInv, MadeInv
<1>4. mine' \cap {"wal", "shm"} # {} => disk'["dir"] = "private"
  BY <1>2, SiblingsFacts DEF StartInv, MadeInv
<1>5. mine' \subseteq {"dir", "lock"} \cup StateFiles
  BY SiblingsFacts DEF StartInv, MadeInv, StateFiles
<1>6. at' \in Stages \ {"off"} /\ posted' \in BOOLEAN /\ (posted' => posted)
  BY DEF Stages, Opening, StartInv, StartTypeOK
<1>7. QED
  BY <1>2, <1>3, <1>4, <1>5, <1>6, SiblingsFacts, GoesOn

LEMMA ConnectStep == ASSUME StartInv, Connect PROVE StartInv'
<1>1. CASE /\ WritableDir /\ Move("connect", "secure") /\ SiblingsAppear
           /\ UNCHANGED <<vars, call, txn, left, why, posted>>
  <2>1. at = "connect" /\ at' = "secure"
    BY <1>1 DEF Move
  <2>2. ~Bare /\ Sound
    BY <2>1 DEF StartInv, StageInv, ConfigInv, PastPaths, PastRead, Opening, Stages
  <2>3. ~meddled => disk["dir"] = "private"
    BY <1>1, <2>1 DEF WritableDir, StartInv, StageInv
  <2>4. txn' \in {"before", "open", "after", "failed"}
    BY <1>1 DEF StartInv, StartTypeOK
  <2>5. QED
    BY <1>1, <2>1, <2>2, <2>3, <2>4, SiblingsKeep
<1>2. CASE /\ disk.db # "private" \/ ~WritableDir
           /\ Refuse(IF disk.db # "private" THEN "db" ELSE "dir")
  <2> DEFINE reason == IF disk.db # "private" THEN "db" ELSE "dir"
  <2>1. reason \notin mine /\ reason \in Reasons
    BY <1>2, MadeFacts DEF WritableDir, Reasons, Paths, StateFiles
  <2>2. Refuse(reason)
    BY <1>2
  <2> HIDE DEF reason
  <2>3. QED
    BY <2>1, <2>2, RefuseKeeps
<1>3. QED
  BY <1>1, <1>2 DEF Connect

LEMMA OpenFailsStep == ASSUME StartInv, OpenFails PROVE StartInv'
<1>1. left' \in [Happenings -> Nat] /\ posted' \in BOOLEAN /\ (posted' => posted)
  BY SpendType DEF OpenFails, StartInv, StartTypeOK, Happenings
<1>2. why' \in Reasons /\ why' \notin mine
  BY MadeFacts DEF OpenFails, Reasons
<1>3. QED
  BY <1>1, <1>2, GoneKeeps DEF OpenFails

-----------------------------------------------------------------------------
(* Cycles, and what happens to the process. *)

LEMMA SecureFilesStep == ASSUME StartInv, SecureFiles PROVE StartInv'
<1>1. UNCHANGED <<vars, call, left, why, posted>> /\ UNCHANGED <<mine, meddled>>
  BY DEF SecureFiles, Secured
<1>2. /\ disk' \in [Paths -> Modes]
      /\ disk'["dir"] = disk["dir"] /\ disk'["lock"] = disk["lock"]
      /\ disk["db"] = "private" => disk'["db"] = "private"
  BY DEF SecureFiles, Secured, StartInv, StartTypeOK, Paths, StateFiles, Modes
<1>3. /\ mine' \subseteq {"dir", "lock"} \cup StateFiles
      /\ \A p \in mine' \cap {"dir", "lock", "db"} : disk'[p] = "private"
      /\ mine' \cap {"wal", "shm"} # {} => disk'["dir"] = "private"
  BY <1>1, <1>2 DEF StartInv, MadeInv
<1>4. posted' \in BOOLEAN /\ (posted' => posted)
  BY <1>1 DEF StartInv, StartTypeOK
<1>5. /\ at \in {"secure", "loop", "cycle"} /\ at' \in {"loop", "cycle"}
      /\ txn' \in {"before", "open", "after", "failed"}
  <2>1. CASE Move("secure", IF call.command = "run" THEN "loop" ELSE "cycle") /\ UNCHANGED txn
    BY <2>1 DEF Move, StartInv, StartTypeOK
  <2>2. CASE Cycling /\ txn = "open" /\ txn' = "after" /\ UNCHANGED at
    BY <2>2 DEF Cycling
  <2>3. QED
    BY <2>1, <2>2 DEF SecureFiles
<1>6. ~Bare /\ Sound
  BY <1>5 DEF StartInv, StageInv, ConfigInv, PastPaths, PastRead, Opening, Stages
<1>7. at # "off" /\ at' \in Stages \ {"off"}
  BY <1>5 DEF Stages
<1>8. ~meddled => disk'["dir"] = "private"
  BY <1>2, <1>5 DEF StartInv, StageInv
<1>9. at' \notin {"open_db", "connect"}
  BY <1>5
<1>10. QED
  BY <1>1, <1>2, <1>3, <1>4, <1>5, <1>6, <1>7, <1>8, <1>9, GoesOn

(* What holds while a cycle is under way. *)
LEMMA CyclingFacts ==
  ASSUME StartInv, at \in {"loop", "cycle"}
  PROVE  /\ ~Bare /\ Sound /\ at # "off" /\ at \in Stages \ {"off"}
         /\ ~meddled => disk["dir"] = "private"
BY DEF StartInv, StageInv, ConfigInv, PastPaths, PastRead, Opening, Stages

LEMMA UseStoreStep == ASSUME StartInv, UseStore PROVE StartInv'
<1>1. at \in {"loop", "cycle"} /\ at' = at /\ UNCHANGED <<vars, call, left, why, posted>>
  BY DEF UseStore, Cycling
<1>2. txn' \in {"before", "open", "after", "failed"}
  BY DEF UseStore
<1>3. posted' \in BOOLEAN /\ (posted' => posted)
  BY <1>1 DEF StartInv, StartTypeOK
<1>4. CASE SiblingsAppear
  BY <1>1, <1>2, <1>4, CyclingFacts, SiblingsKeep
<1>5. CASE UNCHANGED fileVars
  BY <1>1, <1>2, <1>3, <1>5, CyclingFacts, GoesOnQuietly
<1>6. QED
  BY <1>4, <1>5 DEF UseStore

LEMMA WriteWallStep == ASSUME StartInv, WriteWall PROVE StartInv'
<1>1. at \in {"loop", "cycle"} /\ at' = at /\ UNCHANGED <<vars, call, fileVars, left, why>>
  BY DEF WriteWall, Cycling
<1>2. txn' \in {"before", "open", "after", "failed"}
  BY DEF WriteWall, StartInv, StartTypeOK
<1>3. posted' \in BOOLEAN /\ Asked
  BY AppliesOnlyIfAsked DEF WriteWall
<1>4. QED
  BY <1>1, <1>2, <1>3, CyclingFacts, GoesOnQuietly

LEMMA StoreFailsStep == ASSUME StartInv, StoreFails PROVE StartInv'
<1>1. left' \in [Happenings -> Nat]
  BY SpendType DEF StoreFails, StartInv, StartTypeOK, Happenings
<1>2. posted' \in BOOLEAN /\ (posted' => posted)
  BY DEF StoreFails, StartInv, StartTypeOK
<1>3. CASE Gone /\ UNCHANGED <<disk, mine>>
  <2>1. why' \in Reasons /\ why' \notin mine /\ call' = call
    BY DEF StoreFails, StartInv, StartTypeOK, MadeInv, Reasons
  <2>2. QED
    BY <1>1, <1>2, <1>3, <2>1, GoneKeeps
<1>4. CASE txn' = "failed" /\ UNCHANGED <<vars, fileVars, at>>
  <2>1. at \in {"loop", "cycle"} /\ UNCHANGED <<call, why>>
    BY DEF StoreFails, Cycling
  <2>2. LoopInv'
    BY <1>4 DEF StartInv, LoopInv, TypeOK, WaitInv, StopInv, Due, vars, auxVars
  <2>3. StartTypeOK'
    BY <1>1, <1>2, <1>4, <2>1, <2>2 DEF StartInv, StartTypeOK, LoopInv, fileVars
  <2>4. MadeInv' /\ StageInv'
    BY <1>4, <2>1, CallStays DEF StartInv, MadeInv, StageInv, fileVars
  <2>5. ConfigInv'
    BY <1>2, <1>4, <2>1, CallStays DEF StartInv, ConfigInv
  <2>6. QED
    BY <2>2, <2>3, <2>4, <2>5 DEF StartInv
<1>5. QED
  BY <1>3, <1>4 DEF StoreFails

(* A step of the loop or a signal. *)
LEMMA LoopsOn ==
  ASSUME StartInv, [Next]_vars, UNCHANGED <<call, fileVars, at, left, why, posted>>,
         txn' \in {"before", "open", "after", "failed"}
  PROVE  StartInv'
<1>1. LoopInv'
  BY LoopInvStep DEF StartInv
<1>2. StartTypeOK'
  BY <1>1 DEF StartInv, StartTypeOK, LoopInv, fileVars
<1>3. MadeInv' /\ StageInv'
  BY CallStays DEF StartInv, MadeInv, StageInv, fileVars
<1>4. ConfigInv'
  BY CallStays DEF StartInv, ConfigInv
<1>5. QED
  BY <1>1, <1>2, <1>3, <1>4 DEF StartInv

LEMMA RunTheLoopStep == ASSUME StartInv, RunTheLoop PROVE StartInv'
<1>1. [Next]_vars
  BY DEF RunTheLoop, Next
<1>2. txn' \in {"before", "open", "after", "failed"}
  BY DEF RunTheLoop, StartInv, StartTypeOK
<1>3. QED
  BY <1>1, <1>2, LoopsOn DEF RunTheLoop

LEMMA StopSignalStep == ASSUME StartInv, StopSignal PROVE StartInv'
<1>1. [Next]_vars /\ UNCHANGED <<call, fileVars, at, left, why, posted, txn>>
  BY DEF StopSignal, Next, startVars
<1>2. txn' \in {"before", "open", "after", "failed"}
  BY <1>1 DEF StartInv, StartTypeOK
<1>3. QED
  BY <1>1, <1>2, LoopsOn

LEMMA FinishStep == ASSUME StartInv, Finish PROVE StartInv'
<1>1. /\ left' \in [Happenings -> Nat] /\ posted' \in BOOLEAN /\ (posted' => posted)
      /\ why' \in Reasons /\ why' \notin mine
  BY DEF Finish, StartInv, StartTypeOK, MadeInv, Reasons
<1>2. QED
  BY <1>1, GoneKeeps DEF Finish

LEMMA KillStep == ASSUME StartInv, Kill PROVE StartInv'
<1>1. left' \in [Happenings -> Nat]
  BY SpendType DEF Kill, StartInv, StartTypeOK, Happenings
<1>2. posted' \in BOOLEAN /\ (posted' => posted) /\ why' \in Reasons /\ why' \notin mine
  BY DEF Kill, StartInv, StartTypeOK, MadeInv, Reasons
<1>3. QED
  BY <1>1, <1>2, GoneKeeps DEF Kill

LEMMA OtherCommandStep == ASSUME StartInv, OtherCommand PROVE StartInv'
<1>1. at \in {"ask", "capture", "write"}
  BY DEF OtherCommand
<1>2. CASE at' = "write" /\ UNCHANGED <<vars, call, fileVars, txn, left, why, posted>>
  <2>1. /\ at # "off" /\ at' \in Stages \ {"off"} /\ at' \notin PastPaths /\ at' \notin PastRead
        /\ txn' \in {"before", "open", "after", "failed"} /\ posted' \in BOOLEAN /\ (posted' => posted)
    BY <1>1, <1>2 DEF Stages, PastPaths, PastRead, Opening, StartInv, StartTypeOK
  <2>2. at' \notin {"open_db", "connect", "secure", "loop", "cycle"}
    BY <1>2
  <2>3. QED
    BY <1>2, <2>1, <2>2, GoesOnQuietly
<1>3. CASE /\ Gone
           /\ why' \in {"nothing", "input", "output"}
           /\ Spend("fault") \/ UNCHANGED left
           /\ UNCHANGED <<call, disk, mine, posted>>
  <2>1. left' \in [Happenings -> Nat] /\ posted' \in BOOLEAN /\ (posted' => posted)
    BY <1>3, SpendType DEF StartInv, StartTypeOK, Happenings
  <2>2. why' \in Reasons /\ why' \notin mine
    BY <1>3 DEF Reasons, StartInv, MadeInv, StateFiles
  <2>3. QED
    BY <1>3, <2>1, <2>2, GoneKeeps
<1>4. QED
  BY <1>2, <1>3 DEF OtherCommand

LEMMA EditKeeps ==
  ASSUME StartInv, NEW p \in Paths, NEW mode \in {"private", "loose", "absent"}, Edit(p, mode)
  PROVE  StartInv'
<1>1. UNCHANGED <<vars, call, at, txn, why, posted>>
  BY DEF Edit
<1>2. LoopInv'
  BY <1>1 DEF StartInv, LoopInv, TypeOK, WaitInv, StopInv, Due, vars, auxVars
<1>3. mine' = (IF p = "dir" THEN {} ELSE mine \ {p}) /\ "dir" \in Paths
  BY DEF Edit, Paths
<1>4. StartTypeOK'
  <2>1. left' \in [Happenings -> Nat]
    BY SpendType DEF Edit, StartInv, StartTypeOK, Happenings
  <2>2. disk' \in [Paths -> Modes]
    BY DEF Edit, StartInv, StartTypeOK, Modes
  <2>3. meddled' \in BOOLEAN
    BY DEF Edit
  <2>4. QED
    BY <1>1, <1>2, <1>3, <2>1, <2>2, <2>3 DEF StartInv, StartTypeOK, LoopInv
<1>5. p # "dir" => disk'["dir"] = disk["dir"] /\ \A q \in Paths \ {p} : disk'[q] = disk[q]
  BY <1>3 DEF Edit
<1>6. MadeInv'
  <2>1. \A q \in mine' \cap {"dir", "lock", "db"} : disk'[q] = "private"
    BY <1>3, <1>5 DEF StartInv, StartTypeOK, MadeInv
  <2>2. mine' \cap {"wal", "shm"} # {} => disk'["dir"] = "private"
    BY <1>3, <1>5 DEF StartInv, MadeInv
  <2>3. mine' \subseteq mine
    BY <1>3
  <2>4. mine' \subseteq {"dir", "lock"} \cup StateFiles /\ why' \notin mine'
    BY <1>1, <2>3 DEF StartInv, MadeInv
  <2>5. (mine' # {} => ~Bare') /\ (at' # "off" => why' = "nothing")
    <3>1. mine' # {} => mine # {}
      BY <2>3
    <3>2. at' # "off" => why' = "nothing"
      BY <1>1 DEF StartInv, MadeInv
    <3>3. Bare' = Bare
      BY <1>1, CallStays
    <3>4. mine # {} => ~Bare
      BY DEF StartInv, MadeInv
    <3>5. QED
      BY <3>1, <3>2, <3>3, <3>4
  <2>6. QED
    BY <2>1, <2>2, <2>4, <2>5 DEF MadeInv
<1>7. StageInv'
  <2>1. meddled' = (meddled \/ (p = "dir" /\ at # "off"))
    BY DEF Edit
  <2>2. ~meddled' => ~meddled /\ (p # "dir" \/ at = "off")
    BY <2>1
  <2>3. QED
    BY <1>1, <1>5, <2>2, CallStays DEF StartInv, StageInv
<1>8. ConfigInv'
  BY <1>1, CallStays DEF StartInv, ConfigInv
<1>9. QED
  BY <1>2, <1>4, <1>6, <1>7, <1>8 DEF StartInv

LEMMA OwnerEditsStep == ASSUME StartInv, OwnerEdits PROVE StartInv'
<1>1. {"dir", "db", "google_key", "wall_creds"} \subseteq Paths
  BY DEF Paths, StateFiles
<1>2. PICK p \in {"dir", "db", "google_key", "wall_creds"}, mode \in {"private", "loose", "absent"} :
        Edit(p, mode)
  BY DEF OwnerEdits
<1>3. QED
  BY <1>1, <1>2, EditKeeps

-----------------------------------------------------------------------------
(* Every initial state satisfies the invariant. *)
LEMMA StartInitInv == StartInit => StartInv
<1> SUFFICES ASSUME StartInit PROVE StartInv
  OBVIOUS
<1>1. LoopInv
  BY InitLoopInv DEF StartInit
<1>2. StartTypeOK
  <2>1. PICK s \in Situations :
          /\ call = [command |-> s.command, apply_flag |-> s.apply_flag, body |-> s.body]
          /\ disk = s.disk
          /\ left = s.limit
    BY DEF StartInit
  <2>2. disk \in [Paths -> Modes] /\ left \in [Happenings -> Nat]
    BY <2>1, SituationsAssumption
  <2>3. at \in Stages /\ txn \in {"before", "open", "after", "failed"} /\ mine \in SUBSET Paths
        /\ meddled \in BOOLEAN /\ posted \in BOOLEAN
    BY DEF StartInit, Stages
  <2>4. why \in Paths \cup {"nothing", "busy", "store", "input", "output"}
    BY DEF StartInit
  <2>5. QED
    BY <1>1, <2>1, <2>2, <2>3, <2>4 DEF StartTypeOK, LoopInv
<1>3. MadeInv
  BY DEF StartInit, MadeInv
<1>4. StageInv
  BY DEF StartInit, StageInv, PastPaths, Opening
<1>5. ConfigInv
  BY DEF StartInit, ConfigInv, PastRead
<1>6. QED
  BY <1>1, <1>2, <1>3, <1>4, <1>5 DEF StartInv

(* Every step keeps it. *)
LEMMA StartInvStep == ASSUME StartInv, [StartNext]_allVars PROVE StartInv'
<1>1. CASE Starting
  BY <1>1, ReadConfigStep, CheckPathsStep, BuildWallStep, BuildReaderStep, InstallSignalsStep,
     MakeLockDirStep, TakeLockStep, PrepareDirectoryStep, PrepareDatabaseFileStep, ConnectStep
     DEF Starting
<1>2. CASE Running
  BY <1>2, SecureFilesStep, RunTheLoopStep, FinishStep DEF Running
<1>3. CASE Launch \/ UseStore \/ WriteWall \/ OpenFails \/ StoreFails
  BY <1>3, LaunchStep, UseStoreStep, WriteWallStep, OpenFailsStep, StoreFailsStep
<1>4. CASE StopSignal \/ OtherCommand \/ Kill \/ OwnerEdits
  BY <1>4, StopSignalStep, OtherCommandStep, KillStep, OwnerEditsStep
<1>5. CASE UNCHANGED allVars
  <2>1. [Next]_vars /\ UNCHANGED <<call, fileVars, at, left, why, posted, txn>>
    BY <1>5 DEF allVars, startVars
  <2>2. txn' \in {"before", "open", "after", "failed"}
    BY <2>1 DEF StartInv, StartTypeOK
  <2>3. QED
    BY <2>1, <2>2, LoopsOn
<1>6. QED
  BY <1>1, <1>2, <1>3, <1>4, <1>5 DEF StartNext

THEOREM StartInvAlways == StartSpec => []StartInv
BY StartInitInv, StartInvStep, PTL DEF StartSpec

(* Types, for every set of situations. *)
THEOREM StartTypeCorrect == StartSpec => []StartTypeOK
<1>1. StartInv => StartTypeOK
  BY DEF StartInv
<1>2. QED
  BY <1>1, StartInvAlways, PTL

(* However often a launch is cut short, and wherever, the next one is not
   refused for what it left behind. *)
THEOREM NeverLocksItselfOutAlways == StartSpec => []NeverLocksItselfOut
<1>1. StartInv => NeverLocksItselfOut
  BY DEF StartInv, MadeInv, NeverLocksItselfOut
<1>2. QED
  BY <1>1, StartInvAlways, PTL

(* No state file of the program's is open to others in an open directory. *)
THEOREM StateNeverExposedAlways == StartSpec => []StateNeverExposed
<1>1. StartInv => StateNeverExposed
  <2> SUFFICES ASSUME StartInv, NEW p \in mine, disk[p] = "loose" PROVE disk.dir = "private"
    BY DEF StateNeverExposed
  <2>1. p \in {"wal", "shm"}
    BY DEF StartInv, MadeInv, StateFiles
  <2>2. QED
    BY <2>1 DEF StartInv, MadeInv
<1>2. QED
  BY <1>1, StartInvAlways, PTL

(* A write was asked for, in the file or on the command line. *)
THEOREM WritesOnlyIfAskedAlways == StartSpec => []WritesOnlyIfAsked
<1>1. StartInv => WritesOnlyIfAsked
  BY DEF StartInv, ConfigInv, WritesOnlyIfAsked, Asked
<1>2. QED
  BY <1>1, StartInvAlways, PTL

(* What load_config lets through can be used: no panic, no empty window. *)
THEOREM AcceptedIsUsableAlways == StartSpec => []AcceptedIsUsable
<1>1. StartInv => AcceptedIsUsable
  <2> SUFFICES ASSUME StartInv, at \in PastRead PROVE Usable(AppConfig(call.body))
    BY DEF AcceptedIsUsable, PastRead, StartInv, StartTypeOK
  <2>1. Accepted(call.body)
    BY DEF StartInv, ConfigInv, Sound
  <2>2. QED
    BY <2>1, AcceptedUsable
<1>2. QED
  BY <1>1, StartInvAlways, PTL

(* A stop is honoured also in a process that was started, killed and started
   again, whatever it was killed in. *)
THEOREM RestartsHonourStop == StartSpec => []StopHonoured
<1>1. StartInv => StopHonoured
  BY DEF StartInv, LoopInv, StopInv, StopHonoured
<1>2. QED
  BY <1>1, StartInvAlways, PTL

(* And its cycles stay an interval apart. *)
THEOREM RestartsKeepCyclesSpaced == StartSpec => CyclesSpaced
<1>1. StartInv => [BeginCycle => elapsed = (IF took > Interval THEN took ELSE Interval)]_vars
  BY DEF StartInv, LoopInv, WaitInv, Due, BeginCycle, Goto
<1>2. QED
  BY <1>1, StartInvAlways, PTL DEF StartSpec, CyclesSpaced

-----------------------------------------------------------------------------
(* The other commands.  To the configuration, the lock and the state directory
   each of their steps is one of Startup's or none. *)
LEMMA CommandsStepStarts == ASSUME [CommandsNext]_everyVar PROVE [StartNext]_allVars
<1>1. ASSUME NEW reason \in {"nothing", "input"}, at \in {"ask", "capture", "write"}, Leave(reason)
      PROVE  OtherCommand
  BY <1>1 DEF Leave, Refuse, OtherCommand
<1>2. ASSUME NEW from \in {"ask", "capture"}, NEW files, BeginWriting(from, files)
      PROVE  OtherCommand
  BY <1>2 DEF BeginWriting, Move, OtherCommand
<1>3. CASE \/ Quietly(Launch) \/ Quietly(Starting) \/ Quietly(UseStore) \/ Quietly(WriteWall)
           \/ Quietly(Running) \/ Quietly(OpenFails) \/ Quietly(StoreFails)
           \/ Quietly(StopSignal) \/ Quietly(OwnerEdits)
  BY <1>3 DEF Quietly, StartNext
<1>4. CASE ProbeWall
  BY <1>1, <1>4 DEF ProbeWall, StartNext
<1>5. CASE InspectCalendar
  BY <1>1, <1>2, <1>5 DEF InspectCalendar, StartNext
<1>6. CASE SanitizeCapture
  BY <1>1, <1>2, <1>6 DEF SanitizeCapture, StartNext
<1>7. CASE WriteFile
  BY <1>7 DEF WriteFile, MakeTemp, FillTemp, SyncTemp, Persist, Writing
<1>8. CASE Done
  BY <1>1, <1>8 DEF Done, StartNext
<1>9. CASE WriteFails
  BY <1>9 DEF WriteFails, OtherCommand, StartNext
<1>10. CASE KillCommand
  BY <1>10 DEF KillCommand, StartNext
<1>11. CASE UNCHANGED everyVar
  BY <1>11 DEF everyVar
<1> QED
  BY <1>3, <1>4, <1>5, <1>6, <1>7, <1>8, <1>9, <1>10, <1>11 DEF CommandsNext, Working

(* What is proved of Startup holds of every command of the program. *)
LEMMA CommandsStart == CommandsSpec => StartSpec
<1>1. CommandsInit => StartInit
  BY DEF CommandsInit
<1> QED
  BY <1>1, CommandsStepStarts, PTL DEF CommandsSpec, StartSpec

(* Whichever command is launched, and however often, on whatever it finds: a
   start is never refused for what another left, state stays private, a wall is
   written only if that was asked for, what passes load_config is usable, and
   the loop keeps its times and stops (the commands of src/cli.rs). *)
THEOREM EveryCommandSound ==
    CommandsSpec => /\ []NeverLocksItselfOut
                    /\ []StateNeverExposed
                    /\ []WritesOnlyIfAsked
                    /\ []AcceptedIsUsable
                    /\ []StopHonoured
                    /\ CyclesSpaced
BY CommandsStart, NeverLocksItselfOutAlways, StateNeverExposedAlways, WritesOnlyIfAskedAlways,
   AcceptedIsUsableAlways, RestartsHonourStop, RestartsKeepCyclesSpaced, PTL

-----------------------------------------------------------------------------
(* What the scrubbing leaves. *)

(* What can be read at one place of a scrubbed value is no secret the rules can
   know of. *)
LEMMA ScrubbedAt ==
  ASSUME NEW rules, NEW v, NEW p \in DOMAIN ScrubValue(rules, v), KnownAt(rules, v, p)
  PROVE  ScrubValue(rules, v)[p].text \cap Secrets = {}
<1> DEFINE scrubbed == ScrubValue(rules, v)
<1>1. /\ p \in DOMAIN v
      /\ \A i \in DOMAIN p : p[i] \notin DroppedKeys(rules)
      /\ scrubbed[p] = IF \E i \in DOMAIN p : p[i] \in RedactedKeys(rules)
                       THEN String({}) ELSE ScrubNode(rules, v[p])
  BY DEF ScrubValue
<1> HIDE DEF scrubbed
<1>2. CASE \E i \in DOMAIN p : p[i] \in RedactedKeys(rules)
  <2>1. scrubbed[p].text = {}
    BY <1>1, <1>2 DEF String, Node
  <2> QED
    BY <2>1 DEF scrubbed
<1>3. CASE \A i \in DOMAIN p : p[i] \notin RedactedKeys(rules)
  <2>1. scrubbed[p] = ScrubNode(rules, v[p])
    BY <1>1, <1>3
  <2>2. \/ v[p].kind = "string" /\ v[p].text \cap Secrets \subseteq Recognised(rules)
        \/ v[p].kind = "float" /\ v[p].text \cap Secrets \subseteq {"coordinate"}
        \/ v[p].text \cap Secrets = {}
    BY <1>1, <1>3 DEF KnownAt, DroppedKeys, RedactedKeys
  <2>3. CASE v[p].kind = "string"
    <3>1. scrubbed[p].text = (v[p].text \ {Patterns[i] : i \in DOMAIN Patterns}) \ rules.terms
      BY <2>1, <2>3 DEF ScrubNode, ScrubText, String, Node
    <3> QED
      BY <2>2, <2>3, <3>1 DEF scrubbed, Recognised
  <2>4. CASE v[p].kind = "float"
    <3>1. scrubbed[p].text = v[p].text \ {"coordinate"}
      BY <2>1, <2>4 DEF ScrubNode, Float, Node
    <3> QED
      BY <2>2, <2>4, <3>1 DEF scrubbed
  <2>5. CASE v[p].kind # "string" /\ v[p].kind # "float"
    <3>1. scrubbed[p] = v[p]
      BY <2>1, <2>5 DEF ScrubNode
    <3> QED
      BY <2>2, <2>5, <3>1 DEF scrubbed
  <2> QED
    BY <2>3, <2>4, <2>5
<1> QED
  BY <1>2, <1>3

(* Nor in the whole of it. *)
LEMMA ScrubbedHides ==
  ASSUME NEW rules, NEW v, \A p \in DOMAIN v : KnownAt(rules, v, p)
  PROVE  Shown(ScrubValue(rules, v)) \cap Secrets = {}
<1> DEFINE scrubbed == ScrubValue(rules, v)
<1>1. DOMAIN scrubbed \subseteq DOMAIN v
  BY DEF ScrubValue
<1>2. ASSUME NEW p \in DOMAIN scrubbed PROVE scrubbed[p].text \cap Secrets = {}
  BY <1>1, ScrubbedAt
<1> HIDE DEF scrubbed
<1>3. Shown(scrubbed) \cap Secrets = {}
  BY <1>2 DEF Shown
<1> QED
  BY <1>3 DEF scrubbed

(* A calendar event's fixture hides what the event does not show the rules. *)
LEMMA EventHides ==
  ASSUME NEW event, NEW terms, KnownEvent(event, terms)
  PROVE  Shown(SanitizeEvent(event, terms)) \cap Secrets = {}
<1> DEFINE rules == Rules(terms, DroppedFixtureKeys, {})
           scrubbed == ScrubValue(rules, event)
           fixture == SanitizeEvent(event, terms)
           own(p) == p = <<Key("id")>> /\ event[p].kind = "string"
<1>1. fixture = [p \in DOMAIN scrubbed |-> IF own(p) THEN String({}) ELSE scrubbed[p]]
  BY DEF SanitizeEvent
<1>2. DOMAIN scrubbed \subseteq DOMAIN event
  BY DEF ScrubValue
<1>3. ASSUME NEW p \in DOMAIN scrubbed PROVE fixture[p].text \cap Secrets = {}
  <2>1. CASE own(p)
    <3>1. fixture[p].text = {}
      BY <1>1, <2>1 DEF String, Node
    <3> QED
      BY <3>1
  <2>2. CASE ~own(p)
    <3>1. KnownAt(rules, event, p)
      BY <1>2, <2>2 DEF KnownEvent
    <3>2. scrubbed[p].text \cap Secrets = {}
      BY <3>1, ScrubbedAt
    <3>3. fixture[p] = scrubbed[p]
      BY <1>1, <2>2
    <3> QED
      BY <3>2, <3>3
  <2> QED
    BY <2>1, <2>2
<1>4. DOMAIN fixture = DOMAIN scrubbed
  BY <1>1
<1> HIDE DEF fixture, scrubbed
<1>5. Shown(fixture) \cap Secrets = {}
  BY <1>3, <1>4 DEF Shown
<1> QED
  BY <1>5 DEF fixture

(* Of a body that is kept nothing shows but what was scrubbed. *)
LEMMA BodyHides ==
  ASSUME NEW body, NEW rules,
         (body.size = "fits" /\ body.json) => \A p \in DOMAIN body.value : KnownAt(rules, body.value, p)
  PROVE  Shown(Body(body, rules)) \cap Secrets = {}
<1>1. Shown(Leaf(Other)) = {} /\ Shown(Leaf(String({}))) = {}
  BY DEF Shown, Leaf, Other, String, Node
<1>2. CASE body.size = "fits" /\ body.json
  <2>1. Body(body, rules) = ScrubValue(rules, body.value)
    BY <1>2 DEF Body
  <2> QED
    BY <1>2, <2>1, ScrubbedHides
<1>3. CASE ~(body.size = "fits" /\ body.json)
  <2>1. Body(body, rules) \in {Leaf(Other), Leaf(String({}))}
    BY <1>3, Zenon DEF Body
  <2> QED
    BY <1>1, <2>1
<1> QED
  BY <1>2, <1>3

(* The file made of an entry, and its line in the manifest, show no secret. *)
LEMMA EntryHides ==
  ASSUME NEW index, NEW raw, NEW rules, KnownMessage(raw, rules)
  PROVE  LET entry == Entry(index, raw, rules)
         IN  /\ EntryFile(entry).text \cap Secrets = {}
             /\ entry.path \cap Secrets = {}
<1> DEFINE entry == Entry(index, raw, rules)
<1>1. entry.path \cap Secrets = {}
  BY DEF KnownMessage, Recognised, Entry, ScrubText
<1>2. entry.names \cap Secrets = {}
  BY DEF KnownMessage, Entry
<1>3. entry.bodies \cap Secrets = {}
  <2>1. ASSUME NEW body \in {raw.sent.body, raw.got.body}
        PROVE  Shown(Body(body, rules)) \cap Secrets = {}
    <3>1. (body.size = "fits" /\ body.json) =>
              \A p \in DOMAIN body.value : KnownAt(rules, body.value, p)
      BY Zenon DEF KnownMessage
    <3> QED
      BY <3>1, BodyHides
  <2>2. /\ Shown(Body(raw.sent.body, rules)) \cap Secrets = {}
        /\ Shown(Body(raw.got.body, rules)) \cap Secrets = {}
    BY <2>1
  <2> QED
    BY <2>2 DEF Entry
<1> QED
  BY <1>1, <1>2, <1>3 DEF EntryFile

-----------------------------------------------------------------------------
(* The entries that are kept of a capture. *)

(* A set of numbers that holds 0 and, with each number, the next, is all. *)
LEMMA CountingUp ==
  ASSUME NEW E, 0 \in E, \A n \in Nat : n \in E => n + 1 \in E
  PROVE  Nat \subseteq E
<1> DEFINE rest == Nat \ E
<1>1. SUFFICES ASSUME rest # {} PROVE FALSE
  OBVIOUS
<1>2. PICK least \in rest : \A m \in rest : ~ (<<m, least>> \in OpToRel(<, Nat))
  BY <1>1, WFMin, NatLessThanWellFounded
<1>3. least - 1 \in Nat /\ least - 1 \notin rest
  <2>1. least # 0 /\ least \in Nat
    OBVIOUS
  <2>2. least - 1 \in Nat /\ least - 1 < least
    BY <2>1
  <2>3. <<least - 1, least>> \in OpToRel(<, Nat)
    BY <2>1, <2>2 DEF OpToRel
  <2> QED
    BY <1>2, <2>2, <2>3
<1>4. least = (least - 1) + 1
  OBVIOUS
<1> QED
  BY <1>3, <1>4

KeptOf(document, terms, hosts) ==
    {Entry(i, document.entries[i], Rules(terms, {}, SensitiveBodyKeys)) :
        i \in {j \in 1..Len(document.entries) : Chosen(document.entries[j], hosts)}}

(* h is what the loop went through with the first m entries. *)
EntriesFollow(h, document, rules, hosts, m) ==
    h = [i \in 0..m |-> IF i = 0 THEN <<>>
                        ELSE KeepEntry(h[i - 1], i, document.entries[i], rules, hosts)]

LEMMA EntriesAreGoneThrough ==
  ASSUME NEW document, NEW rules, NEW hosts, NEW n \in Nat
  PROVE  \E h : EntriesFollow(h, document, rules, hosts, n)
<1> DEFINE Step(kept, i) == KeepEntry(kept, i, document.entries[i], rules, hosts)
           E == {m \in Nat : \E h : EntriesFollow(h, document, rules, hosts, m)}
<1>1. 0 \in E
  <2> DEFINE h == [i \in 0..0 |-> <<>>]
  <2>1. \A i \in 0..0 : i = 0
    OBVIOUS
  <2>2. EntriesFollow(h, document, rules, hosts, 0)
    BY <2>1 DEF EntriesFollow
  <2> QED
    BY <2>2
<1>2. ASSUME NEW m \in Nat, m \in E PROVE m + 1 \in E
  <2>1. PICK h : EntriesFollow(h, document, rules, hosts, m)
    BY <1>2
  <2>2. h = [i \in 0..m |-> IF i = 0 THEN <<>> ELSE Step(h[i - 1], i)]
    BY <2>1 DEF EntriesFollow
  <2> DEFINE g == [i \in 0..(m + 1) |-> IF i = m + 1 THEN Step(h[m], m + 1) ELSE h[i]]
             next == [i \in 0..(m + 1) |-> IF i = 0 THEN <<>> ELSE Step(g[i - 1], i)]
  <2> HIDE DEF Step
  <2>3. ASSUME NEW i \in 0..(m + 1) PROVE g[i] = next[i]
    <3>1. CASE i = m + 1
      <4>1. g[i] = Step(h[m], i) /\ g[i - 1] = h[m] /\ i # 0
        BY <3>1
      <4> QED
        BY <4>1
    <3>2. CASE i = 0
      <4>1. g[i] = h[i] /\ i \in 0..m
        BY <3>2
      <4>2. h[i] = <<>>
        BY <2>2, <3>2, <4>1
      <4> QED
        BY <3>2, <4>1, <4>2
    <3>3. CASE i # m + 1 /\ i # 0
      <4>1. g[i] = h[i] /\ g[i - 1] = h[i - 1] /\ i \in 0..m
        BY <3>3
      <4>2. h[i] = Step(h[i - 1], i)
        BY <2>2, <3>3, <4>1, Zenon
      <4> QED
        BY <3>3, <4>1, <4>2
    <3> QED
      BY <3>1, <3>2, <3>3
  <2>4. g = next
    <3>1. next = [i \in 0..(m + 1) |-> next[i]]
      OBVIOUS
    <3>2. g = [i \in 0..(m + 1) |-> g[i]]
      OBVIOUS
    <3> HIDE DEF g, next
    <3> QED
      BY <2>3, <3>1, <3>2, Zenon
  <2>5. EntriesFollow(g, document, rules, hosts, m + 1)
    BY <2>4, Zenon DEF EntriesFollow, Step
  <2> QED
    BY <2>5
<1> HIDE DEF E
<1>3. Nat \subseteq E
  BY <1>1, <1>2, CountingUp
<1> QED
  BY <1>3 DEF E

(* The capture's entries that are kept are whole ones of the hosts asked for,
   and nothing else. *)
LEMMA EntriesKept ==
  ASSUME NEW document, document.entries \in Seq(Range(document.entries)), NEW terms, NEW hosts
  PROVE  SanitizeHar(document, terms, hosts) \in Seq(KeptOf(document, terms, hosts))
<1> DEFINE n == Len(document.entries)
           rules == Rules(terms, {}, SensitiveBodyKeys)
           K == KeptOf(document, terms, hosts)
           OneStep(h) == [i \in 0..n |-> IF i = 0 THEN <<>>
                          ELSE KeepEntry(h[i - 1], i, document.entries[i], rules, hosts)]
           loop == CHOOSE h : h = OneStep(h)
<1>1. n \in Nat
  BY LenProperties
<1>2. \E h : h = OneStep(h)
  <2> HIDE DEF n, rules
  <2>1. \E h : EntriesFollow(h, document, rules, hosts, n)
    BY <1>1, EntriesAreGoneThrough
  <2> QED
    BY <2>1 DEF EntriesFollow
<1>3. loop = OneStep(loop)
  BY <1>2
<1>4. SanitizeHar(document, terms, hosts) = loop[n]
  BY DEF SanitizeHar
<1> HIDE DEF loop
<1>5. /\ loop[0] = <<>>
      /\ \A i \in 1..n : loop[i] = KeepEntry(loop[i - 1], i, document.entries[i], rules, hosts)
  <2>1. /\ OneStep(loop)[0] = <<>>
        /\ \A i \in 1..n : OneStep(loop)[i] = KeepEntry(loop[i - 1], i, document.entries[i], rules, hosts)
    BY <1>1
  <2> HIDE DEF OneStep
  <2> QED
    BY <1>3, <2>1, Zenon
<1> DEFINE E == {m \in Nat : m <= n => loop[m] \in Seq(K)}
<1>6. 0 \in E
  BY <1>5, EmptySeq
<1>7. ASSUME NEW m \in Nat, m \in E PROVE m + 1 \in E
  <2>1. SUFFICES ASSUME m + 1 <= n PROVE loop[m + 1] \in Seq(K)
    OBVIOUS
  <2>2. loop[m] \in Seq(K)
    BY <1>1, <1>7, <2>1
  <2>3. m + 1 \in 1..n /\ (m + 1) - 1 = m
    BY <1>1, <2>1
  <2> DEFINE raw == document.entries[m + 1]
  <2>4. loop[m + 1] = KeepEntry(loop[m], m + 1, raw, rules, hosts)
    BY <1>5, <2>3
  <2>5. CASE Chosen(raw, hosts)
    <3>1. Entry(m + 1, raw, rules) \in K
      BY <2>3, <2>5 DEF KeptOf
    <3>2. loop[m + 1] = Append(loop[m], Entry(m + 1, raw, rules))
      BY <2>4, <2>5 DEF KeepEntry
    <3> HIDE DEF K
    <3> QED
      BY <2>2, <3>1, <3>2, AppendProperties
  <2>6. CASE ~Chosen(raw, hosts)
    BY <2>2, <2>4, <2>6 DEF KeepEntry
  <2> QED
    BY <2>5, <2>6
<1> HIDE DEF E
<1>8. Nat \subseteq E
  BY <1>6, <1>7, CountingUp
<1> QED
  BY <1>1, <1>4, <1>8 DEF E

-----------------------------------------------------------------------------
(* The files a command leaves. *)

(* Files to be written in this order, given the names of those written: each is
   named by a manifest only after its own turn, and shows no secret. *)
InOrder(files, written) ==
    /\ files \in Seq(Range(files))
    /\ \A k \in 1..Len(files) :
          /\ files[k].lists \subseteq written \cup {files[j].name : j \in 1..(k - 1)}
          /\ files[k].text \cap Secrets = {}

FilesInv ==
    /\ InOrder(todo, DOMAIN out)
    /\ out = [name \in DOMAIN out |-> out[name]]
    /\ \A name \in DOMAIN out :
          /\ out[name].state = "synced"
          /\ out[name].lists \subseteq DOMAIN out
          /\ out[name].text \cap Secrets = {}
    /\ temp.text \cap Secrets = {}
    /\ litter \cap Secrets = {}

LEMMA SeqOfOwnRange ==
  ASSUME NEW T, NEW s \in Seq(T)
  PROVE  s \in Seq(Range(s))
<1>1. Len(s) \in Nat /\ DOMAIN s = 1..Len(s) /\ s = [k \in 1..Len(s) |-> s[k]]
  BY LenProperties
<1>2. \A k \in 1..Len(s) : s[k] \in Range(s)
  BY <1>1 DEF Range
<1>3. s \in [1..Len(s) -> Range(s)]
  BY <1>1, <1>2
<1> QED
  BY <1>1, <1>3, SeqDef

(* No file, and more files on the disk. *)
LEMMA NothingInOrder == ASSUME NEW written PROVE InOrder(<<>>, written)
<1>1. <<>> \in Seq(Range(<<>>)) /\ Len(<<>>) = 0
  BY EmptySeq
<1> QED
  BY <1>1 DEF InOrder

LEMMA RestInOrder ==
  ASSUME NEW files, NEW written, InOrder(files, written), files # <<>>
  PROVE  /\ InOrder(Tail(files), written \cup {Head(files).name})
         /\ Head(files).lists \subseteq written
         /\ Head(files).text \cap Secrets = {}
<1> DEFINE T == Range(files)
           rest == Tail(files)
           n == Len(files)
<1>1. files \in Seq(T)
  BY DEF InOrder
<1>2. n \in Nat \ {0}
  BY <1>1, EmptySeq
<1>3. /\ rest \in Seq(T) /\ Len(rest) = n - 1
      /\ \A i \in 1..(n - 1) : rest[i] = files[i + 1]
  <2> HIDE DEF T
  <2> QED
    BY <1>1, HeadTailProperties
<1>4. Head(files) = files[1]
  BY <1>1, <1>2
<1>5. /\ files[1].lists \subseteq written
      /\ files[1].text \cap Secrets = {}
  <2>1. 1 \in 1..n /\ 1..(1 - 1) = {}
    BY <1>2
  <2> QED
    BY <2>1 DEF InOrder
<1>6. rest \in Seq(Range(rest))
  BY <1>3, SeqOfOwnRange
<1>7. ASSUME NEW k \in 1..Len(rest)
      PROVE  /\ rest[k].lists \subseteq (written \cup {files[1].name}) \cup {rest[j].name : j \in 1..(k - 1)}
             /\ rest[k].text \cap Secrets = {}
  <2>1. k + 1 \in 1..n /\ rest[k] = files[k + 1] /\ (k + 1) - 1 = k /\ k \in 1..(n - 1)
    BY <1>2, <1>3
  <2>2. /\ files[k + 1].lists \subseteq written \cup {files[j].name : j \in 1..k}
        /\ files[k + 1].text \cap Secrets = {}
    BY <2>1 DEF InOrder
  <2>3. ASSUME NEW j \in 1..k
        PROVE  files[j].name \in {files[1].name} \cup {rest[i].name : i \in 1..(k - 1)}
    <3>1. CASE j = 1
      BY <3>1
    <3>2. CASE j # 1
      <4>1. j - 1 \in 1..(k - 1) /\ j - 1 \in 1..(n - 1) /\ (j - 1) + 1 = j
        BY <2>1, <3>2
      <4>2. rest[j - 1] = files[j]
        BY <1>3, <4>1
      <4> QED
        BY <4>1, <4>2
    <3> QED
      BY <3>1, <3>2
  <2> QED
    BY <2>1, <2>2, <2>3
<1> HIDE DEF rest
<1> QED
  BY <1>4, <1>5, <1>6, <1>7 DEF InOrder, rest

(* The one file of inspect-calendar. *)
LEMMA FixtureInOrder ==
  ASSUME NEW calendar \in Calendars, NEW written
  PROVE  InOrder(<<Fixture(calendar)>>, written)
<1> DEFINE file == Fixture(calendar)
<1>1. file.lists = {}
  BY DEF Fixture
<1>2. ASSUME NEW event \in calendar.events
      PROVE  Shown(SanitizeEvent(event, calendar.terms)) \cap Secrets = {}
  <2>1. KnownEvent(event, calendar.terms)
    BY SecretsAssumption
  <2> QED
    BY <2>1, EventHides
<1>3. file.text \cap Secrets = {}
  BY <1>2 DEF Fixture
<1> HIDE DEF file
<1>4. <<file>> \in Seq({file}) /\ Len(<<file>>) = 1 /\ <<file>>[1] = file
  OBVIOUS
<1>5. <<file>> \in Seq(Range(<<file>>))
  BY <1>4, SeqOfOwnRange
<1>6. \A k \in 1..Len(<<file>>) : k = 1
  BY <1>4
<1>7. InOrder(<<file>>, written)
  BY <1>1, <1>3, <1>4, <1>5, <1>6 DEF InOrder
<1> QED
  BY <1>7 DEF file

(* The files of sanitize-capture: the manifest, which names the others, is the
   last. *)
LEMMA CaptureInOrder ==
  ASSUME NEW c \in Captures, IsArchive(c.document), NEW written
  PROVE  InOrder(FilesToWrite(SanitizeHar(c.document, c.terms, c.hosts), c.terms), written)
<1> DEFINE K == KeptOf(c.document, c.terms, c.hosts)
           entries == SanitizeHar(c.document, c.terms, c.hosts)
           n == Len(entries)
           each == [k \in DOMAIN entries |-> EntryFile(entries[k])]
           last == Manifest(entries, c.terms)
           F == {EntryFile(entry) : entry \in K} \cup {last}
           files == FilesToWrite(entries, c.terms)
<1>1. entries \in Seq(K)
  BY CapturesAssumption, EntriesKept
<1>2. ASSUME NEW entry \in K
      PROVE  EntryFile(entry).text \cap Secrets = {} /\ entry.path \cap Secrets = {}
  <2> DEFINE rules == Rules(c.terms, {}, SensitiveBodyKeys)
  <2>1. PICK i \in 1..Len(c.document.entries) :
            /\ Chosen(c.document.entries[i], c.hosts)
            /\ entry = Entry(i, c.document.entries[i], rules)
    BY DEF KeptOf
  <2>2. c.document.entries[i] \in Range(c.document.entries)
    BY CapturesAssumption, <2>1 DEF Range
  <2>3. KnownMessage(c.document.entries[i], rules)
    BY SecretsAssumption, <2>1, <2>2
  <2> HIDE DEF rules
  <2> QED
    BY <2>1, <2>3, EntryHides
<1> HIDE DEF K
<1>3. n \in Nat /\ DOMAIN entries = 1..n /\ \A k \in 1..n : entries[k] \in K
  BY <1>1, LenProperties, ElementOfSeq
<1>4. files = each \o <<last>>
  BY DEF FilesToWrite
<1> HIDE DEF entries, n, files
<1>5. last.lists = {Filename(entries[k]) : k \in DOMAIN entries}
  BY DEF Manifest
<1>6. last.text \cap Secrets = {}
  <2>1. ASSUME NEW k \in DOMAIN entries
        PROVE  ScrubText(Rules(c.terms, {}, {}), entries[k].path) \cap Secrets = {}
    BY <1>2, <1>3 DEF ScrubText
  <2> QED
    BY <2>1 DEF Manifest
<1>7. ASSUME NEW k \in 1..n
      PROVE  /\ each[k].name = Filename(entries[k])
             /\ each[k].lists = {}
             /\ each[k].text \cap Secrets = {}
             /\ each[k] \in F
  <2>1. each[k] = EntryFile(entries[k]) /\ entries[k] \in K
    BY <1>3
  <2>2. each[k] \in F
    BY <2>1
  <2> HIDE DEF each, F
  <2>3. each[k].name = Filename(entries[k]) /\ each[k].lists = {}
    BY <2>1 DEF EntryFile
  <2>4. each[k].text \cap Secrets = {}
    BY <1>2, <2>1
  <2> QED
    BY <2>2, <2>3, <2>4
<1>8. each \in Seq(F) /\ Len(each) = n
  <2>1. each \in [1..n -> F]
    BY <1>3, <1>7
  <2> HIDE DEF each, F
  <2>2. each \in Seq(F) /\ DOMAIN each = 1..n
    BY <1>3, <2>1, SeqDef
  <2> QED
    BY <1>3, <2>2, LenProperties
<1>9. last \in F
  OBVIOUS
<1> HIDE DEF each, last, F
<1>10. /\ files \in Seq(F) /\ Len(files) = n + 1
       /\ \A k \in 1..n : files[k] = each[k]
       /\ files[n + 1] = last
  <2>1. <<last>> \in Seq(F) /\ Len(<<last>>) = 1 /\ <<last>>[1] = last
    BY <1>9
  <2>2. /\ each \o <<last>> \in Seq(F)
        /\ Len(each \o <<last>>) = n + 1
        /\ \A i \in 1..(n + 1) : (each \o <<last>>)[i] = IF i <= n THEN each[i] ELSE <<last>>[i - n]
    BY <1>8, <2>1, ConcatProperties
  <2>3. (n + 1) - n = 1 /\ ~(n + 1 <= n) /\ n + 1 \in 1..(n + 1)
    BY <1>3
  <2>4. (each \o <<last>>)[n + 1] = last
    BY <2>1, <2>2, <2>3
  <2>5. \A k \in 1..n : (each \o <<last>>)[k] = each[k]
    BY <1>3, <2>2
  <2> QED
    BY <1>4, <2>2, <2>4, <2>5
<1>11. files \in Seq(Range(files))
  BY <1>10, SeqOfOwnRange
<1>12. ASSUME NEW k \in 1..Len(files)
       PROVE  /\ files[k].lists \subseteq written \cup {files[j].name : j \in 1..(k - 1)}
              /\ files[k].text \cap Secrets = {}
  <2>1. CASE k \in 1..n
    BY <1>7, <1>10, <2>1
  <2>2. CASE k = n + 1
    <3>1. files[k] = last /\ k - 1 = n
      BY <1>3, <1>10, <2>2
    <3>2. ASSUME NEW j \in 1..n PROVE Filename(entries[j]) \in {files[i].name : i \in 1..n}
      BY <1>7, <1>10
    <3>3. files[k].lists \subseteq {files[i].name : i \in 1..n}
      BY <1>3, <1>5, <3>1, <3>2
    <3>4. files[k].text \cap Secrets = {}
      BY <1>6, <3>1
    <3> QED
      BY <3>1, <3>3, <3>4
  <2> QED
    BY <1>3, <1>10, <2>1, <2>2
<1>13. InOrder(files, written)
  BY <1>11, <1>12 DEF InOrder
<1> QED
  BY <1>13 DEF files, entries

-----------------------------------------------------------------------------
(* What each step does to the files. *)

LEMMA NoFilesInv ==
  ASSUME FilesInv, todo' = <<>>, temp' = NoTemp, out' = out, litter' = litter
  PROVE  FilesInv'
<1>1. InOrder(<<>>, DOMAIN out)
  BY NothingInOrder
<1> QED
  BY <1>1 DEF FilesInv, NoTemp

LEMMA LeaveFiles == ASSUME FilesInv, NEW reason, Leave(reason) PROVE FilesInv'
BY NoFilesInv DEF Leave

LEMMA BeginFiles ==
  ASSUME FilesInv, NEW from, NEW files, BeginWriting(from, files), InOrder(files, DOMAIN out)
  PROVE  FilesInv'
BY DEF BeginWriting, FilesInv

LEMMA PersistFiles ==
  ASSUME FilesInv, Persist
  PROVE  FilesInv'
<1> DEFINE file == [text |-> temp.text, lists |-> Head(todo).lists, state |-> "synced"]
           new == Head(todo).name
<1>1. /\ todo # <<>> /\ todo' = Tail(todo) /\ temp' = NoTemp /\ litter' = litter
      /\ out' = [name \in DOMAIN out \cup {new} |-> IF name = new THEN file ELSE out[name]]
  BY DEF Persist, Writing, Written
<1>2. /\ InOrder(Tail(todo), DOMAIN out \cup {new})
      /\ Head(todo).lists \subseteq DOMAIN out
      /\ Head(todo).text \cap Secrets = {}
  BY <1>1, RestInOrder DEF FilesInv
<1>3. DOMAIN out' = DOMAIN out \cup {new}
  BY <1>1
<1>4. ASSUME NEW name \in DOMAIN out'
      PROVE  /\ out'[name].state = "synced"
             /\ out'[name].lists \subseteq DOMAIN out'
             /\ out'[name].text \cap Secrets = {}
  <2>1. CASE name = new
    <3>1. out'[name] = file
      BY <1>1, <1>3, <2>1
    <3>2. temp.text \cap Secrets = {}
      BY DEF FilesInv
    <3> QED
      BY <1>2, <1>3, <3>1, <3>2
  <2>2. CASE name # new
    <3>1. name \in DOMAIN out /\ out'[name] = out[name]
      BY <1>1, <1>3, <2>2
    <3> QED
      BY <1>3, <3>1 DEF FilesInv
  <2> QED
    BY <2>1, <2>2
<1>5. /\ InOrder(todo', DOMAIN out')
      /\ out' = [name \in DOMAIN out' |-> out'[name]]
  BY <1>1, <1>2, <1>3
<1>6. temp'.text \cap Secrets = {} /\ litter' \cap Secrets = {}
  BY <1>1 DEF FilesInv, NoTemp
<1> QED
  BY <1>4, <1>5, <1>6 DEF FilesInv

LEMMA KillFiles == ASSUME FilesInv, KillCommand PROVE FilesInv'
<1>1. todo' = <<>> /\ temp' = NoTemp /\ litter' = litter \cup temp.text
  BY DEF KillCommand
<1>2. InOrder(<<>>, DOMAIN out)
  BY NothingInOrder
<1>3. out' = out
  <2> DEFINE torn(name) == IF out[name].state = "buffered"
                           THEN [out[name] EXCEPT !.state = "torn"] ELSE out[name]
  <2>1. out' = out \/ out' = [name \in DOMAIN out |-> torn(name)]
    BY DEF KillCommand
  <2>2. /\ \A name \in DOMAIN out : torn(name) = out[name]
        /\ out = [name \in DOMAIN out |-> out[name]]
    BY DEF FilesInv
  <2> HIDE DEF torn
  <2>3. [name \in DOMAIN out |-> torn(name)] = [name \in DOMAIN out |-> out[name]]
    BY <2>2, Zenon
  <2> QED
    BY <2>1, <2>2, <2>3, Zenon
<1> QED
  BY <1>1, <1>2, <1>3 DEF FilesInv, NoTemp

LEMMA InitFiles == ASSUME CommandsInit PROVE FilesInv
<1>1. InOrder(<<>>, DOMAIN out)
  BY NothingInOrder
<1> QED
  BY <1>1 DEF CommandsInit, FilesInv, NoTemp

LEMMA SameFiles == ASSUME FilesInv, UNCHANGED outVars PROVE FilesInv'
BY DEF FilesInv, outVars

LEMMA FilesStep == ASSUME FilesInv, [CommandsNext]_everyVar PROVE FilesInv'
<1>1. CASE \/ Quietly(Launch) \/ Quietly(Starting) \/ Quietly(UseStore) \/ Quietly(WriteWall)
           \/ Quietly(Running) \/ Quietly(OpenFails) \/ Quietly(StoreFails)
           \/ Quietly(StopSignal) \/ Quietly(OwnerEdits)
  BY <1>1, SameFiles DEF Quietly
<1>2. CASE ProbeWall
  BY <1>2, LeaveFiles DEF ProbeWall
<1>3. CASE InspectCalendar
  <2>1. CASE Leave("input")
    BY <2>1, LeaveFiles
  <2>2. ASSUME NEW calendar \in Calendars, BeginWriting("ask", <<Fixture(calendar)>>)
        PROVE  FilesInv'
    BY <2>2, FixtureInOrder, BeginFiles
  <2> QED
    BY <1>3, <2>1, <2>2 DEF InspectCalendar
<1>4. CASE SanitizeCapture
  <2> DEFINE files(c) == FilesToWrite(SanitizeHar(c.document, c.terms, c.hosts), c.terms)
  <2>1. PICK c \in Captures :
            \/ \E reason : Leave(reason)
            \/ IsArchive(c.document) /\ BeginWriting("capture", files(c))
    BY <1>4 DEF SanitizeCapture
  <2>2. CASE \E reason : Leave(reason)
    BY <2>2, LeaveFiles
  <2>3. CASE IsArchive(c.document) /\ BeginWriting("capture", files(c))
    <3>1. InOrder(files(c), DOMAIN out)
      BY <2>3, CaptureInOrder
    <3> HIDE DEF files
    <3> QED
      BY <2>3, <3>1, BeginFiles
  <2> QED
    BY <2>1, <2>2, <2>3
<1>5. CASE MakeTemp
  BY <1>5 DEF MakeTemp, FilesInv
<1>6. CASE FillTemp
  <2>1. /\ todo # <<>> /\ UNCHANGED <<todo, out, litter>>
        /\ temp' = [step |-> "filled", text |-> Head(todo).text]
    BY <1>6 DEF FillTemp, Writing
  <2>2. Head(todo).text \cap Secrets = {}
    BY <2>1, RestInOrder DEF FilesInv
  <2> QED
    BY <2>1, <2>2 DEF FilesInv
<1>7. CASE SyncTemp
  <2>1. UNCHANGED <<todo, out, litter>> /\ temp' = [temp EXCEPT !.step = "synced"]
    BY <1>7 DEF SyncTemp
  <2>2. temp'.text = temp.text
    BY <2>1
  <2> QED
    BY <2>1, <2>2 DEF FilesInv
<1>8. CASE Persist
  BY <1>8, PersistFiles
<1>9. CASE Done
  BY <1>9, LeaveFiles DEF Done
<1>10. CASE WriteFails
  BY <1>10, NoFilesInv DEF WriteFails
<1>11. CASE KillCommand
  BY <1>11, KillFiles
<1>12. CASE UNCHANGED everyVar
  BY <1>12, SameFiles DEF everyVar
<1> QED
  BY <1>1, <1>2, <1>3, <1>4, <1>5, <1>6, <1>7, <1>8, <1>9, <1>10, <1>11, <1>12
     DEF CommandsNext, Working, WriteFile

LEMMA FilesInvAlways == CommandsSpec => []FilesInv
BY InitFiles, FilesStep, PTL DEF CommandsSpec

(* Once there is a manifest every file it names is there and whole, whatever run
   was cut short, by a failing call, a kill or a loss of power, before it was
   written or after, and for captures of any length (sanitize_capture and
   atomic_private_json). *)
THEOREM ManifestNamesWholeFilesAlways == CommandsSpec => []ManifestNamesWholeFiles
<1>1. FilesInv => ManifestNamesWholeFiles
  BY DEF FilesInv, ManifestNamesWholeFiles
<1> QED
  BY <1>1, FilesInvAlways, PTL

(* No fixture, manifest or temporary file, finished or left by a kill, shows a
   secret that the rules can know of, however deep in a body it stood (the uses
   of Rules in sanitize_event_payload and sanitize_har). *)
THEOREM NothingSecretWrittenAlways == CommandsSpec => []NothingSecretWritten
<1>1. FilesInv => NothingSecretWritten
  BY DEF FilesInv, NothingSecretWritten
<1> QED
  BY <1>1, FilesInvAlways, PTL
=============================================================================
