------------------------------- MODULE Startup -------------------------------
(***************************************************************************)
(* A command's way from its launch to its cycles, and what it does to the  *)
(* state directory on the way and later: load_config of src/config.rs,     *)
(* load_credentials, from_key_file, HostLock::acquire, StateStore::open    *)
(* and transaction, in the order of sync and run_daemon of src/cli.rs.     *)
(* The poll loop is RunLoop's.  Between any two steps the process may be   *)
(* killed or the owner may change a file; what a killed process made is    *)
(* what the next launch finds.                                             *)
(***************************************************************************)
EXTENDS Config, RunLoop

CONSTANT Situations   \* the command lines, configurations and disks to start
                      \* from, each with how often each kind of event may happen

Commands == {"run", "sync", "probe", "inspect", "sanitize"}

(* The files the program looks at, the state directory and the directory it
   would be made in. *)
StateFiles == {"db", "wal", "shm"}
Paths == {"config", "google_key", "wall_creds", "above", "dir", "lock"} \cup StateFiles

(* A file or directory that is private (0600, 0700), loose (open to others),
   readonly, garbled (private but of the wrong content), special (of the wrong
   type) or absent. *)
Modes == {"private", "loose", "readonly", "garbled", "special", "absent"}

Happenings == {"launch", "kill", "edit", "fault"}

ASSUME SituationsAssumption ==
    \A s \in Situations :
        /\ s.command \in Commands
        /\ s.apply_flag \in BOOLEAN
        /\ s.disk \in [Paths -> Modes]
        /\ s.limit \in [Happenings -> Nat]

VARIABLES call,    \* the command line and the configuration's text
          disk,    \* what is at each path
          at,      \* where the process is; "off" between launches
          txn,     \* the transactions of this cycle: "before", "open", "after"
                   \* or "failed"
          left     \* the events still allowed

(* Auxiliary. *)
VARIABLES mine,    \* what the program made and the owner has not touched since
          meddled, \* the owner changed the directory under a running process
          why,     \* what the last launch was refused for
          posted   \* this process wrote to the wall

fileVars == <<disk, mine, meddled>>
startVars == <<call, fileVars, at, txn, left, why, posted>>
allVars == <<vars, startVars>>

Opening == {"lock_dir", "lock_file", "open_dir", "open_db", "connect", "secure"}
Stages == {"off", "read", "paths", "wall", "reader", "signals", "loop", "cycle", "ask",
           "capture", "write"} \cup Opening

StartTypeOK ==
    /\ TypeOK
    /\ \E s \in Situations : call = [command |-> s.command, apply_flag |-> s.apply_flag, body |-> s.body]
    /\ disk \in [Paths -> Modes]
    /\ at \in Stages
    /\ txn \in {"before", "open", "after", "failed"}
    /\ left \in [Happenings -> Nat]
    /\ mine \in SUBSET Paths
    /\ meddled \in BOOLEAN
    /\ why \in Paths \cup {"nothing", "busy", "store", "input", "output"}
    /\ posted \in BOOLEAN

StartInit ==
    /\ Init
    /\ \E s \in Situations :
        /\ call = [command |-> s.command, apply_flag |-> s.apply_flag, body |-> s.body]
        /\ disk = s.disk
        /\ left = s.limit
    /\ at = "off"
    /\ txn = "before"
    /\ mine = {}
    /\ meddled = FALSE
    /\ why = "nothing"
    /\ posted = FALSE

Spend(kind) == left[kind] > 0 /\ left' = [left EXCEPT ![kind] = @ - 1]

Move(from, to) == at = from /\ at' = to

(* The process is gone and its memory with it. *)
Gone ==
    /\ at' = "off"
    /\ txn' = "before"
    /\ meddled' = FALSE
    /\ pc' = "check"
    /\ stop' = FALSE
    /\ elapsed' = Interval
    /\ remaining' = 0
    /\ nap' = 0
    /\ begun' = 0
    /\ late' = 0
    /\ took' = 0

Refuse(reason) ==
    /\ Gone
    /\ why' = reason
    /\ UNCHANGED <<call, disk, mine, left, posted>>

(* A step of the way: go on, or be refused for a reason. *)
Check(from, ok, reason, to) ==
    /\ at = from
    /\ IF ok
       THEN at' = to /\ UNCHANGED <<vars, call, fileVars, txn, left, why, posted>>
       ELSE Refuse(reason)

-----------------------------------------------------------------------------
(* Configuration and credentials. *)

Launch ==
    /\ Move("off", IF call.command = "sanitize" THEN "capture" ELSE "read")
    /\ Spend("launch")
    /\ why' = "nothing"
    /\ posted' = FALSE
    /\ UNCHANGED <<vars, call, fileVars, txn>>

(* load_config: read_config and from_toml_str. *)
ReadConfig ==
    Check("read", disk.config \in {"private", "loose", "readonly"} /\ Accepted(call.body), "config", "paths")

(* require_private_file: a regular file without group or world bits. *)
PrivateFile(p) == disk[p] \in {"private", "garbled", "readonly"}

WritableDir == disk.dir \in {"private", "loose"}

(* validate_state_parent: the directory, or the one it would be made in, is
   writable.  A state_path that is a bare file name has the empty path for its
   parent, which does not exist. *)
StateParentWritable ==
    /\ AppConfig(call.body).storage.state_path.word # "bare"
    /\ WritableDir \/ (disk.dir = "absent" /\ disk.above = "private")

HasWall == "flightwall" \in DOMAIN AppConfig(call.body)

(* The rest of load_config, in its order. *)
CheckPaths ==
    /\ at = "paths"
    /\ \/ ~StateParentWritable /\ Refuse("dir")
       \/ StateParentWritable /\ ~PrivateFile("google_key") /\ Refuse("google_key")
       \/ /\ StateParentWritable /\ PrivateFile("google_key")
          /\ Check("paths", HasWall => PrivateFile("wall_creds"), "wall_creds",
                   IF call.command = "inspect" THEN "reader" ELSE "wall")

(* build_wall: the table is there; load_credentials looks at the mode again,
   reads the file and finds both keys in it. *)
BuildWall ==
    Check("wall", HasWall /\ disk.wall_creds \in {"private", "readonly"},
          IF HasWall THEN "wall_creds" ELSE "config",
          IF call.command = "probe" THEN "ask" ELSE "reader")

(* build_reader: from_key_file looks at the mode again, reads, parses. *)
BuildReader ==
    Check("reader", disk.google_key \in {"private", "readonly"}, "google_key",
          CASE call.command = "run" -> "signals"
            [] call.command = "sync" -> "lock_dir"
            [] OTHER -> "ask")

(* install_stop_signals. *)
InstallSignals == Check("signals", TRUE, "nothing", "lock_dir")

-----------------------------------------------------------------------------
(* The lock and the store: what is made, and with which mode. *)

(* The program makes what is missing at path p. *)
Make(p, mode) ==
    /\ disk' = [disk EXCEPT ![p] = mode]
    /\ mine' = mine \cup {p}
    /\ UNCHANGED meddled

(* Go on, with p made if it was missing. *)
MakeIfMissing(from, p, mode, to) ==
    /\ Move(from, to)
    /\ IF disk[p] = "absent" THEN Make(p, mode) ELSE UNCHANGED fileVars
    /\ UNCHANGED <<vars, call, txn, left, why, posted>>

(* Mutated form: fs::create_dir_all, which leaves the mode to the umask. *)
MakeLockDirLoose ==
    \/ MakeIfMissing("lock_dir", "dir", "loose", "lock_file")
    \/ (at = "lock_dir" /\ disk.dir = "special" /\ Refuse("dir"))

(* HostLock::acquire makes the directory 0700 if it is missing, and takes any
   directory that is there. *)
MakeLockDir ==
    \/ /\ \/ disk.dir = "absent" /\ disk.above = "private"
          \/ disk.dir \in {"private", "loose", "readonly"}
       /\ MakeIfMissing("lock_dir", "dir", "private", "lock_file")
    \/ /\ at = "lock_dir"
       /\ disk.dir \in {"special", "garbled"} \/ (disk.dir = "absent" /\ disk.above # "private")
       /\ Refuse("dir")

(* It then opens the lock file, making it 0600 if it is missing, and takes the
   lock or leaves: another process may hold it (Deployment has that one). *)
TakeLock ==
    \/ /\ disk.lock \in {"private", "loose", "garbled"} \/ (disk.lock = "absent" /\ WritableDir)
       /\ MakeIfMissing("lock_file", "lock", "private", "open_dir")
    \/ /\ at = "lock_file"
       /\ disk.lock \in {"special", "readonly"} \/ (disk.lock = "absent" /\ ~WritableDir)
       /\ Refuse("lock")
    \/ /\ at = "lock_file"
       /\ Gone
       /\ why' = "busy"
       /\ Spend("fault")
       /\ UNCHANGED <<call, disk, mine, posted>>

(* Mutated form: the directory's mode is not looked at. *)
PrepareDirectoryTrusting ==
    /\ disk.dir # "absent"
    /\ Check("open_dir", disk.dir # "special", "dir", "open_db")

(* prepare_directory: refuse what is no directory or is open to others. *)
PrepareDirectory ==
    \/ /\ disk.dir \in {"private", "readonly"} \/ (disk.dir = "absent" /\ disk.above = "private")
       /\ MakeIfMissing("open_dir", "dir", "private", "open_db")
    \/ /\ at = "open_dir"
       /\ disk.dir \in {"loose", "special", "garbled"} \/ (disk.dir = "absent" /\ disk.above # "private")
       /\ Refuse("dir")

(* prepare_database_file: the same for the database, which is made empty. *)
PrepareDatabaseFile ==
    \/ /\ disk.db \in {"private", "readonly", "garbled"} \/ (disk.db = "absent" /\ WritableDir)
       /\ MakeIfMissing("open_db", "db", "private", "connect")
    \/ /\ at = "open_db"
       /\ disk.db \in {"loose", "special"} \/ (disk.db = "absent" /\ ~WritableDir)
       /\ Refuse("db")

(* SQLite makes the siblings it misses, with modes the code does not count on. *)
SiblingsAppear ==
    LET missing == {f \in {"wal", "shm"} : disk[f] = "absent"}
    IN  /\ \E mode \in [missing -> {"private", "loose"}] :
            disk' = [f \in Paths |-> IF f \in missing THEN mode[f] ELSE disk[f]]
        /\ mine' = IF meddled THEN mine ELSE mine \cup missing
        /\ UNCHANGED meddled

(* connect_with and the migrations, each a transaction; create_if_missing is
   off. *)
Connect ==
    \/ /\ disk.db = "private" /\ WritableDir
       /\ Move("connect", "secure")
       /\ SiblingsAppear
       /\ UNCHANGED <<vars, call, txn, left, why, posted>>
    \/ /\ at = "connect"
       /\ disk.db # "private" \/ ~WritableDir
       /\ Refuse(IF disk.db # "private" THEN "db" ELSE "dir")

(* Any other error of the store before it is open. *)
OpenFails ==
    /\ at \in {"connect", "secure"}
    /\ Gone
    /\ why' = "store"
    /\ Spend("fault")
    /\ UNCHANGED <<call, disk, mine, posted>>

Cycling == at = "cycle" \/ (at = "loop" /\ pc = "cycle")

(* secure_sqlite_files: whatever exists is made private. *)
Secured ==
    /\ disk' = [p \in Paths |-> IF p \in StateFiles /\ disk[p] \in {"loose", "readonly"}
                               THEN "private" ELSE disk[p]]
    /\ UNCHANGED <<mine, meddled>>

SecureFiles ==
    /\ \/ Move("secure", IF call.command = "run" THEN "loop" ELSE "cycle") /\ UNCHANGED txn
       \/ Cycling /\ txn = "open" /\ txn' = "after" /\ UNCHANGED at
    /\ Secured
    /\ UNCHANGED <<vars, call, left, why, posted>>

-----------------------------------------------------------------------------
(* Running. *)

(* The cycle reads the journal, or begins a transaction; SQLite may have closed
   its files in between and makes them again.  One transaction stands for those
   of a cycle. *)
UseStore ==
    /\ Cycling
    /\ txn \in {"before", "after"}
    /\ txn' = txn \/ (txn = "before" /\ txn' = "open")
    /\ IF disk.db = "absent" THEN UNCHANGED fileVars ELSE SiblingsAppear
    /\ UNCHANGED <<vars, call, at, left, why, posted>>

(* A transaction fails, and the files are not secured: sync ends, and run's cycle
   has nothing more to do. *)
StoreFails ==
    /\ Cycling
    /\ txn = "open"
    /\ Spend("fault")
    /\ IF at = "cycle"
       THEN Gone /\ UNCHANGED <<disk, mine>>
       ELSE txn' = "failed" /\ UNCHANGED <<vars, fileVars, at>>
    /\ UNCHANGED <<call, why, posted>>

(* sync: apply_flag || !dry_run; run: !dry_run. *)
Applies ==
    \/ AppConfig(call.body).service.dry_run.word = "false"
    \/ call.command = "sync" /\ call.apply_flag

WriteWall ==
    /\ Cycling
    /\ txn = "after"
    /\ Applies
    /\ posted' = TRUE
    /\ UNCHANGED <<vars, call, fileVars, at, txn, left, why>>

(* The poll loop; a cycle ends with no transaction open. *)
RunTheLoop ==
    /\ at = "loop"
    /\ pc # "stopped"
    /\ Loop
    /\ pc = "cycle" => txn # "open"
    /\ txn' = IF pc' = "cycle" THEN txn ELSE "before"
    /\ UNCHANGED <<call, fileVars, at, left, why, posted>>

(* sync: one cycle, and the exit code of its report; run: the loop is over. *)
Finish ==
    /\ (at = "cycle" /\ txn # "open") \/ (at = "loop" /\ pc = "stopped")
    /\ Gone
    /\ UNCHANGED <<call, disk, mine, left, why, posted>>

(* SIGTERM or SIGINT once the handlers are in place. *)
Handled == call.command = "run" /\ at \in Opening \cup {"loop"}

StopSignal ==
    /\ Handled
    /\ Signal
    /\ UNCHANGED startVars

(* Any other end: SIGKILL, power, or a signal nobody handles. *)
Kill ==
    /\ at # "off"
    /\ Spend("kill")
    /\ Gone
    /\ UNCHANGED <<call, disk, mine, why, posted>>

(* What probe-wall, inspect-calendar and sanitize-capture do when they have come
   this far, as far as it concerns the state directory; Commands has the rest. *)
OtherCommand ==
    /\ at \in {"ask", "capture", "write"}
    /\ \/ at' = "write" /\ UNCHANGED <<vars, call, fileVars, txn, left, why, posted>>
       \/ /\ Gone
          /\ why' \in {"nothing", "input", "output"}
          /\ Spend("fault") \/ UNCHANGED left
          /\ UNCHANGED <<call, disk, mine, posted>>

(* The owner changes a file.  A directory that is removed takes its files with
   it. *)
Edit(p, mode) ==
    /\ mode # disk[p]
    /\ Spend("edit")
    /\ disk' = [q \in Paths |-> IF q = p THEN mode
                                ELSE IF p = "dir" /\ mode \in {"absent", "special"}
                                        /\ q \in StateFiles \cup {"lock"} THEN "absent"
                                ELSE disk[q]]
    /\ mine' = IF p = "dir" THEN {} ELSE mine \ {p}
    /\ meddled' = (meddled \/ (p = "dir" /\ at # "off"))
    /\ UNCHANGED <<vars, call, at, txn, why, posted>>

OwnerEdits ==
    \/ \E mode \in {"private", "loose"} : Edit("dir", mode) \/ (disk.db # "absent" /\ Edit("db", mode))
    \/ Edit("dir", "absent")
    \/ \E p \in {"google_key", "wall_creds"}, mode \in {"private", "loose", "absent"} : Edit(p, mode)

Starting ==
    \/ ReadConfig \/ CheckPaths \/ BuildWall \/ BuildReader \/ InstallSignals
    \/ MakeLockDir \/ TakeLock \/ PrepareDirectory \/ PrepareDatabaseFile \/ Connect

Running == SecureFiles \/ RunTheLoop \/ Finish

StartNext ==
    \/ Launch \/ Starting \/ UseStore \/ WriteWall \/ Running
    \/ OpenFails \/ StoreFails \/ StopSignal \/ OtherCommand \/ Kill \/ OwnerEdits

StartSpec == StartInit /\ [][StartNext]_allVars

(* The process is scheduled, its clock runs, and its calls return. *)
FairStartSpec == StartSpec /\ WF_allVars(Starting \/ Running)

-----------------------------------------------------------------------------
(* A launch is refused only for what the owner made or changed, never for what
   an earlier launch left behind, however far it got. *)
NeverLocksItselfOut == why \notin mine

(* What the program keeps in the state directory is out of others' reach at
   every moment, also between SQLite making a file and the program closing it:
   the directory was private, unless the owner opened it meanwhile. *)
StateNeverExposed ==
    \A p \in mine : disk[p] = "loose" => disk.dir = "private"

(* A wall is written only where the owner said so, in the file or on the command
   line; saying nothing is a dry run. *)
WritesOnlyIfAsked ==
    posted =>
        \/ call.command = "sync" /\ call.apply_flag
        \/ /\ "service" \in DOMAIN call.body
           /\ "dry_run" \in DOMAIN call.body.service
           /\ call.body.service.dry_run.word = "false"

(* Past load_config nothing looks at a number again, and nothing has to. *)
AcceptedIsUsable ==
    at \notin {"off", "read", "capture", "write"} => Usable(AppConfig(call.body))

(* A signal ends the process, wherever the start or the loop was. *)
ProcessStops == stop ~> at = "off"
=============================================================================
