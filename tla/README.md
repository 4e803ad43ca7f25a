# A formal model of flighty-wall

flighty-wall keeps a FlightWall display in step with a Flighty calendar: once
per poll it reads the calendar, decides which flight numbers depart today, reads
the wall's configuration document, and replaces the list of tracked flights in
it. The wall says nothing about who added an entry, its server has no
conditional writes, and the owner edits the same list from an app. So the daemon
keeps a journal of the numbers it added and of the write it is about to make,
and everything it promises the owner rests on that journal being right after any
crash, lost answer or concurrent edit.

This directory holds TLA+ modules for that system, TLC configurations that check
them on small instances, and proofs for every instance. `PROJECT.json` lists
components, runs, the source lines each definition stands for, the hazards the
properties are aimed at, and the theorems. Paths below are relative to the
repository.

## The system

| Part | State it keeps | Operations |
| --- | --- | --- |
| Calendar reader, `src/calendar/reader.rs` | pages, bytes and events of one read | `read_snapshot`, `absorb`, `add_event` |
| Google gateway and token cache, `src/calendar/google.rs`, `auth.rs` | one cached bearer token | `list_events_page`, `bearer_token`, `fetch` |
| Parser, `src/parser.rs` | none | `parse_cycle`, `interpret`, `merge`, `codeshare_conflict` |
| Planner, `src/reconcile.rs` | none | `plan`, `flights_for` |
| Write protocol, `src/reconcile.rs`, `src/service/cycle.rs` | locals of one cycle | `run_cycle`, `apply_plan`, `recover_pending_write`, `settle` |
| Journal, `src/state.rs` | `owned_flights`, `pending_writes` in SQLite | `record_owned`, `release_owned`, `begin_pending_write`, `resolve_pending_write`, each in a `transaction` |
| FlightWall client, `src/flightwall/` | none | `read`, `replace_tracked_flights`, fingerprint, status classification |
| FlightWall server, owner's app (external; `docs/flightwall-api.md`) | the document; the app's copy | GET, POST, removal of landed flights; load, add, remove |
| Poll loop, `src/service/run_loop.rs` | the stop flag, the clock | `run_forever`, `StopSignal::wait`, signals |
| Host lock, CLI, unit: `src/service/lock.rs`, `src/cli.rs`, `systemd/` | an advisory lock | `sync`, `run`, exit codes, restart on failure |
| Configuration, credentials: `src/config.rs`, `src/flightwall/credentials.rs`, `auth.rs` | none after start | `read_config`, `from_toml_str`, `load_config`, `load_credentials`, `from_key_file` |
| State directory: `src/state.rs`, `src/service/lock.rs` | the directory, the lock, the database and SQLite's siblings, with their modes | `acquire`, `prepare_directory`, `prepare_database_file`, `connect`, `secure_sqlite_files` |
| Other commands: `src/cli.rs`, `src/calendar.rs`, `src/capture.rs`, `src/redaction.rs` | the files they write | `probe-wall`, `inspect-calendar`, `sanitize-capture`, `atomic_private_json` |

How they meet: the poll loop calls `run_cycle`; that calls the reader, the
parser, the client (GET), recovery, the client again if recovery did something,
the planner, the journal (intent), the client (POST), the journal (settle). All
calls are synchronous; nothing in the process runs concurrently except the
signal handler. What makes the system hard is outside: the app, the server and
the calendar act between any two calls; requests fail before or after they took
effect; the process can die anywhere and finds only the journal and the wall
when it returns. A second process, a `sync` run by hand beside the daemon, shares
the journal and the wall, and only the host lock keeps the two apart. And what
a start that was cut short leaves in the state directory is what the next start
finds, and checks.

What makes each part correct:

- reader and gateway: a snapshot is authoritative only if it is complete; limits
  are exact; a read ends; no token is sent that expires under way, none is kept
  for ever once revoked;
- client: exactly the captured contract is trusted; a write never moves the
  document out of it, and loses nothing of the owner's it did not race with;
- lock, commands, unit: one process at a time uses the journal; exit codes tell
  the truth; the daemon comes back;
- parser: the wanted list does not depend on listing order, has no repeats, and
  survives delays;
- planner: unowned entries are kept in order and unchanged, the cap is used
  exactly, a settled write needs no further write;
- write protocol and journal: the owner's entries are never removed, the journal
  knows what the daemon made, intents never pile up, the wall comes into step
  once it is left alone;
- poll loop: cycles are spaced by the interval, a signal is honoured promptly;
- configuration: a wall is written only if the owner said so, and what was
  accepted needs no second look;
- state directory: private at every moment, and never left in a state the next
  start refuses;
- fixtures: no secret in any file, temporary ones included, and a manifest names
  only whole files.

## The modules

| Module | What it models |
| --- | --- |
| `Reconcile` | The planner's operators over sequences of flight numbers, the list a write sends, and what a settled write owns. A wall entry is `[number, by]`: `by` stands for the timestamp and toggles the daemon copies and never reads. Lists are filtered by position ranks instead of recursion, so that they can be reasoned about. |
| `ReconcileCheck` | Takes one write cycle from every small calendar, wall and journal, and compares the operators with the code's loops. |
| `Journal` | `owned`, `pending`; one action per SQLite transaction, atomic and durable. |
| `Wall` | The external side: the server's list, POSTs still on their way, the app's copy. |
| `Sync` | `run_cycle` composed with `Journal` and `Wall`. `phase` is the program counter; each request and each transaction is a step. |
| `SyncMC` | Instances of `Sync`. |
| `AtomicSync` | The abstract specification: writing the wall and recording ownership are one step. |
| `Parser`, `ParserCheck`, `ParserMC` | Events to wanted numbers; a calendar being edited while the clock ticks. |
| `CalendarRead` | One paged read: the reader's accumulator and its result, for pages with any content. |
| `CalendarGateway`, `CalendarGatewayMC` | Reads one after another through the gateway, with the cached token, time and revocation. Times are kept as what is left: `believed` is `expires_at` minus now, `real` how long Google still honours the token. |
| `Contract`, `ContractMC` | The client against the whole document, whose shape the vendor may change: what a read trusts, what a POST stores, what the owner set meanwhile. |
| `Deployment`, `DeploymentMC` | The daemon and `sync`s on one host: launch, lock, store, cycles, exit codes, kills, restarts. A cycle is coarser here than in `Sync` and nobody else writes the wall; what matters is which process takes each step. It implements `AtomicSync` too. |
| `RunLoop` | The poll loop with time and signals. |
| `Config` | The configuration's text as tables and keys: what serde and the checks accept, both sets of defaults, what the service is given. |
| `Startup` | The way of a command from its launch to the loop of `RunLoop`: configuration, credentials, lock, store, and what each step makes, checks and closes in the state directory. The owner may change a file and the process be killed between any two steps. |
| `Redaction`, `Capture` | What is scrubbed, dropped and kept of a JSON value, a calendar event and a HAR archive. A text is the set of marks a rule or a reader could recognise in it; a JSON value is a function from paths of keys and positions to what stands there, so that scrubbing one, at every depth, needs no recursion. |
| `Commands`, `CommandsMC` | Every command: `Startup` for `sync` and `run`, and the other three with the files they write. |
| `ReconcileProofs`, `ReconcileCheckProofs`, `SyncProofs`, `DeploymentProofs`, `ContractProofs`, `ParserProofs`, `CalendarGatewayProofs`, `StartupProofs` | Theorems; `StartupProofs` has those of `RunLoop`, `Startup` and `Commands`. |

How `Sync`'s state corresponds to the code: `owned` and `pending` are the two
tables; `snap` is the last authoritative `WallSnapshot` of the cycle, `wanted`
the parser's result, `doc` the list handed to the client, `applying` the `apply`
argument. They exist only while a cycle runs; `EndCycle` forgets them, whether
the cycle returned, failed or died. `left` counts the disturbances still
allowed. `safe` and `sent` are history variables no action of the daemon reads.

The phases, in order:

| Phase | Next step | Code |
| --- | --- | --- |
| `idle` | `ReadCalendar`, or `CalendarNotAuthoritative` | `run_cycle`, calendar and parse |
| `read` | `ReadWall`, or `WallNotAuthoritative` | first `wall.read()` |
| `recover` | `Recover` | `recover_pending_write` |
| `reread` | `RereadWall`, or `WallNotAuthoritative` | second `wall.read()`, only after a recovery |
| `plan` | `NoWrite`, `Refuse`, `Send` | `plan`, `apply_plan` up to the POST |
| `post` | `PostAccepted`, `PostRejected`, `PostUnanswered` | `replace_tracked_flights` |
| `accepted`, `rejected` | `SettleAccepted`, `SettleRejected` | `settle` |
| `unknown` | `RereadAfterPost`, `RereadAfterPostFails` | the client's re-read |
| `judge` | `SettleUnknown` | `recover_pending_write` again |

`PostUnanswered` has three outcomes: the list was stored, it was lost, or it is
still on its way and will be stored at any later time (`ServerAppliesLate`).
`Crash` is possible in every phase and also stands for a failed transaction,
which ends the cycle the same way.

`Contract`'s state: `server` is the stored document, `heard` the answer the
client's snapshot was made from, `phase` whether the client holds a snapshot or
is about to re-read. A body is its shape (keys, model, list or not, the entries'
keys and types) and one value `settings` for everything the daemon copies and
never reads. `chosen`, `stale`, `lost` and `ours` are history variables.

`Deployment`'s state: `step[p]` is where process p is, `holder` the flock,
`exit[p]` its last exit code; `unit` is what the owner told systemd.
`StartDaemon` is systemd's start or restart: it is enabled whenever the unit is
up and the last exit was not 0.

`Startup`'s state: `at` is how far the process has come, named for the next thing
it does; `disk` gives each path's mode, `mine` the paths the program made and the
owner has not touched since, `why` what the last launch was refused for.
`RunLoop`'s variables are the process's memory and are reset when it ends.
SQLite makes its `-wal` and `-shm` with a mode the code does not choose, so
`SiblingsAppear` picks any; `SecureFiles` is `secure_sqlite_files`, after
`connect` and after each transaction that did not fail. `Commands` adds `todo`, `temp`
and `out`, the files to write, being written and written; a kill may be a power
loss, which tears a file that was renamed without its sync.

Definitions marked "Mutated form" are plausible mistakes next to the definition
they would replace; the properties are tested against them.

## The runs

| Run | What it shows |
| --- | --- |
| `reconcile` | On 33,152 initial walls, journals and wanted lists, and on what writes make of them, the plan equals the code's loops; no write loses, alters or reorders an unowned entry; every wanted number is placed or reported. |
| `sync_hostile` | With one disturbance of each kind in any order: an entry the daemon has seen and does not own is removed only by the owner or the server; no cycle plans with an intent open; no number appears twice on the wall or in a list on its way to it; a POST that meets the wall it was planned for changes only owned entries. |
| `sync_crashes` | With the daemon the only writer, three crashes, three failures, two calendar changes: the journal is exact, and `Sync` implements `AtomicSync`. |
| `sync_converges` | The app may fill the wall over the daemon's cap, a POST may come late, requests fail, the calendar changes. A list over the cap is refused, even one that only removes, and the cycle ends in an error with the intent open: every intent is still settled, and after the last disturbance the wall comes into step and stays there, unless it stays overfull. |
| `parser` | Three events, edited while the clock ticks, in every listing order, on a host away from UTC: the wanted list is what the loops compute, repeats nothing, and keeps today's departures through delays. |
| `calendar` | Reads one after another of up to three small pages: windows are complete, limits exact, reads end; slow fetches and requests never let a token expire under way; a revoked token is given up in the end. |
| `commands` | Each command over sound and unsound configurations and disks, killed and launched again while the owner changes files. `NeverLocksItselfOut`: a launch is never refused for what an earlier one left. `StateNeverExposed`: a state file open to others is in a directory that is not. `WritesOnlyIfAsked`: silence is a dry run, in every way a table or key can be missing. `AcceptedIsUsable`: NaN, negative and zero never reach the code that takes them for granted. `NothingSecretWritten`: no secret in a fixture, a manifest or a temporary file a kill left. `ManifestNamesWholeFiles`: through failures, kills and power loss. `StopHonoured`, `CyclesSpaced`, `ProcessStops`: the poll loop's times, and a signal that ends the process wherever the start has come to. |
| `deployment` | The daemon and a `sync`, two kills, two faults, two stops: only the lock's holder is past it; the journal stays exact; exit 3 means this process wrote nothing, exit 0 of an applying sync leaves nothing to do; together the processes implement `AtomicSync`, though one may send what another settles; while the unit is up the daemon gets back to its cycles. |
| `contract` | Sixteen-odd shapes of document, moved by the vendor at any time: an answer is trusted exactly if it is the captured contract; what drifted before the read is never overwritten; the daemon's own write never drifts; the owner's settings are lost only to a write they raced with. |

Three runs end in a violation, each of something the documentation says:

| Run | What happens |
| --- | --- |
| `sync_landing` | A POST is applied but not answered; the server drops a landed flight before the re-read; recovery compares whole lists, concludes that nothing was applied, and the daemon's entry is in no journal. It stays on the wall as if it were the owner's until it lands. |
| `sync_adoption` | The daemon journals an intent to add a number and dies before the POST; the owner adds that number by hand; recovery finds the journaled list on the wall, records the entry as the daemon's, and a later cycle removes what the owner added. |
| `calendar_undecoded` | A 200 whose body is empty or no JSON becomes the empty object, which is an empty last page. As the first page it makes an empty authoritative calendar, and the next plan removes every flight the daemon added; as a later one it cuts the window short. |

`sync_adoption` does not contradict `OwnerEntriesStay`: that property covers an
entry from the moment a plan has recognised it, and here none ever did. Nor does
`calendar_undecoded` contradict `AuthoritativeIsComplete`, which compares the
events with what the pages hold once decoded.

### Bounds

Two or three flight numbers, a cap of two and walls of up to three entries are
enough for a full wall, a removal that frees a slot, an addition that does not
fit, and a number both wanted and already the owner's; the code treats numbers
only by equality, so a fourth adds no new case, and the planner is checked apart
for three numbers with every wall and journal. Each kind of disturbance gets a
budget: one of each suffices for every pair of kinds to meet (`Hostile`), and
`Crashes` allows three crashes and three failures, so that a recovery can itself
crash and be repeated. `Crowding` (`sync_converges`) uses a cap of one, lets the
app go to three entries in two edits, so that the wall exceeds the cap, and has
one failure, late POST and calendar change. It has no crash: a re-read that fails
leaves the intent open as a crash would, and crashes at every step are
`sync_crashes`'. It has no landing: a server that drops the same flight after
each poll, while the calendar still lists it today, keeps the daemon writing.
`AppLimit` equals the cap elsewhere, as in the app.

In `ParserMC` a day has two ticks and the host is one tick from UTC, so each of
the operator's days meets two UTC days. Three events are enough for two claims on
one flight and a third on another; the first of them may be anything, the second
is the outward leg under either number, the third either leg of the first number,
and three edits let one be added, moved and cancelled.

`CalendarGatewayMC` has three pages, two events and four bytes as its limits, and
pages that meet and exceed each; a margin of two ticks, requests of up to one and
tokens of three and five, so that a token is good for no page, one or several.
`CommandsMC` starts from situations, each a command line, a configuration, a disk
and a budget of launches, kills, owner's changes and failures. Configurations
differ from a sound one in one key or table at a time, with numbers on, inside
and outside the bounds of the poll interval, the window, a limit and the timeout;
they get one launch, as do the commands that touch no state. Every disk that differs from a fresh or
used one in one path gets two launches and one event of each kind, a fresh disk
three launches and two kills and changes, so that a launch finds what two others
left. The loop has an interval of 7, a poll of 2 and cycles of 0 to 10: shorter,
equal and longer than the interval, and a wait that is no multiple of the poll.
The captures have a secret in every place a message has, a host that is wanted
and one that is not, and each kind of body; the marks are those of two patterns,
a term, a short secret no pattern knows, and a coordinate.

`DeploymentMC` has one `sync` beside the daemon: only two processes can meet at
a lock that never waits. `ContractMC` has two settings, lists of up to two
entries, and one document for each way the fingerprint can be missed, with a
good entry beside the bad one where entries drift.

### Fairness

`Sync!FairSpec` is weak fairness of the daemon's next step as a whole
(`WF_vars(Cycle)`): the loop always starts another cycle, and every call
returns because requests have timeouts. Which of the enabled steps is taken,
success or failure, is not constrained; failures are bounded by the budget,
because a server that never answers keeps any daemon from converging. The
environment has no fairness: a late POST may arrive or never arrive.
`Commands!FairCommandsSpec` assumes the same of its one process: it is scheduled,
its clock runs, its calls return. Nothing is assumed of launches, kills, the
owner's changes and failures, nor that a signal is sent. `CalendarGateway!FairGatewaySpec` is weakly fair to the read under way and
to the next read, as the requests' timeouts and the poll loop are. A token is
given up only when time passes, and the clock ticks only in requests and between
reads; it cannot be disabled for ever, but a request can end at once, so the
clock has strong fairness: infinitely often enabled, it ticks. Nothing makes
Google revoke. `Deployment!FairSpec` is weakly fair to every process, to
systemd's restart and to the daemon's leaving its loop once told to stop.

### Deadlock

`Sync`, `CalendarGateway` and `Contract` never deadlock and are checked for it.
The other systems stop: one write cycle is over, a calendar has had its edits,
a command has ended and the budget of launches is spent, the owner has stopped
the unit.

## What is proved

With TLAPS, for all values of the constants that satisfy the named assumptions in
the modules. These are:

- the cap and the app's limit are natural numbers, calendars lists without
  repeats (`WantedHasNoRepeats` is why), initial walls the owner's
  (`Reconcile`, `Sync`, `Wall`, `Deployment`);
- the token's margin is no smaller than the timeout, and lifetimes are more than
  two timeouts, as the code's constants are (`CalendarGateway`); limits are natural
  numbers and a read may take at least one page (`CalendarRead`);
- a day has a length, and times and the offset are integers (`Parser`,
  `ParserCheck`);
- the documents are bodies (`Contract`), intervals and polls above zero (`RunLoop`);
- for `NothingSecretWritten` only, `SecretsAssumption` (`Commands`): any secret in a
  calendar or capture is one the rules can know. It stands under a key they name, or
  is recognised by a pattern or a term the owner gave, or is a coordinate; no name of
  a header or a query key is a secret. A short secret under an ordinary key that is
  no term is outside what `src/redaction.rs` can do.

The planner and the write protocol:

- `ReconcileCheckProofs!PlanIsTheLoopAlways`: the closed form of the plan, of
  which every other theorem speaks, is what the loops of `plan_with_cap` compute.
  By induction over the wanted list: after each number the kept list and the
  reported ones are the closed form's for what was gone through.
  `WantedAccountedForAlways`: every wanted number is placed or reported.
  `WriteKeepsUnownedAlways`: an unowned entry keeps its place among the others, and
  its stamp and toggles, on walls that may repeat a number.
- `ReconcileProofs!DesiredKeepsUnowned`, `AdditionsFitUnderCap`,
  `SettledPlanAsksNothing`: facts about every plan. The last says that a settled
  write is a fixed point, which is what keeps the daemon from writing at every poll.
  What a filtered list holds is proved by showing that ranks are a bijection.
- `SyncProofs!TypeCorrect`: `TypeOK` is inductive.
- `SyncProofs!PlansWithoutIntentAlways`. The invariant is `IntentInv`: besides
  the property, an intent is open from the POST to its settle. Each way into the
  phase `plan` passes through `Recover`, which leaves none open.
- `SyncProofs!OwnerEntriesStayAlways`, the promise to the owner. The property is
  not inductive: a late POST could remove an entry, a settle could put it in the
  journal and a later plan remove it. `OwnerInv` adds that every list that may
  yet reach the wall or the journal knows of it: the lists on their way, the
  document about to be sent, the snapshot a plan is made from, and the `before`
  of an open intent, which is what keeps `settle` from recording the entry as an
  addition.
- `SyncProofs!NoNumberTwiceAlways`. Every list that may become the wall,
  or the input of a plan, is free of repeats (`DistinctInv`: the app's copy, the
  snapshot, the document, the lists on their way, the calendar and what was read
  of it), and a plan made of such lists is
  (`ReconcileProofs!DesiredHasNoRepeats`: filtering keeps a list injective).
- `SyncProofs!PostDropsOnlyOwnedAlways`, an action property. `DocumentInv` says
  that the document about to be sent is the one planned from the snapshot and the
  journal in hand: nothing but a crash, which ends the cycle, touches what it was
  made from.
- `SyncProofs!JournalExactAlways` and `ImplementsAtomicSyncAlways`, for
  budgets without the app's edits, landings and late POSTs (`OnlyWriter`) and with
  any number of crashes, failures and calendar changes. `ExactInv` says that an
  open intent has been carried out wholly or not at all, and at which phases the
  snapshot is the wall; `ReconcileProofs!ChangedMeansOther`, that a plan which
  asks for anything asks for another list, is why the two can be told apart.

Many processes on one host:

- `DeploymentProofs!OnlyTheHolderIsInsideAlways`, `PlansWithoutIntentAlways`:
  for any number of processes, kills and restarts. `LockInv` says that whoever is
  inside holds the lock, and that an open intent has nobody at the phase `plan`;
  `ReadAndRecover` settles what a dead process left, and the lock keeps a living
  one's intent from appearing meanwhile. `ExitThreeWroteNothingAlways` follows
  from which codes each step can leave (`CodesInv`).
- `DeploymentProofs!JournalExactAlways`, `SecondSyncIsNoChangeAlways`,
  `ImplementsAtomicSyncAlways`: many processes keep one journal and are one
  `AtomicSync`. `HostInv` is `Sync`'s `ExactInv` split in two: what is true of the
  stores whoever runs (`StoreInv`), and what the one process inside the lock knows
  of them (`Knows`); a process outside knows nothing, which is why one may settle
  what another sent.

The client:

- `ContractProofs!TrustsTheContractAlways`, `OwnWriteIsCapturedAlways`,
  `SettingsLostOnlyInRaceAlways`, `DriftNeverOverwrittenAlways`: for any documents
  the vendor may make and lists of any length. `TrustsTheContract` is a fact about
  every body: if the gathered keys are the captured ones and each entry parses,
  each entry has exactly those keys. `ClientInv` adds that a POST under way carries
  a captured document, and that the settings it carries are the owner's unless it
  is marked stale; `FreshInv`, that an authoritative answer nothing has outdated
  says that the stored document is inside the contract.

The calendar:

- `CalendarGatewayProofs!TokenOutlivesRequestAlways`, whatever the pages hold.
  `TimesInv` bounds what the token has left by how long the request has been under
  way.
- `CalendarGatewayProofs!AuthoritativeIsCompleteAlways`,
  `FailsOnlyForCauseAlways`, for any number of pages of any length. `ReadInv` says
  that a read that has not failed holds every event of its pages, each once, that one
  under way was promised a further page, and that a finished one was not. Inside a
  page the same is said of the events gone through, or there is a reason why not
  (`Sound`, `Refused`): a malformed event, two that disagree, one too many. The
  second theorem is that these, a refused page and a failed request are all the
  reasons there are.
- `ParserProofs!WantedIsTheLoopAlways`: the closed form of the wanted numbers is
  what interpreting, grouping, merging, sorting and keeping first departures
  compute, for calendars of any length in any listing order. `WantedHasNoRepeatsAlways`:
  two claims on one number share a flight, of which one is kept.
  `TodaysDeparturesWantedAlways` and `DelayKeepsWantedAlways`, at any offset from
  UTC and for days of any length.

The commands:

- `StartupProofs!LoopInvAlways`, `CyclesSpacedAlways`, `StopHonouredAlways`:
  cycle spacing, and a stop that is prompt and lets at most one cycle begin, for all
  intervals. `LoopInv` ties the sleep to the deadline and the deadline to the
  interval.
- `NeverLocksItselfOutAlways`, `StateNeverExposedAlways`,
  `WritesOnlyIfAskedAlways`, `AcceptedIsUsableAlways`, `RestartsHonourStop`, for
  every configuration and disk and any number of launches, kills and changes. The
  invariant has a part for the files the program made (`MadeInv`), for what the
  stage says of the directory (`StageInv`), for what it says of the configuration
  (`ConfigInv`), and `LoopInv`.
- `EveryCommandSound`: all of that holds of `CommandsSpec`, because each of its
  steps is a step of `Startup`'s (`CommandsStepStarts`).
- `ManifestNamesWholeFilesAlways`, `NothingSecretWrittenAlways`. `FilesInv` says of
  the files yet to be written that each one names only files written or before it in
  the order, and shows no secret; of those written, that they were synced before
  their rename, so that no power loss tears them. What `SanitizeHar` leaves of a
  capture is by induction over its entries, and what scrubbing leaves of a value holds
  at every path, so for JSON of any depth.

Where the code loops over a list, the model has a recursive function `f[n]`, never
a recursive operator. The prover cannot instantiate the library's induction
theorems. So a proof about a loop goes through sets: those numbers up to which
the loop does as claimed hold 0 and the successor of each of theirs, and such a set
holds all natural numbers, as otherwise the least one left out has a predecessor
(`CountingUp`, from the well-foundedness of `<`). That the function exists and obeys
its equation is shown the same way, by its finite beginnings.

Only model-checked: liveness, which is out of the prover's reach (`Converges`,
`IntentsSettle`, `ReadEnds`, `RevokedTokenGivenUp`, `DaemonComesBack`,
`ProcessStops`), and the three runs that end in a violation. Every other property
of a passing run is a theorem.

## Not modelled

- Request headers, HTTP, TLS and token signing; the text of JSON; the wording of
  configuration, reasons, reports and logs; argument parsing.
- What the regular expressions match. A title is given by the shape they find, a
  text to be scrubbed by the marks in it; whether a pattern recognises what it
  should is for the unit tests. A term too large to compile, which
  `src/redaction.rs:107` drops without a word, is taken to be used.
- What `sanitize-capture` keeps as it is: JSON key names, hosts, methods, MIME
  types and status codes; and the `observed_hosts` it prints.
- The unused metadata table, what a migration changes, and the order in which a
  power loss may undo renames: a file that was renamed has its name, and only its
  content can be torn.
- A directory that the owner removes under two running processes, and so two
  journals over one wall.
- What a status other than 200 implies: it is taken, as in the code, to mean that
  nothing changed. The retry advice in `docs/flightwall-api.md`: the loop reads
  again at every poll.
- `Sync` and `Deployment` see only the list of tracked flights; the rest of the
  document is `Contract`'s. The re-read after an accepted POST is only reported by
  the code: `Sync` leaves it out, `Contract` has it.
- The systemd unit's hardening options.

Two behaviours met while modelling, which no document contradicts: a `dry_run`
cycle still settles an intent an earlier process left open
(`src/service/cycle.rs:233`), so it may write the journal; and a `state_path` that
is a bare file name is always refused (`src/config.rs:455`), because its parent is
the empty path.

## Plan

Done: the planner, the write protocol with the journal and the wall, the abstract
specification that both it and the processes of one host implement, the parser,
the reader with its gateway and token cache, the client's contract, the poll loop,
configuration, start-up and the state directory, every command and the files it
writes, and the theorems above.

Next, in this order:

1. The lemmas `Sync` and `Deployment` both use (what a cycle knows between its
   read and its settle), stated once in `ReconcileProofs`.
2. `Sync` as the cycle of each process of `Deployment`, in place of the coarser
   cycle there: owner, landings and late POSTs beside two processes.
3. The answer other than 200 to a POST that was stored (`src/flightwall/contract.rs:371`),
   as a variant of `Sync`'s rejected answer, to state what it would cost.
