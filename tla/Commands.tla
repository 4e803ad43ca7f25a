------------------------------ MODULE Commands ------------------------------
(***************************************************************************)
(* The commands of src/cli.rs: sync and run are Startup's; here are        *)
(* probe-wall, inspect-calendar and sanitize-capture, and the way the last *)
(* two write their files (atomic_private_json).  The files outlive the     *)
(* process; a kill may also be a loss of power, after which what was not   *)
(* synced is torn.                                                         *)
(***************************************************************************)
EXTENDS Startup, Capture, Functions

CONSTANTS Captures,    \* the archives the owner may name, each with terms and hosts
          Calendars,   \* the events a calendar may hold, each list with terms
          Secrets      \* the marks of what must not be in a fixture

(* A capture's list of entries has any length. *)
ASSUME CapturesAssumption ==
    \A c \in Captures : IsArchive(c.document) =>
        c.document.entries \in Seq(Range(c.document.entries))

(* What the rules can know of a text: what a pattern or a term recognises in it. *)
Recognised(rules) == {Patterns[i] : i \in DOMAIN Patterns} \cup rules.terms

(* Any secret at a path of a value is under a key that the rules name, or shows
   itself to a pattern or a term, or is a coordinate. *)
KnownAt(rules, v, p) ==
    \/ \E i \in DOMAIN p :
          \/ \E word \in rules.dropped : p[i] = Key(word)
          \/ \E word \in rules.redacted : p[i] \in {Key(word), OtherCase(word)}
    \/ v[p].kind = "string" /\ v[p].text \cap Secrets \subseteq Recognised(rules)
    \/ v[p].kind = "float" /\ v[p].text \cap Secrets \subseteq {"coordinate"}
    \/ v[p].text \cap Secrets = {}

(* An event's own id, if it is a string, is hidden whatever it is. *)
KnownEvent(event, terms) ==
    \A p \in DOMAIN event :
        \/ p = <<Key("id")>> /\ event[p].kind = "string"
        \/ KnownAt(Rules(terms, DroppedFixtureKeys, {}), event, p)

(* Names are kept as they are, so none may be a secret; a body that is no decoded
   JSON is left out, so it may be anything. *)
KnownMessage(raw, rules) ==
    /\ PathOf(raw.url) \cap Secrets \subseteq Recognised(rules)
    /\ \A name \in Names(raw.query) \cup Names(raw.sent.headers) \cup Names(raw.got.headers) :
            name \cap Secrets = {}
    /\ \A body \in {raw.sent.body, raw.got.body} :
            (body.size = "fits" /\ body.json) =>
                \A p \in DOMAIN body.value : KnownAt(rules, body.value, p)

(* What the rules cannot know is a secret that looks like nothing, is no term
   and stands under no key they name. *)
ASSUME SecretsAssumption ==
    /\ \A calendar \in Calendars : \A event \in calendar.events : KnownEvent(event, calendar.terms)
    /\ \A c \in {d \in Captures : IsArchive(d.document)} : \A raw \in Range(c.document.entries) :
            Chosen(raw, c.hosts) => KnownMessage(raw, Rules(c.terms, {}, SensitiveBodyKeys))

VARIABLES todo,   \* the files the command has yet to write
          temp,   \* the temporary file being written
          out,    \* the files written, by name
          litter  \* what can be read in temporary files nobody removed

outVars == <<todo, temp, out, litter>>
everyVar == <<allVars, outVars>>

NoTemp == [step |-> "none", text |-> {}]

CommandsInit ==
    /\ StartInit
    /\ todo = <<>>
    /\ temp = NoTemp
    /\ out = [name \in {} |-> 0]
    /\ litter = {}

(* A step of Startup's that writes no file. *)
Quietly(A) == A /\ UNCHANGED outVars

(* The rest of the process's memory goes with it; its temporary file is removed
   on the way out. *)
Leave(reason) ==
    /\ Refuse(reason)
    /\ todo' = <<>>
    /\ temp' = NoTemp
    /\ UNCHANGED <<out, litter>>

BeginWriting(from, files) ==
    /\ Move(from, "write")
    /\ todo' = files
    /\ UNCHANGED <<vars, call, fileVars, txn, left, why, posted, temp, out, litter>>

-----------------------------------------------------------------------------
(* probe-wall: one read, and a report of it. *)
ProbeWall == at = "ask" /\ call.command = "probe" /\ \E reason \in {"nothing", "input"} : Leave(reason)

FixtureName == <<0, "fixture", {}>>

Fixture(calendar) ==
    [name |-> FixtureName,
     text |-> UNION {Shown(SanitizeEvent(event, calendar.terms)) : event \in calendar.events},
     lists |-> {}]

(* inspect-calendar: one read of the window, one file. *)
InspectCalendar ==
    /\ at = "ask"
    /\ call.command = "inspect"
    /\ \/ Leave("input")
       \/ \E calendar \in Calendars : BeginWriting("ask", <<Fixture(calendar)>>)

(* Mutated form: the manifest comes first. *)
ManifestFirst(entries, terms) ==
    <<Manifest(entries, terms)>> \o [k \in DOMAIN entries |-> EntryFile(entries[k])]

(* Each entry's file, then the manifest. *)
FilesToWrite(entries, terms) ==
    [k \in DOMAIN entries |-> EntryFile(entries[k])] \o <<Manifest(entries, terms)>>

(* sanitize-capture: the whole archive is read and scrubbed before anything is
   written; if nothing matches nothing is. *)
SanitizeCapture ==
    /\ at = "capture"
    /\ \E c \in Captures :
        LET entries == SanitizeHar(c.document, c.terms, c.hosts)
        IN  IF ~IsArchive(c.document) THEN Leave("input")
            ELSE IF entries = <<>> THEN Leave("nothing")
            ELSE BeginWriting("capture", FilesToWrite(entries, c.terms))

-----------------------------------------------------------------------------
(* atomic_private_json, for the first file of todo. *)

Writing == at = "write" /\ todo # <<>> /\ UNCHANGED allVars

MakeTemp ==
    /\ Writing
    /\ temp.step = "none"
    /\ temp' = [step |-> "made", text |-> {}]
    /\ UNCHANGED <<todo, out, litter>>

FillTemp ==
    /\ Writing
    /\ temp.step = "made"
    /\ temp' = [step |-> "filled", text |-> Head(todo).text]
    /\ UNCHANGED <<todo, out, litter>>

SyncTemp ==
    /\ Writing
    /\ temp.step = "filled"
    /\ temp' = [temp EXCEPT !.step = "synced"]
    /\ UNCHANGED <<todo, out, litter>>

Written(state) ==
    LET file == [text |-> temp.text, lists |-> Head(todo).lists, state |-> state]
    IN  out' = [name \in DOMAIN out \cup {Head(todo).name} |->
                    IF name = Head(todo).name THEN file ELSE out[name]]

(* Mutated form: the sync is left out. *)
PersistUnsynced ==
    /\ Writing
    /\ temp.step = "filled"
    /\ Written("buffered")
    /\ todo' = Tail(todo)
    /\ temp' = NoTemp
    /\ UNCHANGED litter

(* The rename; the file keeps the 0600 of the temporary one. *)
Persist ==
    /\ Writing
    /\ temp.step = "synced"
    /\ Written("synced")
    /\ todo' = Tail(todo)
    /\ temp' = NoTemp
    /\ UNCHANGED litter

(* Any of these calls may fail: the command ends, with what it has written. *)
WriteFails ==
    /\ at = "write"
    /\ todo # <<>>
    /\ Spend("fault")
    /\ Gone
    /\ why' = "output"
    /\ todo' = <<>>
    /\ temp' = NoTemp
    /\ UNCHANGED <<call, disk, mine, posted, out, litter>>

Done == at = "write" /\ todo = <<>> /\ Leave("nothing")

(* A kill leaves the temporary file; a power loss also tears what is in memory. *)
KillCommand ==
    /\ Kill
    /\ todo' = <<>>
    /\ temp' = NoTemp
    /\ litter' = litter \cup temp.text
    /\ \/ UNCHANGED out
       \/ out' = [name \in DOMAIN out |->
                    IF out[name].state = "buffered" THEN [out[name] EXCEPT !.state = "torn"] ELSE out[name]]

WriteFile == MakeTemp \/ FillTemp \/ SyncTemp \/ Persist

Working == ProbeWall \/ InspectCalendar \/ SanitizeCapture \/ WriteFile \/ Done

CommandsNext ==
    \/ Quietly(Launch) \/ Quietly(Starting) \/ Quietly(UseStore) \/ Quietly(WriteWall)
    \/ Quietly(Running) \/ Quietly(OpenFails) \/ Quietly(StoreFails) \/ Quietly(StopSignal) \/ Quietly(OwnerEdits)
    \/ Working \/ WriteFails \/ KillCommand

CommandsSpec == CommandsInit /\ [][CommandsNext]_everyVar

(* The process is scheduled, its clock runs, and its calls return. *)
FairCommandsSpec == CommandsSpec /\ WF_everyVar(Quietly(Starting \/ Running) \/ Working)

-----------------------------------------------------------------------------
(* No secret can be read in any file a command leaves, the temporary ones of
   killed commands included. *)
NothingSecretWritten ==
    /\ \A name \in DOMAIN out : out[name].text \cap Secrets = {}
    /\ (temp.text \cup litter) \cap Secrets = {}

(* Once there is a manifest, every file it names is there and whole, whatever
   runs were cut short before or after it was written. *)
ManifestNamesWholeFiles ==
    \A name \in DOMAIN out :
        /\ out[name].state # "torn"
        /\ out[name].lists \subseteq DOMAIN out
=============================================================================
