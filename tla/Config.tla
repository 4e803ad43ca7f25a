------------------------------- MODULE Config -------------------------------
(***************************************************************************)
(* The TOML configuration, src/config.rs: what serde accepts and what the  *)
(* service is given.  A body is a function from the tables present to      *)
(* functions from the keys present to values.  A value is its TOML type, a *)
(* word for a string's form and a number; texts count only by their form:  *)
(* "plain", "padded" with blanks, "blank", "primary" (in any case), "url"  *)
(* (a slash or a colon) or "capitals".                                     *)
(***************************************************************************)
EXTENDS Integers

Value(type, word, n) == [type |-> type, word |-> word, n |-> n]
Whole(n) == Value("integer", "", n)
Text(word) == Value("string", word, 0)
Bool(word) == Value("boolean", word, 0)
Seconds(n) == Value("float", "", n)
NaN == Value("float", "nan", 0)

(* The structs: Google, Service, Storage, FlightWall, Limits. *)
Schema ==
    [google |-> {"calendar_id", "credentials_path"},
     service |-> {"poll_interval_seconds", "lookahead_days", "dry_run"},
     storage |-> {"state_path"},
     flightwall |-> {"credentials_path", "host", "timeout_seconds", "user_agent"},
     calendar_limits |-> {"max_pages", "max_events", "max_field_chars", "max_snapshot_bytes"}]

Tables == DOMAIN Schema

Within(min, max) == min .. max

(* The bounded::<_, MIN, MAX> of each integer. *)
Bounds ==
    [poll_interval_seconds |-> Within(30, 86400), lookahead_days |-> Within(1, 90),
     max_pages |-> Within(1, 100), max_events |-> Within(1, 10000),
     max_field_chars |-> Within(256, 1000000), max_snapshot_bytes |-> Within(1024, 100000000)]

(* Mutated form: refuses what is out of range instead of asking for what is in
   it; NaN compares false to everything. *)
TimeoutSecondsNegated(x) == x.type \in {"float", "integer"} /\ (x.word = "nan" \/ x.n \in 1 .. 120)

(* timeout_seconds; serde takes a whole number for a float. *)
TimeoutSeconds(x) == x.type \in {"float", "integer"} /\ x.word # "nan" /\ x.n \in 1 .. 120

TextKeys == {"calendar_id", "credentials_path", "state_path", "host", "user_agent"}

NonEmpty(x) == x.type = "string" /\ x.word # "blank"

(* user_path, non_empty_string, bounded, calendar_id, bare_hostname. *)
Admits(key, x) ==
    /\ key \in DOMAIN Bounds => x.type = "integer" /\ x.n \in Bounds[key]
    /\ key = "dry_run" => x.type = "boolean"
    /\ key = "timeout_seconds" => TimeoutSeconds(x)
    /\ key \in TextKeys => NonEmpty(x)
    /\ key = "calendar_id" => x.word # "primary"
    /\ key = "host" => x.word \notin {"padded", "url", "capitals"}

(* Strings and paths are stored trimmed. *)
Stored(x) == Value(x.type, IF x.word = "padded" THEN "plain" ELSE x.word, x.n)

(* The serde default of each key that has one. *)
FieldDefault ==
    [poll_interval_seconds |-> Whole(120), lookahead_days |-> Whole(7), dry_run |-> Bool("true"),
     host |-> Text("plain"), timeout_seconds |-> Seconds(15), user_agent |-> Text("plain"),
     max_pages |-> Whole(10), max_events |-> Whole(500),
     max_field_chars |-> Whole(8192), max_snapshot_bytes |-> Whole(1048576)]

(* Mutated form: #[derive(Default)]. *)
ServiceDefaultDerived ==
    [poll_interval_seconds |-> Whole(0), lookahead_days |-> Whole(0), dry_run |-> Bool("false")]

(* impl Default for Service, for Limits: what a table left out stands for.  A
   [flightwall] left out is None. *)
ServiceDefault ==
    [poll_interval_seconds |-> Whole(120), lookahead_days |-> Whole(7), dry_run |-> Bool("true")]
LimitsDefault ==
    [max_pages |-> Whole(10), max_events |-> Whole(500),
     max_field_chars |-> Whole(8192), max_snapshot_bytes |-> Whole(1048576)]

(* One table as written: no unknown key, every value admitted, no key missing
   that has no default. *)
TableAccepted(table, t) ==
    /\ DOMAIN t \subseteq Schema[table]
    /\ \A key \in DOMAIN t : Admits(key, t[key])
    /\ Schema[table] \subseteq DOMAIN t \cup DOMAIN FieldDefault

(* AppConfig::from_toml_str succeeds. *)
Accepted(body) ==
    /\ {"google", "storage"} \subseteq DOMAIN body
    /\ DOMAIN body \subseteq Tables
    /\ \A table \in DOMAIN body : TableAccepted(table, body[table])

Filled(table, t) ==
    [key \in Schema[table] |-> IF key \in DOMAIN t THEN Stored(t[key]) ELSE FieldDefault[key]]

(* The AppConfig of an accepted body. *)
AppConfig(body) ==
    [table \in DOMAIN body \cup {"service", "calendar_limits"} |->
        IF table \in DOMAIN body THEN Filled(table, body[table])
        ELSE IF table = "service" THEN ServiceDefault
        ELSE LimitsDefault]

(* The CalendarLimits the reader is given: a negative number becomes zero. *)
CalendarLimits(config) ==
    [key \in Schema.calendar_limits |->
        IF config.calendar_limits[key].n < 0 THEN 0 ELSE config.calendar_limits[key].n]

-----------------------------------------------------------------------------
(* What the program takes from a configuration without looking again: a poll
   interval and a window the conversions of src/cli.rs keep, limits under which
   a read can succeed, and a timeout Duration::from_secs_f64 does not panic at. *)
Usable(config) ==
    /\ config.service.poll_interval_seconds.n > 0
    /\ config.service.lookahead_days.n > 0
    /\ \A key \in Schema.calendar_limits : CalendarLimits(config)[key] > 0
    /\ "flightwall" \in DOMAIN config =>
        LET timeout == config.flightwall.timeout_seconds
        IN  timeout.word # "nan" /\ timeout.n > 0
=============================================================================
