----------------------------- MODULE CommandsMC -----------------------------
(***************************************************************************)
(* Small instances of the commands: a sound installation, and each way it  *)
(* can differ from one.                                                    *)
(***************************************************************************)
EXTENDS Commands, TLC

(* The texts of config.toml. *)

Google == [calendar_id |-> Text("plain"), credentials_path |-> Text("padded")]
Storage == [state_path |-> Text("plain")]
FlightWall == [credentials_path |-> Text("plain")]

Least == [google |-> Google, storage |-> Storage]
Quiet == [google |-> Google, storage |-> Storage, flightwall |-> FlightWall]
Sound ==
    [google |-> Google, storage |-> Storage, flightwall |-> FlightWall,
     service |-> [dry_run |-> Bool("false")]]

With(body, table, t) == [u \in DOMAIN body \cup {table} |-> IF u = table THEN t ELSE body[u]]

(* Numbers on, inside and outside each bound, and types that are not numbers. *)
Oddities ==
    {With(Sound, "service", [poll_interval_seconds |-> Whole(n)]) : n \in {-1, 0, 29, 30, 86400, 86401}}
    \cup {With(Sound, "service", [lookahead_days |-> Whole(n), dry_run |-> Bool("true")]) : n \in {0, 1, 91}}
    \cup {With(Sound, "calendar_limits", [max_pages |-> Whole(n)]) : n \in {-1, 0, 1, 101}}
    \cup {With(Sound, "flightwall", [credentials_path |-> Text("plain"), timeout_seconds |-> x]) :
            x \in {NaN, Seconds(0), Seconds(-1), Seconds(120), Seconds(121), Whole(5), Text("plain")}}
    \cup {With(Sound, "flightwall", [credentials_path |-> Text("plain"), host |-> Text(word)]) :
            word \in {"plain", "padded", "url"}}
    \cup {With(Sound, "google", [calendar_id |-> Text(word), credentials_path |-> Text("plain")]) :
            word \in {"primary", "blank"}}
    \cup {With(Sound, "storage", [state_path |-> Text(word)]) : word \in {"bare", "blank"}}
    \cup {With(Sound, "serivce", [dry_run |-> Bool("false")]),
          With(Sound, "service", [dryrun |-> Bool("false")]),
          With(Sound, "flightwall", [host |-> Text("plain")]), [google |-> Google]}

(* What is on the disk at first. *)
Fresh == [p \in Paths |-> IF p \in StateFiles \cup {"dir", "lock"} THEN "absent" ELSE "private"]
Unsound(p, mode) == [Fresh EXCEPT ![p] = mode]
Used == [p \in Paths |-> "private"]

Disks ==
    {Fresh, Used}
    \cup {Unsound("dir", mode) : mode \in {"private", "loose", "readonly", "special"}}
    \cup {[Used EXCEPT ![p] = mode] : p \in {"db", "lock"}, mode \in {"loose", "readonly", "special", "garbled"}}
    \cup {Unsound("above", "readonly")}
    \cup {Unsound(p, mode) : p \in {"config", "google_key", "wall_creds"},
                             mode \in {"loose", "readonly", "garbled", "special", "absent"}}

Situation(command, flag, body, d, limit) ==
    [command |-> command, apply_flag |-> flag, body |-> body, disk |-> d, limit |-> limit]

Once == [launch |-> 1, kill |-> 0, edit |-> 0, fault |-> 0]
OneOfEach == [launch |-> 2, kill |-> 1, edit |-> 1, fault |-> 1]
Twice == [launch |-> 3, kill |-> 2, edit |-> 2, fault |-> 1]

(* Captures: secrets in every place a message has, two hosts, an entry that was
   never answered, bodies of each kind. *)
Marks == {"email", "jwt", "friend", "short", "coordinate"}

Flight == <<Key("flights"), Item(0)>>

Nested ==
    <<>> :> Object
        @@ <<Key("flights")>> :> Array
        @@ Flight :> Object
        @@ Append(Flight, OtherCase("token")) :> String({"short"})
        @@ Append(Flight, Key("note")) :> String({"email", "friend"})
        @@ <<Key("flights"), Item(1)>> :> Float({"coordinate"})
        @@ <<Key("session")>> :> Array
        @@ <<Key("session"), Item(0)>> :> String({"short"})
        @@ <<Key("count")>> :> Other

NoBody == [size |-> "none", json |-> FALSE, value |-> Leaf(Other)]
JsonBody == [size |-> "fits", json |-> TRUE, value |-> Nested]
TextBody == [size |-> "fits", json |-> FALSE, value |-> Leaf(String(Marks))]
HugeBody == [size |-> "oversized", json |-> TRUE, value |-> Nested]

Pairs == {[name |-> {"x-key"}, value |-> {"short"}], [name |-> {}, value |-> {"jwt"}]}
Url(host) == [scheme |-> TRUE, user |-> {"short"}, host |-> host, path |-> {"flights", "email", "friend"}]
BareUrl == [scheme |-> FALSE, user |-> {"email"}, host |-> "", path |-> {"friend"}]

Raw(url, sent, got) ==
    [object |-> TRUE, whole |-> TRUE, method |-> "POST", url |-> url, query |-> Pairs,
     sent |-> [headers |-> Pairs, body |-> sent], got |-> [headers |-> Pairs, body |-> got]]

Wanted == Raw(Url("wall"), JsonBody, JsonBody)
Elsewhere == Raw(Url("maps"), HugeBody, TextBody)
Unanswered == [Wanted EXCEPT !.whole = FALSE]
NoObject == [Wanted EXCEPT !.object = FALSE]

Archive(entries) == [log |-> TRUE, list |-> TRUE, entries |-> entries]
Given(document, hosts) == [document |-> document, terms |-> {"friend", ""}, hosts |-> hosts]

SomeCaptures ==
    {Given(Archive(<<Wanted, Elsewhere>>), {}), Given(Archive(<<Unanswered, Wanted>>), {"wall"}),
     Given(Archive(<<Raw(BareUrl, NoBody, TextBody)>>), {}), Given(Archive(<<Elsewhere>>), {"wall"}),
     Given(Archive(<<Wanted, NoObject>>), {}), Given([Archive(<<Wanted>>) EXCEPT !.log = FALSE], {})}

SomeEvents ==
    {<<>> :> Object
        @@ <<Key("id")>> :> String({"short"})
        @@ <<Key("summary")>> :> String({"friend", "booking"})
        @@ <<Key("attendees")>> :> Array
        @@ <<Key("attendees"), Item(0)>> :> Object
        @@ <<Key("attendees"), Item(0), Key("email")>> :> String({"short"}),
     <<>> :> Object @@ <<Key("id")>> :> Other @@ <<Key("location")>> :> Float({"coordinate"})}

SomeCalendars == {[events |-> events, terms |-> {"friend"}] : events \in SUBSET SomeEvents}

AllSituations ==
    {Situation("sync", f, b, Used, Once) : f \in BOOLEAN, b \in Oddities \cup {Least, Quiet, Sound}}
    \cup {Situation(c, FALSE, b, Used, Once) : c \in {"run", "probe", "inspect"}, b \in {Least, Quiet, Sound}}
    \cup {Situation("inspect", FALSE, Sound, d, Once) : d \in Disks}
    \cup {Situation("sync", FALSE, Sound, d, OneOfEach) : d \in Disks}
    \cup {Situation("sync", FALSE, Sound, Fresh, Twice)}
    \cup {Situation("run", FALSE, Sound, d, OneOfEach) : d \in {Fresh, Unsound("dir", "loose")}}
    \cup {Situation(c, FALSE, Sound, Used, [Twice EXCEPT !.edit = 0]) : c \in {"inspect", "sanitize"}}
=============================================================================
