------------------------------- MODULE Capture -------------------------------
(***************************************************************************)
(* A HAR capture made into fixtures, src/capture.rs.  A message is its     *)
(* header names and values and its body; a URL is in the parts split_url   *)
(* tells apart.                                                            *)
(***************************************************************************)
EXTENDS Redaction

SensitiveBodyKeys ==
    {"access_token", "api_key", "apikey", "authorization", "client_secret", "id_token",
     "password", "refresh_token", "secret", "signature", "token",
     "account_id", "accountid", "device_id", "deviceid", "device_token", "email", "phone",
     "push_token", "serial", "serial_number", "session", "session_id", "user_id", "userid",
     "lat", "latitude", "lng", "lon", "longitude"}

(* split_url: user, query and fragment fall away; without a scheme there is no
   host and all the rest is path. *)
HostOf(url) == IF url.scheme THEN url.host ELSE ""
PathOf(url) == IF url.scheme THEN url.path ELSE url.user \cup url.path

(* header_names, query_keys: the names that are not empty. *)
Names(pairs) == {pair.name : pair \in {p \in pairs : p.name # {}}}

(* body: only decoded JSON of a bounded size is kept, scrubbed; empty, oversized
   and undecoded texts are left out. *)
Body(body, rules) ==
    IF body.size = "fits" /\ body.json THEN ScrubValue(rules, body.value)
    ELSE IF body.size = "none" THEN Leaf(Other)
    ELSE Leaf(String({}))

(* entry: its position in the capture and what is kept of it. *)
Entry(index, raw, rules) ==
    [index |-> index,
     method |-> raw.method,
     host |-> HostOf(raw.url),
     path |-> ScrubText(rules, PathOf(raw.url)),
     names |-> UNION (Names(raw.query) \cup Names(raw.sent.headers) \cup Names(raw.got.headers)),
     bodies |-> Shown(Body(raw.sent.body, rules)) \cup Shown(Body(raw.got.body, rules))]

(* CaptureEntry::filename; the index keeps names apart whose paths are alike. *)
Filename(entry) == <<entry.index, entry.method, entry.path>>

ManifestName == <<0, "manifest", {}>>

(* entries: the archive has a log, a list of entries, and each is an object. *)
IsArchive(document) ==
    /\ document.log
    /\ document.list
    /\ \A i \in DOMAIN document.entries : document.entries[i].object

(* Entries without a request or a response are skipped, and those of other
   hosts; the rest keep their position as index. *)
Chosen(raw, hosts) == raw.whole /\ (hosts = {} \/ HostOf(raw.url) \in hosts)

KeepEntry(kept, index, raw, rules, hosts) ==
    IF Chosen(raw, hosts) THEN Append(kept, Entry(index, raw, rules)) ELSE kept

(* sanitize_har, entry by entry. *)
SanitizeHar(document, terms, hosts) ==
    LET rules == Rules(terms, {}, SensitiveBodyKeys)
        after[i \in 0..Len(document.entries)] ==
            IF i = 0 THEN <<>>
            ELSE KeepEntry(after[i - 1], i, document.entries[i], rules, hosts)
    IN  after[Len(document.entries)]

(* One file: what can be read in it, and the files it names. *)
EntryFile(entry) ==
    [name |-> Filename(entry), text |-> entry.path \cup entry.names \cup entry.bodies, lists |-> {}]

(* manifest: every entry by its file; the paths are scrubbed once more. *)
Manifest(entries, terms) ==
    [name |-> ManifestName,
     text |-> UNION {ScrubText(Rules(terms, {}, {}), entries[k].path) : k \in DOMAIN entries},
     lists |-> {Filename(entries[k]) : k \in DOMAIN entries}]
=============================================================================
