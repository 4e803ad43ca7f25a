------------------------------- MODULE Contract -------------------------------
(***************************************************************************)
(* The FlightWall client of src/flightwall/ against a private document     *)
(* whose shape the vendor may change at any time: which answers it trusts, *)
(* and what a write does to the parts of the document that are not its     *)
(* own.  A POST replaces the whole document (docs/flightwall-api.md 3.1).  *)
(*                                                                         *)
(* A body is a record: whether it is a JSON object, its top-level keys,    *)
(* display_config.model, whether tracked_flights is a list, its entries,   *)
(* and `settings`, which stands for everything else in the document.  An   *)
(* entry has keys, a number, and `typed`: its captured fields have their   *)
(* types.                                                                  *)
(***************************************************************************)
EXTENDS Naturals, Sequences, Functions

CONSTANTS Numbers,    \* flight numbers
          Settings,   \* what the owner may set
          Cap,        \* MAX_TRACKED_FLIGHTS
          Documents   \* what the vendor may make of the stored document

IsBody(b) ==
    b = [object |-> b.object, keys |-> b.keys, model |-> b.model, list |-> b.list,
         entries |-> b.entries, settings |-> b.settings]

ASSUME DocumentsAssumption == \A d \in Documents : IsBody(d)

VARIABLES server,     \* the stored document
          inflight,   \* POSTs that may yet be stored: [body, stale]
          phase,      \* where the client is
          heard       \* the answer its snapshot was made from: [status, body]

(* Auxiliary: never read by the client. *)
VARIABLES chosen,     \* the settings the owner last saved
          stale,      \* others changed the document since the client's read
          lost,       \* a write brought back settings older than `chosen`
          ours        \* the stored document is the daemon's, shape and all

auxVars == <<chosen, stale, lost, ours>>
vars == <<server, inflight, phase, heard, auxVars>>

DocumentKeys == {"display_config", "request_config", "version"}
DocumentKeysAfterWrite == DocumentKeys \cup {"meta"}
TrackedFlightKeys ==
    {"created_at", "flight_number", "show_distance_travelled", "show_metrics"}

-----------------------------------------------------------------------------
(* inspect, and what a read makes of an answer. *)

(* tracked_flight: all four fields, of their types; more keys do not matter. *)
Parses(e) == TrackedFlightKeys \subseteq e.keys /\ e.typed

(* Mutated form: the keys every entry has. *)
CommonKeys(body) ==
    {k \in UNION {e.keys : e \in Range(body.entries)} :
        \A e \in Range(body.entries) : k \in e.keys}

(* The keys of all entries, gathered into one set. *)
EntryKeys(body) == UNION {body.entries[i].keys : i \in DOMAIN body.entries}

(* Mutated form: what stands at the top level does not matter. *)
DriftInside(body) ==
    \/ body.model # "mini-v1"
    \/ EntryKeys(body) \notin {{}, TrackedFlightKeys}

(* Fingerprint::drift. *)
Drift(body) ==
    \/ body.model # "mini-v1"
    \/ body.keys \notin {DocumentKeys, DocumentKeysAfterWrite}
    \/ EntryKeys(body) \notin {{}, TrackedFlightKeys}

Inspected(body) ==
    /\ body.object
    /\ "request_config" \in body.keys
    /\ body.list
    /\ \A i \in DOMAIN body.entries : Parses(body.entries[i])
    /\ ~Drift(body)

(* classify_status passes nothing but 200. *)
Authoritative(answer) == answer.status = 200 /\ Inspected(answer.body)

(* The transport decodes what is no JSON, and an empty body, to {}. *)
Nothing == [object |-> TRUE, keys |-> {}, model |-> "missing", list |-> FALSE,
            entries |-> <<>>, settings |-> "none"]
NotObject == [object |-> FALSE, keys |-> {}, model |-> "missing", list |-> FALSE,
              entries |-> <<>>, settings |-> "none"]

(* A transport error has no status. *)
NoAnswer == [status |-> 0, body |-> Nothing]

(* What a GET may hear of the stored document, with `meta` once it was POSTed. *)
Answers(document) ==
    {NoAnswer} \cup [status : {200, 401, 403, 500}, body : {Nothing, NotObject}]
    \cup [status : {200}, body : {document, [document EXCEPT !.keys = @ \cup {"meta"}]}]

-----------------------------------------------------------------------------
(* TrackedFlight::as_payload. *)
AsPayload(number) == [keys |-> TrackedFlightKeys, typed |-> TRUE, number |-> number]

(* Mutated form: an entry goes back without its timestamp. *)
DocumentUnstamped(body, list) ==
    [body EXCEPT !.keys = @ \ {"meta"},
                 !.entries = [i \in DOMAIN list |->
                     [AsPayload(list[i]) EXCEPT !.keys = @ \ {"created_at"}]]]

(* document_for_write: the document as it was read, without `meta`, with the
   new list.  The server does not store the `userId` a POST carries. *)
DocumentForWrite(body, list) ==
    [body EXCEPT !.keys = @ \ {"meta"},
                 !.entries = [i \in DOMAIN list |-> AsPayload(list[i])]]

-----------------------------------------------------------------------------
Captured(body) ==
    /\ body.object /\ body.list
    /\ body.model = "mini-v1"
    /\ body.keys \in {DocumentKeys, DocumentKeysAfterWrite}
    /\ \A i \in DOMAIN body.entries :
            body.entries[i].keys = TrackedFlightKeys /\ body.entries[i].typed

Init ==
    /\ server \in {d \in Documents : Captured(d)}
    /\ inflight = {}
    /\ phase = "idle"
    /\ heard = NoAnswer
    /\ chosen = server.settings
    /\ stale = FALSE
    /\ lost = FALSE
    /\ ours = FALSE

(* Mutated form: a failed read leaves the snapshot of the last one. *)
ReadOrRemember ==
    /\ phase = "idle"
    /\ phase' = "holding"
    /\ heard' \in (Answers(server) \ {NoAnswer}) \cup {heard}
    /\ stale' = FALSE
    /\ UNCHANGED <<server, inflight, chosen, lost, ours>>

(* read, for a plan. *)
Read ==
    /\ phase = "idle"
    /\ phase' = "holding"
    /\ heard' \in Answers(server)
    /\ stale' = FALSE
    /\ UNCHANGED <<server, inflight, chosen, lost, ours>>

(* Nothing to write, or the client refuses: the snapshot is not authoritative,
   or the list is too long. *)
NotWritten ==
    /\ phase = "holding"
    /\ phase' = "idle"
    /\ UNCHANGED <<server, inflight, heard, auxVars>>

(* What replace_tracked_flights may send, for the lists a caller may ask for. *)
Sendable ==
    {DocumentForWrite(heard.body, list) : list \in UNION {[1..k -> Numbers] : k \in 0..Cap}}

PostStep(next) ==
    /\ phase = "holding"
    /\ Authoritative(heard)
    /\ phase' = next
    /\ UNCHANGED <<heard, chosen>>

(* The server stores a document of the daemon's. *)
Store(document, outdated) ==
    /\ server' = document
    /\ lost' = (lost \/ outdated)
    /\ ours' = TRUE

(* 200, whatever the body: the write counts as applied. *)
PostAccepted ==
    /\ PostStep("reread")
    /\ \E document \in Sendable : Store(document, stale)
    /\ UNCHANGED <<inflight, stale>>

(* Any other status: nothing changed, and the snapshot is returned as it was. *)
PostRejected ==
    /\ PostStep("idle")
    /\ UNCHANGED <<server, inflight, stale, lost, ours>>

(* No status: a timeout, a refused redirect, a body cut short.  The document
   was stored, or was not, or is still on its way. *)
PostUnanswered ==
    /\ PostStep("reread")
    /\ \/ /\ \E document \in Sendable : Store(document, stale)
          /\ UNCHANGED inflight
       \/ UNCHANGED <<server, inflight, lost, ours>>
       \/ /\ inflight = {}
          /\ \E document \in Sendable : inflight' = {[body |-> document, stale |-> stale]}
          /\ UNCHANGED <<server, lost, ours>>
    /\ UNCHANGED stale

(* The read after a write, for its result; no write is made from it. *)
Reread ==
    /\ phase = "reread"
    /\ phase' = "idle"
    /\ heard' \in Answers(server)
    /\ UNCHANGED <<server, inflight, auxVars>>

-----------------------------------------------------------------------------
(* Everyone else. *)

ArrivesLate ==
    /\ \E post \in inflight : Store(post.body, post.stale) /\ inflight' = inflight \ {post}
    /\ stale' = TRUE
    /\ UNCHANGED <<phase, heard, chosen>>

Outdate ==
    /\ stale' = TRUE
    /\ inflight' = {[post EXCEPT !.stale = TRUE] : post \in inflight}

(* The owner saves settings in the app. *)
OwnerSaves ==
    /\ chosen' \in Settings
    /\ server' = [server EXCEPT !.settings = chosen']
    /\ lost' = FALSE
    /\ Outdate
    /\ UNCHANGED <<phase, heard, ours>>

(* The app edits the list, the server drops a landed flight, or the vendor
   moves the contract or moves it back. *)
DocumentChanges ==
    /\ server' \in {d \in Documents : d.settings = server.settings}
    /\ ours' = FALSE
    /\ Outdate
    /\ UNCHANGED <<phase, heard, chosen, lost>>

Next ==
    \/ Read \/ NotWritten \/ PostAccepted \/ PostRejected \/ PostUnanswered \/ Reread
    \/ ArrivesLate \/ OwnerSaves \/ DocumentChanges

Spec == Init /\ [][Next]_vars

-----------------------------------------------------------------------------
(* A snapshot is authoritative exactly if the answer was the captured contract
   of docs/flightwall-api.md 7, checked entry by entry: gathering the keys of
   all entries hides neither a missing key of one entry nor an added key of
   another, and no good document is refused. *)
TrustsTheContract ==
    Authoritative(heard) <=> heard.status = 200 /\ Captured(heard.body)

(* A drifted document is never overwritten, unless it drifted after the
   client's read (src/flightwall/contract.rs:23 "the client then refuses to
   write"). *)
DriftNeverOverwritten ==
    [][ (phase = "holding" /\ ~stale /\ server' # server /\ phase' = "reread")
        => Captured(server) ]_vars

(* What the daemon stored it can read again: its own write never moves the
   document outside the contract, so it never locks itself out. *)
OwnWriteIsCaptured == ours => Captured(server)

(* "A POST replaces the whole document": still, the owner's settings are lost
   only if they were saved between the read a write was made from and its
   arrival, never to a failed read, a refusal or a retry
   (src/flightwall/client.rs:82-88). *)
SettingsLostOnlyInRace == server.settings = chosen \/ lost
=============================================================================
