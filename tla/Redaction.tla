------------------------------ MODULE Redaction ------------------------------
(***************************************************************************)
(* The scrubbing of src/redaction.rs, and its use on calendar events       *)
(* (sanitize_event_payload of src/calendar.rs).  A text is the set of      *)
(* things in it that a rule or a reader could recognise, its marks.  A     *)
(* JSON value is what stands at each of its paths, the path of keys and    *)
(* positions that leads there from the whole value, <<>>.                  *)
(***************************************************************************)
EXTENDS Integers, Sequences

(* What each built-in pattern recognises, in the order they are applied. *)
Patterns == <<"email", "url", "jwt", "uuid", "credential", "opaque", "booking", "seat", "coordinate">>

(* A key is a word, spelled as the code's lists spell it or in another case. *)
Key(word) == [word |-> word, exact |-> TRUE]
OtherCase(word) == [word |-> word, exact |-> FALSE]
Item(n) == [position |-> n]

(* What stands at a path. *)
Node(kind, text) == [kind |-> kind, text |-> text]
String(text) == Node("string", text)
Float(text) == Node("float", text)
Other == Node("other", {})
Object == Node("object", {})
Array == Node("array", {})

(* A value with nothing inside. *)
Leaf(node) == [p \in {<<>>} |-> node]

(* Rules: with_terms ignores an empty term. *)
Rules(terms, dropped, redacted) ==
    [terms |-> terms \ {""}, dropped |-> dropped, redacted |-> redacted]

(* Mutated form: the redacted keys are matched exactly. *)
RedactedKeysExactly(rules) == {Key(word) : word \in rules.redacted}

(* dropping_keys are matched exactly, redacting_keys in any case. *)
DroppedKeys(rules) == {Key(word) : word \in rules.dropped}
RedactedKeys(rules) == {Key(word) : word \in rules.redacted} \cup {OtherCase(word) : word \in rules.redacted}

(* Rules::scrub_text: every pattern, then every term. *)
ScrubText(rules, text) == (text \ {Patterns[i] : i \in DOMAIN Patterns}) \ rules.terms

(* scrub_value of a leaf, and scrub_float: a float is a coordinate by its whole
   rendering; integers, booleans and null are kept. *)
ScrubNode(rules, node) ==
    CASE node.kind = "string" -> String(ScrubText(rules, node.text))
      [] node.kind = "float" -> Float(node.text \ {"coordinate"})
      [] OTHER -> node

(* Rules::scrub_value and scrub_object, at every depth: a dropped key goes with
   what is under it, a redacted one keeps its name and nothing else. *)
ScrubValue(rules, v) ==
    LET kept == {p \in DOMAIN v :
                    /\ \A i \in DOMAIN p : p[i] \notin DroppedKeys(rules)
                    /\ \A i \in DOMAIN p : p[i] \in RedactedKeys(rules) => i = Len(p)}
    IN  [p \in kept |-> IF \E i \in DOMAIN p : p[i] \in RedactedKeys(rules)
                        THEN String({}) ELSE ScrubNode(rules, v[p])]

(* Everything that can be read in a value. *)
Shown(v) == UNION {v[p].text : p \in DOMAIN v}

-----------------------------------------------------------------------------
DroppedFixtureKeys ==
    {"attachments", "attendees", "conferenceData", "etag", "hangoutLink", "htmlLink", "iCalUID"}

(* sanitize_event_payload: a string id becomes a digest of itself. *)
SanitizeEvent(event, terms) ==
    LET scrubbed == ScrubValue(Rules(terms, DroppedFixtureKeys, {}), event)
    IN  [p \in DOMAIN scrubbed |->
            IF p = <<Key("id")>> /\ event[p].kind = "string" THEN String({}) ELSE scrubbed[p]]
=============================================================================
