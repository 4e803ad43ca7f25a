----------------------------- MODULE CalendarRead -----------------------------
(***************************************************************************)
(* One read of the calendar window: CalendarReader::read_snapshot and      *)
(* PageAccumulator of src/calendar/reader.rs.  The calendar may change     *)
(* between two pages, so a page holds whatever the API lists then.         *)
(*                                                                         *)
(* A page is a record [bytes, longest, items, next, decoded]: its size, its*)
(* longest string, its events (NotAList when `items` is no array), whether *)
(* a next page is promised ("none", "more", or "bad" for a token that is   *)
(* not text), and whether the body was JSON.  An event is [id, content],   *)
(* with NoId for an id that is missing or empty; content Malformed stands  *)
(* for a title, status or date of the wrong shape.  The actions are        *)
(* composed with the gateway's in module CalendarGateway.                  *)
(***************************************************************************)
EXTENDS Integers, Sequences, FiniteSets, Functions

CONSTANTS Ids, Contents,            \* event ids and contents
          Pages,                    \* pages the API may answer with
          MaxPages, MaxEvents,      \* CalendarLimits
          MaxFieldChars, MaxBytes,
          NoId, Malformed, NotAList,
          NoPage                    \* the answer of a failed request

(* Configured limits are at least 1 (src/config.rs:269). *)
ASSUME LimitsAssumption ==
    /\ MaxPages \in Nat \ {0} /\ MaxEvents \in Nat
    /\ MaxFieldChars \in Nat /\ MaxBytes \in Nat

Event == [id : Ids, content : Contents]

(* What a page may list as an event. *)
Item == [id : Ids \cup {NoId}, content : Contents \cup {Malformed}]

ASSUME PagesAssumption ==
    /\ NoPage \notin Pages
    /\ \A p \in Pages :
        /\ p.bytes \in Nat /\ p.longest \in Nat
        /\ p.items = NotAList \/ p.items \in Seq(Item)
        /\ p.next \in {"none", "more", "bad"}
        /\ p.decoded \in BOOLEAN

VARIABLES result,       \* "reading", "authoritative" or "failed"
          requests,     \* pages asked for
          byteCount,    \* byte_count
          events,       \* events accepted, in first-seen order
          answers       \* auxiliary: what each request got, a page or NoPage

vars == <<result, requests, byteCount, events, answers>>

Init ==
    /\ result = "reading"
    /\ requests = 0
    /\ byteCount = 0
    /\ events = <<>>
    /\ answers = <<>>

-----------------------------------------------------------------------------
(* The gateway: the next answer is an error or any page. *)
Ask(answer) ==
    /\ result = "reading"
    /\ requests < MaxPages
    /\ requests' = requests + 1
    /\ answers' = Append(answers, answer)

RequestFails ==
    /\ Ask(NoPage)
    /\ result' = "failed"
    /\ UNCHANGED <<byteCount, events>>

(* Mutated form: the read starts over. *)
OutOfPagesStartsOver ==
    /\ result = "reading"
    /\ requests = MaxPages
    /\ requests' = 0
    /\ byteCount' = 0
    /\ events' = <<>>
    /\ answers' = <<>>
    /\ UNCHANGED result

(* The loop ran out of pages with a token still in hand. *)
OutOfPages ==
    /\ result = "reading"
    /\ requests = MaxPages
    /\ result' = "failed"
    /\ UNCHANGED <<requests, byteCount, events, answers>>

(* Mutated form: a limit is breached when it is reached. *)
OverBoundsEarly(page) ==
    byteCount + page.bytes >= MaxBytes \/ page.longest >= MaxFieldChars

(* charge_bounds. *)
OverBounds(page) ==
    byteCount + page.bytes > MaxBytes \/ page.longest > MaxFieldChars

(* add_event, one event after another; the first error ends the read.  The
   state threaded through is [ok, events]. *)
WellFormed(e) == e.id # NoId /\ e.content # Malformed

(* Mutated form: a changed duplicate replaces the event. *)
AddEventReplacing(acc, e) ==
    IF ~acc.ok \/ ~WellFormed(e) THEN [acc EXCEPT !.ok = FALSE]
    ELSE IF \E i \in DOMAIN acc.events : acc.events[i].id = e.id
         THEN [acc EXCEPT !.events = [i \in DOMAIN @ |->
                                         IF @[i].id = e.id THEN e ELSE @[i]]]
         ELSE [ok |-> Len(acc.events) < MaxEvents, events |-> Append(acc.events, e)]

AddEvent(acc, e) ==
    LET prior == {i \in DOMAIN acc.events : acc.events[i].id = e.id}
    IN  IF ~acc.ok \/ ~WellFormed(e) \/ (\E i \in prior : acc.events[i] # e)
        THEN [acc EXCEPT !.ok = FALSE]
        ELSE IF prior # {} THEN acc
        ELSE [ok |-> Len(acc.events) < MaxEvents, events |-> Append(acc.events, e)]

AddEvents(items) ==
    LET after[k \in 0..Len(items)] ==
            IF k = 0 THEN [ok |-> TRUE, events |-> events]
            ELSE AddEvent(after[k - 1], items[k])
    IN  after[Len(items)]

(* next_token decides, once every event was accepted. *)
AbsorbPage ==
    \E page \in Pages :
        /\ Ask(page)
        /\ byteCount' = byteCount + page.bytes
        /\ IF OverBounds(page) \/ page.items = NotAList
           THEN result' = "failed" /\ UNCHANGED events
           ELSE LET added == AddEvents(page.items)
                IN  /\ events' = added.events
                    /\ result' = IF ~added.ok THEN "failed"
                                 ELSE CASE page.next = "none" -> "authoritative"
                                        [] page.next = "more" -> "reading"
                                        [] page.next = "bad"  -> "failed"

-----------------------------------------------------------------------------
Served == UNION {Range(answers[i].items) :
                    i \in {j \in DOMAIN answers :
                              answers[j] # NoPage /\ answers[j].items # NotAList}}

(* An authoritative window holds all that was served: no page failed, the last
   one promised no further, and the events are precisely those of the pages,
   each in the one version every page agreed on, and once: the parser breaks
   ties between events by their ids (read_snapshot, absorb). *)
AuthoritativeIsComplete ==
    result = "authoritative" =>
        /\ \A i \in DOMAIN answers : answers[i] # NoPage
        /\ answers[Len(answers)].next = "none"
        /\ Range(events) = Served
        /\ Served \subseteq Event
        /\ Len(events) = Cardinality({e.id : e \in Served})

(* src/calendar/reader.rs:91 "Read a complete bounded window or return a
   non-authoritative snapshot": an authoritative window was served in pages
   that could be read to their end. *)
WindowWasServed ==
    result = "authoritative" => \A i \in DOMAIN answers : answers[i].decoded

(* The limits are the largest windows read, not the smallest refused: a read
   that fails met an error, a malformed or contradictory page, or more than a
   limit of something. *)
FailsOnlyForCause ==
    result = "failed" =>
        \/ \E i \in DOMAIN answers : answers[i] = NoPage
        \/ \E i \in {j \in DOMAIN answers : answers[j] # NoPage} :
               \/ answers[i].items = NotAList
               \/ answers[i].next = "bad"
               \/ answers[i].longest > MaxFieldChars
        \/ \E e \in Served : ~WellFormed(e)
        \/ \E e, f \in Served : e.id = f.id /\ e # f
        \/ Cardinality({e.id : e \in Served}) > MaxEvents
        \/ byteCount > MaxBytes
        \/ Len(answers) = MaxPages /\ answers[MaxPages].next = "more"
=============================================================================
