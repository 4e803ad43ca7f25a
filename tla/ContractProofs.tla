---------------------------- MODULE ContractProofs ----------------------------
(***************************************************************************)
(* What the client trusts and what its writes keep, for every set of       *)
(* numbers and settings, every cap and everything the vendor may make of   *)
(* the document.                                                           *)
(***************************************************************************)
EXTENDS Contract, TLAPS

(* The keys of all entries together are the captured ones exactly if those of
   each entry are, provided each entry has at least the captured ones: what
   inspect decides is what the contract says. *)
LEMMA KeysOfAllAreKeysOfEach ==
    ASSUME NEW body
    PROVE  Inspected(body) <=> Captured(body)
<1> DEFINE Each == \A i \in DOMAIN body.entries :
                       body.entries[i].keys = TrackedFlightKeys /\ body.entries[i].typed
           AllParse == \A i \in DOMAIN body.entries : Parses(body.entries[i])
<1>1. ASSUME AllParse, EntryKeys(body) \in {{}, TrackedFlightKeys}
      PROVE  Each
  <2> SUFFICES ASSUME NEW i \in DOMAIN body.entries
               PROVE  body.entries[i].keys = TrackedFlightKeys /\ body.entries[i].typed
    OBVIOUS
  <2>1. TrackedFlightKeys \subseteq body.entries[i].keys /\ body.entries[i].typed
    BY <1>1 DEF Parses
  <2>2. body.entries[i].keys \subseteq EntryKeys(body)
    BY DEF EntryKeys
  <2>3. EntryKeys(body) = TrackedFlightKeys
    BY <1>1, <2>1, <2>2 DEF TrackedFlightKeys
  <2> QED
    BY <2>1, <2>2, <2>3
<1>2. ASSUME Each
      PROVE  AllParse /\ EntryKeys(body) \in {{}, TrackedFlightKeys}
  <2>1. AllParse
    BY <1>2 DEF Parses
  <2>2. CASE DOMAIN body.entries = {}
    BY <2>1, <2>2 DEF EntryKeys
  <2>3. CASE DOMAIN body.entries # {}
    <3>1. EntryKeys(body) = TrackedFlightKeys
      BY <1>2, <2>3 DEF EntryKeys
    <3> QED
      BY <2>1, <3>1
  <2> QED
    BY <2>2, <2>3
<1>3. body.keys \in {DocumentKeys, DocumentKeysAfterWrite} => "request_config" \in body.keys
  BY DEF DocumentKeys, DocumentKeysAfterWrite
<1> QED
  BY <1>1, <1>2, <1>3 DEF Inspected, Captured, Drift

(* Whatever answer the client holds, it trusts it exactly if the answer was
   the captured contract. *)
THEOREM TrustsTheContractAlways == Spec => []TrustsTheContract
<1>1. TrustsTheContract
  BY KeysOfAllAreKeysOfEach DEF TrustsTheContract, Authoritative
<1> QED
  BY <1>1, PTL

-----------------------------------------------------------------------------
(* What the documents on the server, in the client's hands and on their way
   have in common. *)

IsPost(post) == post = [body |-> post.body, stale |-> post.stale]

BodiesInv ==
    /\ IsBody(server)
    /\ IsBody(heard.body)
    /\ \A post \in inflight : IsBody(post.body) /\ IsPost(post)
    /\ stale \in BOOLEAN

(* A document of the daemon's is a captured one, stored or on its way. *)
OursInv ==
    /\ OwnWriteIsCaptured
    /\ \A post \in inflight : Captured(post.body)

(* Settings nobody has changed since the client read them are the owner's. *)
SettingsInv ==
    /\ SettingsLostOnlyInRace
    /\ (phase = "holding" /\ Authoritative(heard) /\ ~stale)
        => (heard.body.settings = chosen \/ lost)
    /\ \A post \in inflight : ~post.stale => (post.body.settings = chosen \/ lost)

ClientInv == BodiesInv /\ OursInv /\ SettingsInv

(* A document written back has the shape and the settings of the one read. *)
LEMMA WriteKeepsDocument ==
    ASSUME BodiesInv, Authoritative(heard), NEW document \in Sendable
    PROVE  /\ IsBody(document)
           /\ Captured(document)
           /\ document.settings = heard.body.settings
<1>1. PICK k \in 0..Cap :
          \E list \in [1..k -> Numbers] : document = DocumentForWrite(heard.body, list)
  BY DEF Sendable
<1>0. PICK list \in [1..k -> Numbers] : document = DocumentForWrite(heard.body, list)
  BY <1>1
<1> DEFINE entries == [i \in DOMAIN list |-> AsPayload(list[i])]
<1>4. IsBody(heard.body) /\ Captured(heard.body)
  BY KeysOfAllAreKeysOfEach DEF BodiesInv, Authoritative
<1>5. document = [heard.body EXCEPT !.keys = @ \ {"meta"}, !.entries = entries]
  BY <1>0 DEF DocumentForWrite
<1>6. /\ document.keys = heard.body.keys \ {"meta"}
      /\ document.entries = entries
      /\ document.object = heard.body.object
      /\ document.list = heard.body.list
      /\ document.model = heard.body.model
      /\ document.settings = heard.body.settings
  BY <1>4, <1>5 DEF IsBody
<1>7. IsBody(document)
  BY <1>4, <1>5 DEF IsBody
<1>8. document.keys = DocumentKeys
  BY <1>4, <1>6 DEF Captured, DocumentKeys, DocumentKeysAfterWrite
<1>9. \A i \in DOMAIN document.entries :
          document.entries[i].keys = TrackedFlightKeys /\ document.entries[i].typed
  BY <1>6 DEF AsPayload
<1> QED
  BY <1>4, <1>6, <1>7, <1>8, <1>9 DEF Captured

(* What is read of the stored document has its settings, if it is trusted. *)
LEMMA AnswersHoldTheDocument ==
    ASSUME BodiesInv, NEW answer \in Answers(server)
    PROVE  /\ IsBody(answer.body)
           /\ Authoritative(answer) => answer.body.settings = server.settings
<1>1. IsBody(Nothing) /\ IsBody(NotObject)
  BY DEF Nothing, NotObject, IsBody
<1>2. ~Inspected(Nothing) /\ ~Inspected(NotObject)
  BY DEF Nothing, NotObject, Inspected
<1>3. IsBody(server)
  BY DEF BodiesInv
<1> DEFINE annotated == [server EXCEPT !.keys = @ \cup {"meta"}]
<1>4. IsBody(annotated) /\ annotated.settings = server.settings
  BY <1>3 DEF IsBody
<1>5. answer.body \in {Nothing, NotObject, server, annotated}
  BY DEF Answers, NoAnswer
<1> QED
  BY <1>1, <1>2, <1>3, <1>4, <1>5 DEF Authoritative

-----------------------------------------------------------------------------
LEMMA InitClient == Init => ClientInv
<1> SUFFICES ASSUME Init PROVE ClientInv
  OBVIOUS
<1>1. BodiesInv
  BY DocumentsAssumption DEF Init, BodiesInv, NoAnswer, Nothing, IsBody
<1>2. OursInv
  BY DEF Init, OursInv, OwnWriteIsCaptured
<1>3. SettingsInv
  BY DEF Init, SettingsInv, SettingsLostOnlyInRace
<1> QED
  BY <1>1, <1>2, <1>3 DEF ClientInv

LEMMA ReadsKeep == ClientInv /\ (Read \/ Reread) => ClientInv'
<1> SUFFICES ASSUME ClientInv, Read \/ Reread PROVE ClientInv'
  OBVIOUS
<1> USE DEF ClientInv
<1>1. /\ heard' \in Answers(server)
      /\ UNCHANGED <<server, inflight, chosen, lost, ours>>
  BY DEF Read, Reread, auxVars
<1>2. /\ IsBody(heard'.body)
      /\ Authoritative(heard') => heard'.body.settings = server.settings
  BY <1>1, AnswersHoldTheDocument
<1>3. BodiesInv'
  BY <1>1, <1>2 DEF BodiesInv, Read, Reread, auxVars
<1>4. OursInv'
  BY <1>1 DEF OursInv, OwnWriteIsCaptured
<1>5. SettingsInv'
  BY <1>1, <1>2 DEF SettingsInv, SettingsLostOnlyInRace, Authoritative
<1> QED
  BY <1>3, <1>4, <1>5

LEMMA PostsKeep == ClientInv /\ (PostAccepted \/ PostRejected \/ PostUnanswered) => ClientInv'
<1> SUFFICES ASSUME ClientInv, PostAccepted \/ PostRejected \/ PostUnanswered
             PROVE  ClientInv'
  OBVIOUS
<1> USE DEF ClientInv
<1>1. /\ phase = "holding" /\ phase' # "holding"
      /\ Authoritative(heard)
      /\ UNCHANGED <<heard, chosen, stale>>
  BY DEF PostAccepted, PostRejected, PostUnanswered, PostStep
<1>2. CASE \E document \in Sendable : Store(document, stale) /\ UNCHANGED inflight
  <2>1. PICK document \in Sendable : Store(document, stale)
    BY <1>2
  <2>2. /\ IsBody(document) /\ Captured(document)
        /\ document.settings = heard.body.settings
    BY <1>1, WriteKeepsDocument
  <2>3. BodiesInv'
    BY <1>1, <1>2, <2>1, <2>2 DEF BodiesInv, Store
  <2>4. OursInv'
    BY <1>2, <2>1, <2>2 DEF OursInv, OwnWriteIsCaptured, Store
  <2>5. SettingsInv'
    BY <1>1, <1>2, <2>1, <2>2 DEF SettingsInv, SettingsLostOnlyInRace, Store
  <2> QED
    BY <2>3, <2>4, <2>5
<1>3. CASE UNCHANGED <<server, inflight, lost, ours>>
  <2>1. BodiesInv'
    BY <1>1, <1>3 DEF BodiesInv
  <2>2. OursInv'
    BY <1>3 DEF OursInv, OwnWriteIsCaptured
  <2>3. SettingsInv'
    BY <1>1, <1>3 DEF SettingsInv, SettingsLostOnlyInRace
  <2> QED
    BY <2>1, <2>2, <2>3
<1>4. CASE /\ \E document \in Sendable : inflight' = {[body |-> document, stale |-> stale]}
           /\ UNCHANGED <<server, lost, ours>>
  <2>1. PICK document \in Sendable : inflight' = {[body |-> document, stale |-> stale]}
    BY <1>4
  <2>2. /\ IsBody(document) /\ Captured(document)
        /\ document.settings = heard.body.settings
    BY <1>1, WriteKeepsDocument
  <2>3. \A post \in inflight' :
            IsPost(post) /\ post.body = document /\ post.stale = stale
    BY <2>1 DEF IsPost
  <2>4. BodiesInv'
    BY <1>1, <1>4, <2>2, <2>3 DEF BodiesInv
  <2>5. OursInv'
    BY <1>4, <2>2, <2>3 DEF OursInv, OwnWriteIsCaptured
  <2>6. SettingsInv'
    BY <1>1, <1>4, <2>2, <2>3 DEF SettingsInv, SettingsLostOnlyInRace
  <2> QED
    BY <2>4, <2>5, <2>6
<1> QED
  BY <1>2, <1>3, <1>4 DEF PostAccepted, PostRejected, PostUnanswered

LEMMA ArrivalKeeps == ClientInv /\ ArrivesLate => ClientInv'
<1> SUFFICES ASSUME ClientInv, ArrivesLate PROVE ClientInv'
  OBVIOUS
<1> USE DEF ClientInv
<1>1. PICK post \in inflight : Store(post.body, post.stale) /\ inflight' = inflight \ {post}
  BY DEF ArrivesLate
<1>2. stale' /\ UNCHANGED <<phase, heard, chosen>>
  BY DEF ArrivesLate
<1>3. BodiesInv'
  BY <1>1, <1>2 DEF BodiesInv, Store
<1>4. OursInv'
  BY <1>1 DEF OursInv, OwnWriteIsCaptured, Store
<1>5. SettingsInv'
  BY <1>1, <1>2 DEF SettingsInv, SettingsLostOnlyInRace, Store
<1> QED
  BY <1>3, <1>4, <1>5

(* What is on its way stays what it was, but is out of date. *)
LEMMA OutdatedPosts ==
    ASSUME BodiesInv, Outdate
    PROVE  /\ stale'
           /\ \A post \in inflight' :
                  /\ IsPost(post) /\ post.stale
                  /\ \E old \in inflight : post.body = old.body
<1>1. ASSUME NEW old \in inflight, NEW post, post = [old EXCEPT !.stale = TRUE]
      PROVE  IsPost(post) /\ post.stale /\ post.body = old.body
  <2>1. old = [body |-> old.body, stale |-> old.stale]
    BY DEF BodiesInv, IsPost
  <2>2. post = [body |-> old.body, stale |-> TRUE]
    BY <1>1, <2>1
  <2> QED
    BY <2>2 DEF IsPost
<1> QED
  BY <1>1 DEF Outdate

LEMMA OthersKeep == ClientInv /\ (OwnerSaves \/ DocumentChanges) => ClientInv'
<1> SUFFICES ASSUME ClientInv, OwnerSaves \/ DocumentChanges PROVE ClientInv'
  OBVIOUS
<1> USE DEF ClientInv
<1>1. Outdate /\ UNCHANGED <<phase, heard>>
  BY DEF OwnerSaves, DocumentChanges
<1>2. /\ stale'
      /\ \A post \in inflight' :
            /\ IsPost(post) /\ post.stale
            /\ \E old \in inflight : post.body = old.body
  BY <1>1, OutdatedPosts
<1>3. /\ IsBody(server')
      /\ ours' => ours /\ (Captured(server) => Captured(server'))
      /\ server'.settings = chosen' \/ lost'
  <2>1. CASE OwnerSaves
    <3>1. IsBody(server) /\ chosen' \in Settings
      BY <2>1 DEF BodiesInv, OwnerSaves
    <3>2. /\ IsBody(server')
          /\ server'.settings = chosen'
          /\ server'.object = server.object /\ server'.list = server.list
          /\ server'.model = server.model /\ server'.keys = server.keys
          /\ server'.entries = server.entries
      BY <2>1, <3>1 DEF OwnerSaves, IsBody
    <3> QED
      BY <2>1, <3>2 DEF OwnerSaves, Captured
  <2>2. CASE DocumentChanges
    BY <2>2, DocumentsAssumption
       DEF DocumentChanges, SettingsInv, SettingsLostOnlyInRace
  <2> QED
    BY <2>1, <2>2
<1>4. BodiesInv'
  BY <1>1, <1>2, <1>3 DEF BodiesInv
<1>5. OursInv'
  BY <1>2, <1>3 DEF OursInv, OwnWriteIsCaptured
<1>6. SettingsInv'
  BY <1>2, <1>3 DEF SettingsInv, SettingsLostOnlyInRace
<1> QED
  BY <1>4, <1>5, <1>6

LEMMA ClientInvAlways == Spec => []ClientInv
<1>1. ASSUME ClientInv, [Next]_vars PROVE ClientInv'
  <2>1. CASE Read \/ Reread
    BY <1>1, <2>1, ReadsKeep
  <2>2. CASE PostAccepted \/ PostRejected \/ PostUnanswered
    BY <1>1, <2>2, PostsKeep
  <2>3. CASE ArrivesLate
    BY <1>1, <2>3, ArrivalKeeps
  <2>4. CASE OwnerSaves \/ DocumentChanges
    BY <1>1, <2>4, OthersKeep
  <2>5. CASE NotWritten
    BY <1>1, <2>5 DEF NotWritten, auxVars, ClientInv, BodiesInv, OursInv,
       OwnWriteIsCaptured, SettingsInv, SettingsLostOnlyInRace
  <2>6. CASE UNCHANGED vars
    BY <1>1, <2>6 DEF vars, auxVars, ClientInv, BodiesInv, OursInv,
       OwnWriteIsCaptured, SettingsInv, SettingsLostOnlyInRace
  <2> QED
    BY <1>1, <2>1, <2>2, <2>3, <2>4, <2>5, <2>6 DEF Next
<1> QED
  BY <1>1, InitClient, PTL DEF Spec

(* What the daemon stores stays inside the contract: its own write is never
   the reason why it stops trusting the document. *)
THEOREM OwnWriteIsCapturedAlways == Spec => []OwnWriteIsCaptured
<1>1. ClientInv => OwnWriteIsCaptured
  BY DEF ClientInv, OursInv
<1> QED
  BY <1>1, ClientInvAlways, PTL

(* The owner's settings are lost only to a write read before and stored after
   they were saved, for any number of failed, late and repeated writes. *)
THEOREM SettingsLostOnlyInRaceAlways == Spec => []SettingsLostOnlyInRace
<1>1. ClientInv => SettingsLostOnlyInRace
  BY DEF ClientInv, SettingsInv
<1> QED
  BY <1>1, ClientInvAlways, PTL
-----------------------------------------------------------------------------
(* A snapshot nothing has outdated says whether the stored document is still
   the captured one. *)
FreshInv == (phase = "holding" /\ ~stale /\ Authoritative(heard)) => Captured(server)

(* The `meta` an answer may carry does not hide a drift of what is stored. *)
LEMMA AnswersShowDrift ==
    ASSUME BodiesInv, NEW answer \in Answers(server), Authoritative(answer)
    PROVE  Captured(server)
<1> DEFINE annotated == [server EXCEPT !.keys = @ \cup {"meta"}]
<1>1. Captured(answer.body)
  BY KeysOfAllAreKeysOfEach DEF Authoritative
<1>2. answer.body \in {Nothing, NotObject, server, annotated}
  BY DEF Answers, NoAnswer
<1>3. ~Captured(Nothing) /\ ~Captured(NotObject)
  BY DEF Nothing, NotObject, Captured
<1>4. ASSUME Captured(annotated) PROVE Captured(server)
  <2>1. /\ annotated.keys = server.keys \cup {"meta"}
        /\ annotated.object = server.object /\ annotated.list = server.list
        /\ annotated.model = server.model /\ annotated.entries = server.entries
    BY DEF BodiesInv, IsBody
  <2>2. server.keys \in {DocumentKeys, DocumentKeysAfterWrite}
    <3>1. server.keys \cup {"meta"} = DocumentKeysAfterWrite
      BY <1>4, <2>1 DEF Captured, DocumentKeysAfterWrite
    <3>2. CASE "meta" \in server.keys
      BY <3>1, <3>2
    <3>3. CASE "meta" \notin server.keys
      BY <3>1, <3>3 DEF DocumentKeys, DocumentKeysAfterWrite
    <3> QED
      BY <3>2, <3>3
  <2> QED
    BY <1>4, <2>1, <2>2 DEF Captured
<1> QED
  BY <1>1, <1>2, <1>3, <1>4

LEMMA FreshStep == BodiesInv /\ FreshInv /\ [Next]_vars => FreshInv'
<1> SUFFICES ASSUME BodiesInv, FreshInv, [Next]_vars PROVE FreshInv'
  OBVIOUS
<1>1. CASE Read
  <2>1. heard' \in Answers(server) /\ server' = server
    BY <1>1 DEF Read
  <2>2. Authoritative(heard') => Captured(server)
    BY <2>1, AnswersShowDrift
  <2> QED
    BY <2>1, <2>2 DEF FreshInv, Authoritative
<1>2. CASE NotWritten \/ PostAccepted \/ PostRejected \/ PostUnanswered \/ Reread
  <2>1. phase' # "holding"
    BY <1>2 DEF NotWritten, PostAccepted, PostRejected, PostUnanswered, PostStep, Reread
  <2> QED
    BY <2>1 DEF FreshInv
<1>3. CASE ArrivesLate \/ OwnerSaves \/ DocumentChanges
  BY <1>3 DEF FreshInv, ArrivesLate, OwnerSaves, DocumentChanges, Outdate
<1>4. CASE UNCHANGED vars
  BY <1>4 DEF vars, auxVars, FreshInv, Authoritative
<1> QED
  BY <1>1, <1>2, <1>3, <1>4 DEF Next

(* A document that drifted before the client's read is never written over,
   whatever the vendor makes of it: only a write moves the stored document
   while the client goes on to its re-read, and what it was made from is what
   is stored. *)
THEOREM DriftNeverOverwrittenAlways == Spec => DriftNeverOverwritten
<1>1. Init => FreshInv
  BY DEF Init, FreshInv
<1>2. ASSUME FreshInv, [Next]_vars
      PROVE  [(phase = "holding" /\ ~stale /\ server' # server /\ phase' = "reread")
                => Captured(server)]_vars
  <2> SUFFICES ASSUME Next, phase = "holding", ~stale, phase' = "reread"
               PROVE  Captured(server)
    BY <1>2
  <2>1. Authoritative(heard)
    BY DEF Next, Read, NotWritten, PostAccepted, PostRejected, PostUnanswered, PostStep,
       Reread, ArrivesLate, OwnerSaves, DocumentChanges
  <2> QED
    BY <1>2, <2>1 DEF FreshInv
<1>3. ClientInv => BodiesInv
  BY DEF ClientInv
<1> QED
  BY <1>1, <1>2, <1>3, FreshStep, ClientInvAlways, PTL DEF Spec, DriftNeverOverwritten
=============================================================================
