---------------------------- MODULE CalendarGateway ----------------------------
(***************************************************************************)
(* Reads of the calendar window (module CalendarRead), one after another,  *)
(* through the gateway of src/calendar/google.rs with the cached bearer    *)
(* token of src/calendar/auth.rs.  Every page asks for a token; one is     *)
(* fetched when none is cached or the cached one is about to expire.       *)
(*                                                                         *)
(* Time is counted in ticks and kept as what is left of it: `believed` is  *)
(* the cache's expires_at minus now, `real` what Google still honours the  *)
(* token for.  A request takes up to Timeout.                              *)
(***************************************************************************)
EXTENDS CalendarRead

CONSTANTS Margin,     \* TOKEN_REFRESH_MARGIN
          Timeout,    \* the timeout of both HTTP clients
          Lifetimes   \* what expires_in may be

(* src/calendar/auth.rs:21, src/cli.rs:440: 60 s and 30 s; Google grants an
   hour. *)
ASSUME TimesAssumption ==
    /\ Margin \in Nat /\ Timeout \in Nat /\ Margin >= Timeout
    /\ \A life \in Lifetimes : life \in Nat /\ life > 2 * Timeout

VARIABLES cache,      \* the cached token
          request,    \* the request under way: "none", "fetch" or "list"
          age         \* how long it has taken

gatewayVars == <<cache, request, age>>
allVars == <<vars, gatewayVars>>

NoToken == [held |-> FALSE, believed |-> 0, real |-> 0, revoked |-> FALSE]

GatewayInit ==
    /\ Init
    /\ cache = NoToken
    /\ request = "none"
    /\ age = 0

Less(n) == IF n > 0 THEN n - 1 ELSE 0

-----------------------------------------------------------------------------
(* bearer_token. *)

(* Mutated forms: no margin; no expiry at all. *)
UsableToTheLast == cache.held /\ cache.believed > 0
UsableForEver == cache.held

Usable == cache.held /\ cache.believed > Margin

(* fetch: expires_at counts from before the request, Google from somewhere
   within it. *)
Granted(life, transit) ==
    [held |-> TRUE, believed |-> IF life > age THEN life - age ELSE 0,
     real |-> life - transit, revoked |-> FALSE]

StartPage ==
    /\ result = "reading"
    /\ requests < MaxPages
    /\ request = "none"
    /\ request' = IF Usable THEN "list" ELSE "fetch"
    /\ age' = 0
    /\ UNCHANGED <<vars, cache>>

FetchAnswered ==
    /\ request = "fetch"
    /\ \E life \in Lifetimes, transit \in 0..age : cache' = Granted(life, transit)
    /\ request' = "list"
    /\ age' = 0
    /\ UNCHANGED vars

(* GatewayError::Token: the read fails, the cache stays. *)
FetchFails ==
    /\ request = "fetch"
    /\ RequestFails
    /\ request' = "none"
    /\ UNCHANGED <<cache, age>>

-----------------------------------------------------------------------------
(* list_events_page. *)

ListAnswered ==
    /\ request = "list"
    /\ cache.real > 0 /\ ~cache.revoked
    /\ AbsorbPage
    /\ request' = "none"
    /\ UNCHANGED <<cache, age>>

(* No answer, or any status but 200.  A 401 leaves the token in the cache. *)
ListFails ==
    /\ request = "list"
    /\ RequestFails
    /\ request' = "none"
    /\ UNCHANGED <<cache, age>>

NoPagesLeft ==
    /\ OutOfPages
    /\ UNCHANGED gatewayVars

(* The next cycle reads from the start, with the same gateway. *)
NextRead ==
    /\ result # "reading"
    /\ result' = "reading"
    /\ requests' = 0
    /\ byteCount' = 0
    /\ events' = <<>>
    /\ answers' = <<>>
    /\ UNCHANGED gatewayVars

-----------------------------------------------------------------------------
(* Time passes in a request and between two reads. *)
Tick ==
    /\ \/ request # "none" /\ age < Timeout /\ age' = age + 1
       \/ request = "none" /\ result # "reading" /\ UNCHANGED age
    /\ cache' = [cache EXCEPT !.believed = Less(@), !.real = Less(@)]
    /\ UNCHANGED <<vars, request>>

(* The service account's key is deleted, or Google drops the token. *)
Revoke ==
    /\ cache.held
    /\ ~cache.revoked
    /\ cache' = [cache EXCEPT !.revoked = TRUE]
    /\ UNCHANGED <<vars, request, age>>

Reading ==
    StartPage \/ FetchAnswered \/ FetchFails \/ ListAnswered \/ ListFails \/ NoPagesLeft

GatewayNext == Reading \/ NextRead \/ Tick \/ Revoke

GatewaySpec == GatewayInit /\ [][GatewayNext]_allVars

(* Requests have timeouts and the poll loop reads again.  Time passes too:
   between two reads it can, again and again, and in the end does. *)
FairGatewaySpec ==
    /\ GatewaySpec
    /\ WF_allVars(Reading)
    /\ WF_allVars(NextRead)
    /\ SF_allVars(Tick)

-----------------------------------------------------------------------------
(* src/calendar/google.rs:61 "A bearer token valid for at least the next
   request": a token that is sent does not expire before the answer, however
   slow the fetch before it and the request were. *)
TokenOutlivesRequest == request = "list" => cache.real > 0

(* Every read ends, even if every page promises another. *)
ReadEnds == result = "reading" ~> result # "reading"

(* A token Google no longer takes is not kept for ever: since a 401 does not
   clear it, its expiry does. *)
RevokedTokenGivenUp == cache.revoked ~> (request = "fetch")
=============================================================================
