--------------------------- MODULE TenantBindings ---------------------------
(***************************************************************************)
(* How the host finds out whose runtime a host name shows                   *)
(* (host/src/services: binding-resolver.ts, resolveRequestRuntime in        *)
(* tenant-runtime.ts): the API's table of tenant bindings is kept in one    *)
(* cache entry, refreshed by at most one fetch that everybody waits for or  *)
(* is answered around, and survives an outage of the API.                   *)
(*                                                                         *)
(* Simplifications: a binding is its status (pending is like active, a      *)
(* deletion like a suspension); a table carries a stamp that counts the     *)
(* API's changes; times to live end at any moment (Expires, Unblocks); the  *)
(* tenant's published config is loaded or not.                              *)
(***************************************************************************)
EXTENDS Integers

CONSTANTS
  Hosts,       \* host names other than the runtime's own
  Requests,    \* concurrent requests
  MaxFetches,  \* bound: fetches in flight
  MaxStamp,    \* bound: changes of the API's table
  None

VARIABLES
  table,   \* the API's table
  api,     \* what the API does with a fetch of its bindings
  cache,   \* bindingsCache
  fetch,   \* fetches in flight
  request, \* what a request is doing
  known    \* history: the last answer of the API had tenants

vars == <<table, api, cache, fetch, request, known>>

(* It answers; it has no such route (404); it fails or cannot be reached.   *)
ApiState == {"answers", "unrouted", "down"}
Status == {"none", "active", "suspended"}
Table == [stamp : Nat, of : [Hosts -> Status]]
NoEntries == [stamp |-> 0, of |-> [h \in Hosts |-> "none"]]
HasEntries(t) == \E h \in Hosts : t.of[h] # "none"

Fetches == 1..MaxFetches
(* A fetch keeps the entries it would fall back to.                         *)
Fetch == [stale : Table, answer : Table \cup {None}]
Cache == [fresh : BOOLEAN, entries : Table, refetching : Fetches \cup {None},
          failed : BOOLEAN]

ASSUME BindingsAssumption ==
  /\ MaxFetches \in Nat /\ MaxStamp \in Nat
  /\ None \notin Nat \cup Table \cup Fetch

Idle == [at |-> "idle"]
Request ==
  {Idle} \cup [at : {"arrived", "loading", "suspended", "unavailable", "failed"},
               host : Hosts]
         \cup [at : {"waiting"}, host : Hosts, on : Fetches]
         \cup [at : {"served"}, host : Hosts, tenant : BOOLEAN]

TypeOK ==
  /\ table \in Table /\ api \in ApiState /\ known \in BOOLEAN
  /\ cache \in Cache
  /\ fetch \in [Fetches -> Fetch \cup {None}]
  /\ request \in [Requests -> Request]
  /\ \A r \in Requests : request[r].at = "waiting" => fetch[request[r].on] # None

Init ==
  /\ table = NoEntries /\ api = "answers" /\ known = FALSE
  /\ cache = [fresh |-> FALSE, entries |-> NoEntries, refetching |-> None, failed |-> FALSE]
  /\ fetch = [f \in Fetches |-> None]
  /\ request = [r \in Requests |-> Idle]
-----------------------------------------------------------------------------
(* What the entries say of a request's host: no binding means the base      *)
(* runtime, a tenant's config is loaded next.                               *)
Answer(r, t) ==
  LET h == request[r].host IN
    CASE t.of[h] = "none" -> [at |-> "served", host |-> h, tenant |-> FALSE]
      [] t.of[h] = "suspended" -> [at |-> "suspended", host |-> h]
      [] t.of[h] = "active" -> [at |-> "loading", host |-> h]

Arrive(r, h) ==
  /\ request[r] = Idle
  /\ request' = [request EXCEPT ![r] = [at |-> "arrived", host |-> h]]
  /\ UNCHANGED <<table, api, cache, fetch, known>>

TriesAgain(r) == [at |-> "arrived", host |-> request[r].host]
Unavailable(r) == [at |-> "unavailable", host |-> request[r].host]

(* ensureBindingsLoaded: a remembered failure first, then entries within    *)
(* their time to live (also those a fetch is about to replace), then the    *)
(* fetch in flight, then a fetch of one's own.                              *)
Remembered(r) ==
  /\ request[r].at = "arrived" /\ cache.failed
  /\ request' = [request EXCEPT ![r] = Unavailable(r)]
  /\ UNCHANGED <<table, api, cache, fetch, known>>

Usable == ~cache.failed /\ cache.fresh /\ HasEntries(cache.entries)

Cached(r) ==
  /\ request[r].at = "arrived" /\ Usable
  /\ request' = [request EXCEPT ![r] = Answer(r, cache.entries)]
  /\ UNCHANGED <<table, api, cache, fetch, known>>

MayFetchAlways == ~cache.failed /\ ~Usable
MayFetch == ~cache.failed /\ ~Usable /\ cache.refetching = None

WaitFor(r, f) == [at |-> "waiting", host |-> request[r].host, on |-> f]

Join(r) ==
  /\ request[r].at = "arrived" /\ ~cache.failed /\ ~Usable /\ cache.refetching # None
  /\ request' = [request EXCEPT ![r] = WaitFor(r, cache.refetching)]
  /\ UNCHANGED <<table, api, cache, fetch, known>>

StaleIfFresh == IF cache.fresh THEN cache.entries ELSE NoEntries
Stale == cache.entries

StartFetch(r) ==
  /\ request[r].at = "arrived" /\ MayFetch
  /\ \E f \in Fetches :
       /\ fetch[f] = None /\ \A g \in Fetches : g < f => fetch[g] # None
       /\ fetch' = [fetch EXCEPT ![f] = [stale |-> Stale, answer |-> None]]
       /\ cache' = [fresh |-> TRUE, entries |-> Stale, refetching |-> f, failed |-> FALSE]
       /\ request' = [request EXCEPT ![r] = WaitFor(r, f)]
  /\ UNCHANGED <<table, api, known>>

(* The API reads its table, the answer travels, the fetch settles: the      *)
(* cache is written and everybody who waited goes on.  A 404 is an answer   *)
(* too: there are no tenants.                                               *)
Answered ==
  IF api = "unrouted" THEN [stamp |-> table.stamp, of |-> NoEntries.of] ELSE table

ApiAnswers(f) ==
  /\ fetch[f] # None /\ fetch[f].answer = None /\ api # "down"
  /\ fetch' = [fetch EXCEPT ![f].answer = Answered]
  /\ UNCHANGED <<table, api, cache, request, known>>

Settle(f, t) ==
  /\ request' = [r \in Requests |->
       IF request[r].at = "waiting" /\ request[r].on = f THEN Answer(r, t) ELSE request[r]]
  /\ fetch' = [fetch EXCEPT ![f] = None]

RefreshedWithStale(f) ==
  [stamp |-> fetch[f].answer.stamp,
   of |-> [h \in Hosts |-> IF fetch[f].stale.of[h] # "none"
                             THEN fetch[f].stale.of[h] ELSE fetch[f].answer.of[h]]]
Refreshed(f) == fetch[f].answer

FetchSucceeds(f) ==
  /\ fetch[f] # None /\ fetch[f].answer # None
  /\ cache' = [fresh |-> TRUE, entries |-> Refreshed(f), refetching |-> None,
               failed |-> FALSE]
  /\ known' = HasEntries(fetch[f].answer)
  /\ Settle(f, Refreshed(f))
  /\ UNCHANGED <<table, api>>

(* A failed refresh serves the stale entries for another while; without any *)
(* the failure is remembered and told to everybody who waited.              *)
FetchFailsStale(f) ==
  /\ fetch[f] # None /\ HasEntries(fetch[f].stale)
  /\ cache' = [fresh |-> TRUE, entries |-> fetch[f].stale, refetching |-> None,
               failed |-> FALSE]
  /\ Settle(f, fetch[f].stale)
  /\ UNCHANGED <<table, api, known>>

FetchFails(f) ==
  /\ fetch[f] # None /\ ~HasEntries(fetch[f].stale)
  /\ cache' = [fresh |-> FALSE, entries |-> NoEntries, refetching |-> None,
               failed |-> TRUE]
  /\ request' = [r \in Requests |->
       IF request[r].at = "waiting" /\ request[r].on = f
         THEN Unavailable(r) ELSE request[r]]
  /\ fetch' = [fetch EXCEPT ![f] = None]
  /\ UNCHANGED <<table, api, known>>

(* The tenant's config is loaded, checked and verified (UiServing), or not. *)
ConfigLoaded(r) ==
  /\ request[r].at = "loading"
  /\ request' = [request EXCEPT ![r] =
       [at |-> "served", host |-> request[r].host, tenant |-> TRUE]]
  /\ UNCHANGED <<table, api, cache, fetch, known>>

ConfigFails(r) ==
  /\ request[r].at = "loading"
  /\ request' = [request EXCEPT ![r] = [at |-> "failed", host |-> request[r].host]]
  /\ UNCHANGED <<table, api, cache, fetch, known>>

Leave(r) ==
  /\ request[r].at \in {"served", "suspended", "unavailable", "failed"}
  /\ request' = [request EXCEPT ![r] = Idle]
  /\ UNCHANGED <<table, api, cache, fetch, known>>

-----------------------------------------------------------------------------
(* Outside: the API and its table, and time.                                *)
TableChanges(h, s) ==
  /\ table.stamp < MaxStamp /\ table.of[h] # s
  /\ table' = [stamp |-> table.stamp + 1, of |-> [table.of EXCEPT ![h] = s]]
  /\ UNCHANGED <<api, cache, fetch, request, known>>

ApiBecomes(s) ==
  /\ api # s
  /\ api' = s
  /\ UNCHANGED <<table, cache, fetch, request, known>>

Expires ==
  /\ cache.fresh
  /\ cache' = [cache EXCEPT !.fresh = FALSE]
  /\ UNCHANGED <<table, api, fetch, request, known>>

Unblocks ==
  /\ cache.failed
  /\ cache' = [cache EXCEPT !.failed = FALSE]
  /\ UNCHANGED <<table, api, fetch, request, known>>

Handles(r) ==
  \/ Remembered(r) \/ Cached(r) \/ Join(r) \/ StartFetch(r)
  \/ ConfigLoaded(r) \/ ConfigFails(r) \/ Leave(r)

(* A fetch fails only while the API does.                                   *)
Settles(f) == FetchSucceeds(f) \/ (api = "down" /\ (FetchFailsStale(f) \/ FetchFails(f)))

Next ==
  \/ \E r \in Requests, h \in Hosts : Arrive(r, h)
  \/ \E r \in Requests : Handles(r)
  \/ \E f \in Fetches : ApiAnswers(f) \/ Settles(f)
  \/ \E h \in Hosts, s \in Status : TableChanges(h, s)
  \/ (\E s \in ApiState : ApiBecomes(s)) \/ Expires \/ Unblocks

Spec == Init /\ [][Next]_vars

(* Continuations run, a fetch is answered or fails, time passes.  Nobody    *)
(* has to ask for anything, and the API may stay away.                      *)
FairSpec ==
  Spec /\ (\A r \in Requests : WF_vars(Handles(r)))
       /\ (\A f \in Fetches : WF_vars(ApiAnswers(f) \/ Settles(f)))
       /\ WF_vars(Expires) /\ WF_vars(Unblocks)

-----------------------------------------------------------------------------
(* What the host knows of its tenants never goes back to an older table:    *)
(* a fetch that fails after another one brought news does not put its stale *)
(* entries over them.                                                       *)
EntriesNeverGoBack ==
  [][HasEntries(cache.entries) => cache'.entries.stamp >= cache.entries.stamp]_vars

(* An outage of the API hides no tenant: while its last answer told of      *)
(* tenants, no request is refused because the API fails, however often and  *)
(* whenever it does (stale entries are kept over every failed refresh).  A  *)
(* 404 is no outage but an answer without tenants: it hides them all.       *)
OutageHidesNobody ==
  known => ~cache.failed /\ HasEntries(cache.entries)

(* A change gets through: when the API answers for good and its table stays *)
(* as it is, everybody is served, or refused, by that table from some time  *)
(* on - whatever was cached, failed, in flight or answered with a 404       *)
(* before.                                                                  *)
AnsweredBy(r) ==
  CASE request[r].at = "served" /\ request[r].tenant -> {"active"}
    [] request[r].at = "served" /\ ~request[r].tenant -> {"none"}
    [] request[r].at = "suspended" -> {"suspended"}
    [] request[r].at = "unavailable" -> {}
    [] OTHER -> Status

ChangesGetThrough ==
  \A n \in 0..MaxStamp :
    <>[](api = "answers" /\ table.stamp = n) =>
      <>[](\A r \in Requests :
             request[r] # Idle => table.of[request[r].host] \in AnsweredBy(r))

(* Every request is answered.                                               *)
RequestsEnd == \A r \in Requests : request[r] # Idle ~> request[r] = Idle
=============================================================================
