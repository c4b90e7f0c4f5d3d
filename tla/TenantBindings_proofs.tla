----------------------- MODULE TenantBindings_proofs -----------------------
(***************************************************************************)
(* What holds of the host's tenant bindings for any hosts, requests and     *)
(* bounds: there is one fetch at a time, and it holds what the cache holds, *)
(* so no fetch writes back older news and no outage loses the tenants.      *)
(***************************************************************************)
EXTENDS TenantBindings, TLAPS

USE BindingsAssumption

(* The entry's refetching flag names the one fetch in flight; that fetch    *)
(* falls back to exactly what the cache still shows.                        *)
FlightOf(f) ==
  /\ cache.refetching = f
  /\ fetch[f].stale = cache.entries
  /\ fetch[f].answer # None => fetch[f].answer.stamp >= cache.entries.stamp
SingleFlight == \A f \in Fetches : fetch[f] # None => FlightOf(f)
Awaited == cache.refetching # None => fetch[cache.refetching] # None
NoNewsFromTomorrow ==
  /\ cache.entries.stamp <= table.stamp
  /\ \A f \in Fetches :
       fetch[f] # None /\ fetch[f].answer # None => fetch[f].answer.stamp <= table.stamp
IInv == TypeOK /\ SingleFlight /\ Awaited /\ NoNewsFromTomorrow /\ OutageHidesNobody

LEMMA NoEntriesTyped == NoEntries \in Table /\ ~HasEntries(NoEntries)
BY DEF NoEntries, Table, Status, HasEntries

LEMMA AnsweredTyped ==
  ASSUME TypeOK
  PROVE  Answered \in Table /\ Answered.stamp = table.stamp
BY NoEntriesTyped DEF Answered, TypeOK, Table, NoEntries

LEMMA AnswerTyped ==
  ASSUME TypeOK, NEW r \in Requests, NEW t \in Table, request[r].host \in Hosts
  PROVE  Answer(r, t) \in Request /\ Answer(r, t).at # "waiting"
<1>1. t.of[request[r].host] \in Status
  BY DEF Table
<1> QED
  BY <1>1 DEF Answer, Status, Request

LEMMA HostTyped ==
  ASSUME TypeOK, NEW r \in Requests, request[r] # Idle
  PROVE  request[r].host \in Hosts
BY DEF TypeOK, Request

(* A request alone goes on: nothing else moves, and it does not wait for a  *)
(* fetch that is not there.                                                 *)
LEMMA RequestMoves ==
  ASSUME TypeOK, NEW r \in Requests, NEW q \in Request,
         q.at = "waiting" => fetch[q.on] # None,
         request' = [request EXCEPT ![r] = q],
         UNCHANGED <<table, api, cache, fetch, known>>
  PROVE  TypeOK'
BY DEF TypeOK

LEMMA SettleTyped ==
  ASSUME TypeOK, NEW f \in Fetches, NEW t \in Table, Settle(f, t)
  PROVE  /\ request' \in [Requests -> Request]
         /\ fetch' \in [Fetches -> Fetch \cup {None}]
         /\ \A r \in Requests : request'[r].at = "waiting" => fetch'[request'[r].on] # None
<1>1. ASSUME NEW r \in Requests, request[r].at = "waiting", request[r].on = f
      PROVE Answer(r, t) \in Request /\ Answer(r, t).at # "waiting"
  BY <1>1, AnswerTyped, HostTyped DEF Idle
<1>2. request' \in [Requests -> Request] /\ fetch' \in [Fetches -> Fetch \cup {None}]
  BY <1>1 DEF Settle, TypeOK
<1>3. ASSUME NEW r \in Requests, request'[r].at = "waiting" PROVE fetch'[request'[r].on] # None
  <2>1. request'[r] = request[r] /\ request[r].on # f
    BY <1>1, <1>3 DEF Settle
  <2>2. request[r].on \in Fetches
    BY <1>3, <2>1 DEF TypeOK, Request, Idle
  <2> QED
    BY <1>3, <2>1, <2>2 DEF Settle, TypeOK
<1> QED
  BY <1>2, <1>3

(* The type invariant of binding-resolver.ts and of the requests it holds.  *)
LEMMA TypeStep == TypeOK /\ Awaited /\ [Next]_vars => TypeOK'
<1> SUFFICES ASSUME TypeOK, Awaited, [Next]_vars PROVE TypeOK'
  OBVIOUS
<1>1. ASSUME NEW r \in Requests, NEW h \in Hosts, Arrive(r, h) PROVE TypeOK'
  <2>1. [at |-> "arrived", host |-> h] \in Request
    BY DEF Request
  <2> QED
    BY <1>1, <2>1, RequestMoves DEF Arrive
<1>2. ASSUME NEW r \in Requests, Remembered(r) PROVE TypeOK'
  <2>1. [at |-> "unavailable", host |-> request[r].host] \in Request
    BY <1>2, HostTyped DEF Request, Remembered, Idle
  <2> QED
    BY <1>2, <2>1, RequestMoves DEF Remembered, Unavailable
<1>3. ASSUME NEW r \in Requests, Cached(r) PROVE TypeOK'
  <2>1. Answer(r, cache.entries) \in Request /\ Answer(r, cache.entries).at # "waiting"
    BY <1>3, HostTyped, AnswerTyped DEF Cached, Idle, TypeOK, Cache
  <2> QED
    BY <1>3, <2>1, RequestMoves DEF Cached
<1>4. ASSUME NEW r \in Requests, Join(r) PROVE TypeOK'
  <2>1. WaitFor(r, cache.refetching) \in Request /\ fetch[cache.refetching] # None
    BY <1>4, HostTyped DEF Join, Idle, TypeOK, Cache, WaitFor, Request, Awaited
  <2> QED
    BY <1>4, <2>1, RequestMoves DEF Join, WaitFor
<1>5. ASSUME NEW r \in Requests, StartFetch(r) PROVE TypeOK'
  <2>1. PICK f \in Fetches :
          /\ fetch[f] = None
          /\ fetch' = [fetch EXCEPT ![f] = [stale |-> Stale, answer |-> None]]
          /\ cache' = [fresh |-> TRUE, entries |-> Stale, refetching |-> f, failed |-> FALSE]
          /\ request' = [request EXCEPT ![r] = WaitFor(r, f)]
    BY <1>5 DEF StartFetch
  <2>2. Stale \in Table
    BY DEF Stale, TypeOK, Cache
  <2>3. [stale |-> Stale, answer |-> None] \in Fetch
    BY <2>2 DEF Fetch
  <2>4. WaitFor(r, f) \in Request
    BY <1>5, HostTyped DEF StartFetch, Idle, WaitFor, Request
  <2>5. cache' \in Cache
    BY <2>1, <2>2 DEF Cache
  <2>6. fetch' \in [Fetches -> Fetch \cup {None}] /\ request' \in [Requests -> Request]
    BY <2>1, <2>3, <2>4 DEF TypeOK
  <2>7. ASSUME NEW q \in Requests, request'[q].at = "waiting" PROVE fetch'[request'[q].on] # None
    <3>1. CASE q = r
      BY <2>1, <2>3, <3>1 DEF TypeOK, WaitFor
    <3>2. CASE q # r
      <4>1. request'[q] = request[q] /\ request[q].on \in Fetches
        BY <2>1, <2>7, <3>2 DEF TypeOK, Request, Idle
      <4> QED
        BY <2>1, <2>3, <2>7, <4>1 DEF TypeOK
    <3> QED
      BY <3>1, <3>2
  <2> QED
    BY <1>5, <2>5, <2>6, <2>7 DEF TypeOK, StartFetch
<1>6. ASSUME NEW f \in Fetches, ApiAnswers(f) PROVE TypeOK'
  <2>1. [fetch[f] EXCEPT !.answer = Answered] \in Fetch
    BY <1>6, AnsweredTyped DEF ApiAnswers, TypeOK, Fetch
  <2>2. fetch' = [fetch EXCEPT ![f] = [fetch[f] EXCEPT !.answer = Answered]]
    BY <1>6 DEF ApiAnswers
  <2>3. ASSUME NEW q \in Requests, request[q].at = "waiting" PROVE fetch'[request[q].on] # None
    BY <2>1, <2>2, <2>3 DEF TypeOK, Request, Idle
  <2> QED
    BY <1>6, <2>1, <2>2, <2>3 DEF ApiAnswers, TypeOK
<1>7. ASSUME NEW f \in Fetches, FetchSucceeds(f) PROVE TypeOK'
  <2>1. Refreshed(f) \in Table
    BY <1>7 DEF FetchSucceeds, Refreshed, TypeOK, Fetch
  <2>2. cache' \in Cache
    BY <1>7, <2>1 DEF FetchSucceeds, Cache
  <2>3. known' \in BOOLEAN
    BY <1>7 DEF FetchSucceeds, HasEntries
  <2> QED
    BY <1>7, <2>1, <2>2, <2>3, SettleTyped DEF FetchSucceeds, TypeOK
<1>8. ASSUME NEW f \in Fetches, FetchFailsStale(f) PROVE TypeOK'
  <2>1. fetch[f].stale \in Table
    BY <1>8 DEF FetchFailsStale, TypeOK, Fetch
  <2>2. cache' \in Cache
    BY <1>8, <2>1 DEF FetchFailsStale, Cache
  <2> QED
    BY <1>8, <2>1, <2>2, SettleTyped DEF FetchFailsStale, TypeOK
<1>9. ASSUME NEW f \in Fetches, FetchFails(f) PROVE TypeOK'
  <2>1. cache' \in Cache
    BY <1>9, NoEntriesTyped DEF FetchFails, Cache
  <2>2. ASSUME NEW r \in Requests, request[r].at = "waiting", request[r].on = f
        PROVE [at |-> "unavailable", host |-> request[r].host] \in Request
    BY <2>2, HostTyped DEF Request, Idle
  <2>3. request' \in [Requests -> Request] /\ fetch' \in [Fetches -> Fetch \cup {None}]
    BY <1>9, <2>2 DEF FetchFails, Unavailable, TypeOK
  <2>4. ASSUME NEW r \in Requests, request'[r].at = "waiting" PROVE fetch'[request'[r].on] # None
    <3>1. request'[r] = request[r] /\ request[r].on # f
      BY <1>9, <2>4 DEF FetchFails, Unavailable
    <3>2. request[r].on \in Fetches
      BY <2>4, <3>1 DEF TypeOK, Request, Idle
    <3> QED
      BY <1>9, <2>4, <3>1, <3>2 DEF FetchFails, TypeOK
  <2> QED
    BY <1>9, <2>1, <2>3, <2>4 DEF FetchFails, TypeOK
<1>10. ASSUME NEW r \in Requests, ConfigLoaded(r) \/ ConfigFails(r) \/ Leave(r) PROVE TypeOK'
  <2> DEFINE q == IF ConfigLoaded(r) THEN [at |-> "served", host |-> request[r].host, tenant |-> TRUE]
                  ELSE IF ConfigFails(r) THEN [at |-> "failed", host |-> request[r].host]
                  ELSE Idle
  <2>1. request' = [request EXCEPT ![r] = q]
    BY <1>10 DEF ConfigLoaded, ConfigFails, Leave
  <2>2. ConfigLoaded(r) \/ ConfigFails(r) => request[r].host \in Hosts
    BY HostTyped DEF ConfigLoaded, ConfigFails, Idle
  <2>3. q \in Request /\ q.at # "waiting"
    BY <2>2 DEF Request, Idle
  <2>4. UNCHANGED <<table, api, cache, fetch, known>>
    BY <1>10 DEF ConfigLoaded, ConfigFails, Leave
  <2> QED
    BY <2>1, <2>3, <2>4, RequestMoves
<1>11. ASSUME NEW h \in Hosts, NEW s \in Status, TableChanges(h, s) PROVE TypeOK'
  <2>1. [table.of EXCEPT ![h] = s] \in [Hosts -> Status]
    BY DEF TypeOK, Table
  <2> QED
    BY <1>11, <2>1 DEF TableChanges, TypeOK, Table
<1>12. ASSUME NEW s \in ApiState, ApiBecomes(s) PROVE TypeOK'
  BY <1>12 DEF ApiBecomes, TypeOK
<1>13. CASE Expires \/ Unblocks
  BY <1>13 DEF Expires, Unblocks, TypeOK, Cache
<1>14. CASE UNCHANGED vars
  BY <1>14 DEF vars, TypeOK
<1> QED
  BY <1>1, <1>2, <1>3, <1>4, <1>5, <1>6, <1>7, <1>8, <1>9, <1>10, <1>11, <1>12, <1>13, <1>14
  DEF Next, Handles, Settles

-----------------------------------------------------------------------------
(* The three facts of the single flight.                                    *)

(* Steps that touch neither the cache nor a fetch.                          *)
LEMMA FlightStays ==
  ASSUME IInv, UNCHANGED <<cache, fetch>>, table' = table \/ table'.stamp = table.stamp + 1,
         known' = known
  PROVE  SingleFlight' /\ Awaited' /\ NoNewsFromTomorrow' /\ OutageHidesNobody'
<1>1. SingleFlight' /\ Awaited' /\ OutageHidesNobody'
  BY DEF IInv, SingleFlight, FlightOf, Awaited, OutageHidesNobody, HasEntries
<1>2. table.stamp \in Nat /\ cache.entries.stamp \in Nat
  BY DEF IInv, TypeOK, Table, Cache
<1>3. \A f \in Fetches : fetch[f] # None /\ fetch[f].answer # None => fetch[f].answer.stamp \in Nat
  BY DEF IInv, TypeOK, Table, Fetch
<1>4. table'.stamp >= table.stamp
  BY <1>2
<1>5. NoNewsFromTomorrow'
  BY <1>2, <1>3, <1>4 DEF IInv, NoNewsFromTomorrow
<1> QED
  BY <1>1, <1>5

LEMMA FlightStarts ==
  ASSUME IInv, NEW r \in Requests, StartFetch(r)
  PROVE  SingleFlight' /\ Awaited' /\ NoNewsFromTomorrow' /\ OutageHidesNobody'
<1>1. PICK f \in Fetches :
        /\ fetch[f] = None
        /\ fetch' = [fetch EXCEPT ![f] = [stale |-> Stale, answer |-> None]]
        /\ cache' = [fresh |-> TRUE, entries |-> Stale, refetching |-> f, failed |-> FALSE]
  BY DEF StartFetch
<1>2. cache.refetching = None /\ UNCHANGED <<table, known>>
  BY DEF StartFetch, MayFetch
<1>3. \A g \in Fetches : fetch[g] = None
  BY <1>2 DEF IInv, SingleFlight, FlightOf, Fetches
<1>4. \A g \in Fetches : fetch'[g] # None => g = f
  BY <1>1, <1>3 DEF IInv, TypeOK
<1>5. fetch'[f] = [stale |-> cache.entries, answer |-> None] /\ cache'.entries = cache.entries
  BY <1>1 DEF IInv, TypeOK, Stale
<1>6. fetch'[f] # None
  BY <1>5 DEF IInv, TypeOK, Cache, Fetch
<1>7. SingleFlight' /\ Awaited'
  BY <1>1, <1>4, <1>5, <1>6 DEF SingleFlight, FlightOf, Awaited
<1>8. NoNewsFromTomorrow'
  BY <1>2, <1>4, <1>5 DEF IInv, NoNewsFromTomorrow
<1>9. OutageHidesNobody'
  BY <1>1, <1>2, <1>5 DEF IInv, OutageHidesNobody, HasEntries
<1> QED
  BY <1>7, <1>8, <1>9

LEMMA FlightAnswered ==
  ASSUME IInv, NEW f \in Fetches, ApiAnswers(f)
  PROVE  SingleFlight' /\ Awaited' /\ NoNewsFromTomorrow' /\ OutageHidesNobody'
<1>1. fetch' = [fetch EXCEPT ![f] = [fetch[f] EXCEPT !.answer = Answered]]
        /\ UNCHANGED <<table, cache, known>> /\ fetch[f] # None
  BY DEF ApiAnswers
<1>2. fetch[f] \in Fetch /\ fetch \in [Fetches -> Fetch \cup {None}]
  BY <1>1 DEF IInv, TypeOK
<1>3. fetch'[f].stale = fetch[f].stale /\ fetch'[f].answer = Answered /\ fetch'[f] \in Fetch
          /\ Answered.stamp = table.stamp
  BY <1>1, <1>2, AnsweredTyped DEF Fetch, IInv, TypeOK
<1>4. \A g \in Fetches : g # f => fetch'[g] = fetch[g]
  BY <1>1, <1>2
<1>5. table.stamp \in Nat /\ cache.entries.stamp \in Nat /\ table.stamp >= cache.entries.stamp
  BY DEF IInv, TypeOK, Table, Cache, NoNewsFromTomorrow
<1>6. SingleFlight'
  BY <1>1, <1>3, <1>4, <1>5 DEF IInv, SingleFlight, FlightOf
<1>7. Awaited'
  BY <1>1, <1>3, <1>4 DEF IInv, Awaited, TypeOK, Cache
<1>8. NoNewsFromTomorrow'
  BY <1>1, <1>3, <1>4, <1>5 DEF IInv, NoNewsFromTomorrow
<1> QED
  BY <1>1, <1>6, <1>7, <1>8 DEF IInv, OutageHidesNobody, HasEntries

(* A fetch that settles leaves none behind, and what it leaves in the cache *)
(* is no older than what was there.                                         *)
LEMMA FlightSettles ==
  ASSUME IInv, NEW f \in Fetches, fetch[f] # None, fetch' = [fetch EXCEPT ![f] = None],
         cache'.refetching = None, table' = table,
         cache'.entries.stamp <= table.stamp
  PROVE  SingleFlight' /\ Awaited' /\ NoNewsFromTomorrow'
<1>1. \A g \in Fetches : fetch'[g] = None
  BY DEF IInv, TypeOK, SingleFlight, FlightOf
<1> QED
  BY <1>1 DEF SingleFlight, Awaited, NoNewsFromTomorrow

LEMMA SucceedsStep ==
  ASSUME IInv, NEW f \in Fetches, FetchSucceeds(f)
  PROVE  SingleFlight' /\ Awaited' /\ NoNewsFromTomorrow' /\ OutageHidesNobody'
<1>1. /\ fetch[f] # None /\ fetch[f].answer # None /\ table' = table
      /\ cache' = [fresh |-> TRUE, entries |-> fetch[f].answer, refetching |-> None,
                   failed |-> FALSE]
      /\ fetch' = [fetch EXCEPT ![f] = None]
      /\ known' = HasEntries(fetch[f].answer)
  BY DEF FetchSucceeds, Refreshed, Settle
<1>2. fetch[f].answer.stamp <= table.stamp
  BY <1>1 DEF IInv, NoNewsFromTomorrow
<1>3. SingleFlight' /\ Awaited' /\ NoNewsFromTomorrow'
  BY <1>1, <1>2, FlightSettles
<1>4. HasEntries(cache.entries)' <=> HasEntries(fetch[f].answer)
  BY <1>1 DEF HasEntries
<1> QED
  BY <1>1, <1>3, <1>4 DEF OutageHidesNobody

LEMMA FailsStep ==
  ASSUME IInv, NEW f \in Fetches, FetchFailsStale(f) \/ FetchFails(f)
  PROVE  SingleFlight' /\ Awaited' /\ NoNewsFromTomorrow' /\ OutageHidesNobody'
<1>1. fetch[f] # None /\ fetch' = [fetch EXCEPT ![f] = None] /\ UNCHANGED <<table, known>>
        /\ cache'.refetching = None
  BY DEF FetchFailsStale, FetchFails, Settle
<1>2. fetch[f].stale = cache.entries
  BY <1>1 DEF IInv, SingleFlight, FlightOf
<1>3. table.stamp \in Nat /\ cache.entries.stamp <= table.stamp
  BY DEF IInv, TypeOK, Table, NoNewsFromTomorrow
<1>4. CASE FetchFailsStale(f)
  <2>1. cache'.entries = cache.entries /\ ~cache'.failed
    BY <1>2, <1>4 DEF FetchFailsStale
  <2>2. OutageHidesNobody'
    BY <1>1, <2>1 DEF IInv, OutageHidesNobody, HasEntries
  <2> QED
    BY <1>1, <1>3, <2>1, <2>2, FlightSettles
<1>5. CASE FetchFails(f)
  <2>1. cache'.entries = NoEntries /\ NoEntries.stamp = 0
    BY <1>5 DEF FetchFails, NoEntries
  <2>2. ~known
    BY <1>2, <1>5 DEF FetchFails, IInv, OutageHidesNobody
  <2>3. cache'.entries.stamp <= table.stamp
    BY <1>3, <2>1
  <2>4. SingleFlight' /\ Awaited' /\ NoNewsFromTomorrow'
    BY <1>1, <2>3, FlightSettles
  <2> QED
    BY <1>1, <2>2, <2>4 DEF OutageHidesNobody
<1> QED
  BY <1>4, <1>5

(* Time changes nothing of what the cache knows.                            *)
LEMMA TimePasses ==
  ASSUME TypeOK, Expires \/ Unblocks
  PROVE  /\ cache'.entries = cache.entries /\ cache'.refetching = cache.refetching
         /\ cache'.failed => cache.failed
<1>1. cache \in Cache
  BY DEF TypeOK
<1> QED
  BY <1>1 DEF Expires, Unblocks, Cache

LEMMA InvInit == Init => IInv
<1> SUFFICES ASSUME Init PROVE IInv
  OBVIOUS
<1>1. Idle \in Request /\ Idle.at # "waiting"
  BY DEF Request, Idle
<1>2. TypeOK
  BY <1>1, NoEntriesTyped DEF Init, TypeOK, Cache, ApiState
<1>3. SingleFlight /\ Awaited /\ OutageHidesNobody
  BY DEF Init, SingleFlight, Awaited, OutageHidesNobody
<1>4. NoNewsFromTomorrow
  BY DEF Init, NoNewsFromTomorrow, NoEntries
<1> QED
  BY <1>2, <1>3, <1>4 DEF IInv

LEMMA InvStep == IInv /\ [Next]_vars => IInv'
<1> SUFFICES ASSUME IInv, [Next]_vars PROVE IInv'
  OBVIOUS
<1>1. TypeOK'
  BY TypeStep DEF IInv
<1> DEFINE Rest == SingleFlight /\ Awaited /\ NoNewsFromTomorrow /\ OutageHidesNobody
<1>2. ASSUME NEW r \in Requests, Handles(r), ~StartFetch(r) PROVE Rest'
  <2>1. UNCHANGED <<cache, fetch, table, known>>
    BY <1>2 DEF Handles, Remembered, Cached, Join, ConfigLoaded, ConfigFails, Leave
  <2> QED
    BY <2>1, FlightStays
<1>3. ASSUME NEW r \in Requests, StartFetch(r) PROVE Rest'
  BY <1>3, FlightStarts
<1>4. ASSUME NEW f \in Fetches, ApiAnswers(f) \/ Settles(f) PROVE Rest'
  BY <1>4, FlightAnswered, SucceedsStep, FailsStep DEF Settles
<1>5. ASSUME NEW r \in Requests, NEW h \in Hosts, Arrive(r, h) PROVE Rest'
  BY <1>5, FlightStays DEF Arrive
<1>6. ASSUME NEW h \in Hosts, NEW s \in Status, TableChanges(h, s) PROVE Rest'
  BY <1>6, FlightStays DEF TableChanges
<1>7. ASSUME (\E s \in ApiState : ApiBecomes(s)) \/ UNCHANGED vars PROVE Rest'
  <2>1. UNCHANGED <<cache, fetch, table, known>>
    BY <1>7 DEF ApiBecomes, vars
  <2> QED
    BY <2>1, FlightStays
<1>8. ASSUME Expires \/ Unblocks PROVE Rest'
  <2>1. /\ cache'.entries = cache.entries /\ cache'.refetching = cache.refetching
        /\ cache'.failed => cache.failed
        /\ UNCHANGED <<table, fetch, known>>
    BY <1>8, TimePasses DEF Expires, Unblocks, IInv
  <2>2. SingleFlight' /\ Awaited'
    BY <2>1 DEF IInv, SingleFlight, FlightOf, Awaited
  <2>3. NoNewsFromTomorrow'
    BY <2>1 DEF IInv, NoNewsFromTomorrow
  <2>4. OutageHidesNobody'
    BY <2>1 DEF IInv, OutageHidesNobody, HasEntries
  <2> QED
    BY <2>2, <2>3, <2>4
<1> QED
  BY <1>1, <1>2, <1>3, <1>4, <1>5, <1>6, <1>7, <1>8 DEF Next, IInv

LEMMA NewsStep ==
  IInv /\ [Next]_vars =>
    [HasEntries(cache.entries) => cache'.entries.stamp >= cache.entries.stamp]_vars
<1> SUFFICES ASSUME IInv, [Next]_vars, HasEntries(cache.entries)
             PROVE  cache'.entries.stamp >= cache.entries.stamp
  OBVIOUS
<1>0. cache.entries.stamp \in Nat
  BY DEF IInv, TypeOK, Cache, Table
<1>1. ASSUME NEW f \in Fetches, FetchSucceeds(f) PROVE cache'.entries.stamp >= cache.entries.stamp
  BY <1>1 DEF FetchSucceeds, Refreshed, IInv, SingleFlight, FlightOf
<1>2. ASSUME NEW f \in Fetches, FetchFailsStale(f) \/ FetchFails(f)
      PROVE cache'.entries = cache.entries
  <2>1. fetch[f].stale = cache.entries
    BY <1>2 DEF FetchFailsStale, FetchFails, IInv, SingleFlight, FlightOf
  <2> QED
    BY <1>2, <2>1 DEF FetchFailsStale, FetchFails
<1>3. ASSUME NEW r \in Requests, Handles(r) PROVE cache'.entries = cache.entries
  BY <1>3 DEF Handles, Remembered, Cached, Join, StartFetch, Stale, ConfigLoaded, ConfigFails, Leave
<1>4. ASSUME Expires \/ Unblocks PROVE cache'.entries = cache.entries
  BY <1>4, TimePasses DEF IInv
<1> QED
  BY <1>0, <1>1, <1>2, <1>3, <1>4
  DEF Next, Settles, Arrive, ApiAnswers, TableChanges, ApiBecomes, vars

-----------------------------------------------------------------------------
(* The host's bindings keep their types.                                    *)
THEOREM BindingsTyped == Spec => []TypeOK
<1>1. IInv => TypeOK
  BY DEF IInv
<1> QED
  BY <1>1, InvInit, InvStep, PTL DEF Spec

(* While the API's last answer told of tenants, no outage hides them.       *)
THEOREM OutagesHideNobody == Spec => []OutageHidesNobody
<1>1. IInv => OutageHidesNobody
  BY DEF IInv
<1> QED
  BY <1>1, InvInit, InvStep, PTL DEF Spec

(* No refresh, however late it settles, puts back an older table.           *)
THEOREM BindingsNeverGoBack == Spec => EntriesNeverGoBack
BY InvInit, InvStep, NewsStep, PTL DEF Spec, EntriesNeverGoBack
=============================================================================
