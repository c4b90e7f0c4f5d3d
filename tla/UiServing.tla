----------------------------- MODULE UiServing -----------------------------
(***************************************************************************)
(* How the host serves the user interface of a runtime and of its tenants   *)
(* (host/src/services: tenant-runtime.ts, ui-compose.ts, ssr-render.ts,     *)
(* runtime-snapshot.ts): a request captures a generation, a tenant's        *)
(* override is verified through a cache of verifications, then the manifest *)
(* of every UI source is taken from the generation's cache or fetched, and  *)
(* the page is composed.  An asset request stops after the verification.    *)
(*                                                                         *)
(* Simplifications: a tenant overrides the UI of one source; a fetch reads  *)
(* what is deployed in the step that settles it, and may fail whatever is   *)
(* deployed; times to live end at any moment.  Every source names its       *)
(* manifest correctly and no two disagree on shared singletons.  Trees      *)
(* derived from the manifests are not kept apart from them.                 *)
(***************************************************************************)
EXTENDS Integers, FiniteSets

CONSTANTS
  Tenants, Base,  \* whose UI a host name shows
  Core, Plugins,  \* keys of the UI sources
  OverrideOf,     \* the source a tenant overrides
  Bare,           \* plugins that have a UI only where a tenant brings one
  Unpinned,       \* sites whose config has no manifestIntegrity
  Requests,       \* concurrent requests,
  AssetRequests,  \* the ones for an asset; the others are for a page
  Asks,           \* bound: the sites a request may ask for
  Redeployed,     \* bound: the sites whose address changes its answer
  MaxChecks,      \* bound: verifications in flight
  Versions,       \* bound: builds of one UI (and adoptable generations)
  None

Sites == Tenants \cup {Base}
Sources == Plugins \cup {Core}

ASSUME ServingAssumption ==
  /\ Base \notin Tenants /\ Core \notin Plugins
  /\ OverrideOf \in [Tenants -> Sources]
  /\ Bare \subseteq Plugins /\ Unpinned \subseteq Sites
  /\ AssetRequests \subseteq Requests /\ Asks \in [Requests -> SUBSET Sites]
  /\ Redeployed \subseteq Sites
  /\ Versions \in Nat \ {0}
  /\ MaxChecks \in Nat /\ None \notin Nat \cup Sites

Builds == 1..Versions
Checks == 1..MaxChecks
Resolved == 0  \* a settled verification: Promise.resolve()

VARIABLES
  deployed,    \* the build that answers at a site's URL
  generation,  \* the live RuntimeSnapshotState
  manifests,   \* remoteManifests of each generation's UiComposeCacheState
  verified,    \* verifiedUiCache, per tenant's override
  check,       \* verifications in flight: whose
  page,        \* what a request is doing
  sound        \* history: an override was verified since its entry expired

vars == <<deployed, generation, manifests, verified, check, page, sound>>

Manifest == [site : Sites, build : Builds]
CachedManifest == [site : Sites, build : Builds, fresh : BOOLEAN]
CachedVerification ==
  [fresh : BOOLEAN, value : Checks \cup {Resolved}, refreshing : Checks \cup {None}]

ASSUME NoneAssumption == None \notin CachedVerification

(* A source of a page: not looked at, being fetched (with the manifest it   *)
(* found cached), loaded, or dropped.                                       *)
Part == [at : {"todo", "dropped"}]
          \cup [at : {"asked"}, cached : CachedManifest \cup {None}]
          \cup [at : {"loaded"}, manifest : Manifest]
Idle == [at |-> "idle"]
Page ==
  {Idle}
    \cup [at : {"refused"}, site : Sites]
    \cup [at : {"admitting", "composing", "served"}, site : Sites,
          gen : Builds, parts : [Sources -> Part]]
    \cup [at : {"awaiting"}, site : Sites, gen : Builds,
          parts : [Sources -> Part], check : Checks,
          as : {"first", "refresh", "reader"}]

TypeOK ==
  /\ deployed \in [Sites -> Builds] /\ generation \in Builds
  /\ manifests \in [Builds -> [Sources -> CachedManifest \cup {None}]]
  /\ verified \in [Tenants -> CachedVerification \cup {None}]
  /\ check \in [Checks -> Tenants \cup {None}]
  /\ page \in [Requests -> Page]
  /\ sound \in [Tenants -> BOOLEAN]
  /\ \A r \in Requests : page[r].at = "awaiting" => check[page[r].check] = page[r].site

NoManifests == [k \in Sources |-> None]

Init ==
  /\ deployed = [s \in Sites |-> 1] /\ generation = 1
  /\ manifests = [g \in Builds |-> NoManifests]
  /\ verified = [t \in Tenants |-> None]
  /\ check = [c \in Checks |-> None]
  /\ page = [r \in Requests |-> Idle]
  /\ sound = [t \in Tenants |-> FALSE]

(* Whose UI a site shows for a source, and the build its config pins: a     *)
(* generation of the host pins its own, a tenant's published config the     *)
(* first.                                                                   *)
UiOf(s, k) == IF s \in Tenants /\ OverrideOf[s] = k THEN s ELSE Base
Pin(g, s) == IF s = Base THEN g ELSE 1

(* The tenants whose override is verified.  The loop over the plugins skips *)
(* one for which the base has no UI, though the tenant's has been put into  *)
(* the effective config by then.                                            *)
Compared == {t \in Tenants : OverrideOf[t] \notin Bare}

(* The sources a page starts from; the others are not on it.                *)
Unlooked(s) ==
  [k \in Sources |->
     [at |-> IF k \in Bare /\ UiOf(s, k) = Base THEN "dropped" ELSE "todo"]]

-----------------------------------------------------------------------------
Free == {c \in Checks : check[c] = None}
NextCheck(c) == c \in Free /\ \A d \in Free : c <= d

(* A request captures config and caches of one generation.  (Within the     *)
(* bound on verifications: one is left for everybody who may start one.)    *)
Arrive(r, s) ==
  /\ page[r] = Idle
  /\ Cardinality({q \in Requests : page[q].at = "admitting"}) < Cardinality(Free)
  /\ page' = [page EXCEPT ![r] = [at |-> "admitting", site |-> s,
                                  gen |-> generation, parts |-> Unlooked(s)]]
  /\ UNCHANGED <<deployed, generation, manifests, verified, check, sound>>

Admitted(r) ==
  [at |-> IF r \in AssetRequests THEN "served" ELSE "composing",
   site |-> page[r].site, gen |-> page[r].gen, parts |-> page[r].parts]
Refused(r) == [at |-> "refused", site |-> page[r].site]
Await(r, c, as) ==
  [at |-> "awaiting", site |-> page[r].site, gen |-> page[r].gen,
   parts |-> page[r].parts, check |-> c, as |-> as]
ReadValue(r, e) == IF e.value = Resolved THEN Admitted(r) ELSE Await(r, e.value, "reader")

(* Nothing to verify: no binding, or no UI of the base to compare with.     *)
NoOverride(r) ==
  /\ page[r].at = "admitting" /\ page[r].site \notin Compared
  /\ page' = [page EXCEPT ![r] = Admitted(r)]
  /\ UNCHANGED <<deployed, generation, manifests, verified, check, sound>>

(* verifyIntegrity: a cached verification that has not expired is enough.   *)
VerifyCached(r) ==
  /\ page[r].at = "admitting" /\ page[r].site \in Compared
  /\ LET e == verified[page[r].site] IN
       /\ e # None /\ e.fresh
       /\ page' = [page EXCEPT ![r] = ReadValue(r, e)]
  /\ UNCHANGED <<deployed, generation, manifests, verified, check, sound>>

VerifyFirst(r) ==
  /\ page[r].at = "admitting" /\ page[r].site \in Compared
  /\ verified[page[r].site] = None
  /\ \E c \in Checks :
       /\ NextCheck(c)
       /\ check' = [check EXCEPT ![c] = page[r].site]
       /\ verified' = [verified EXCEPT ![page[r].site] =
                         [fresh |-> TRUE, value |-> c, refreshing |-> None]]
       /\ page' = [page EXCEPT ![r] = Await(r, c, "first")]
  /\ UNCHANGED <<deployed, generation, manifests, sound>>

(* An expired one is refreshed, once: an asset request is answered by the   *)
(* old value meanwhile, a page waits for the refresh.                       *)
AfterRefreshNobodyWaits(r, e, c) == ReadValue(r, e)
AfterRefresh(r, e, c) ==
  IF r \in AssetRequests THEN ReadValue(r, e) ELSE Await(r, c, "refresh")

VerifyExpired(r) ==
  /\ page[r].at = "admitting" /\ page[r].site \in Compared
  /\ LET t == page[r].site
         e == verified[t]
     IN  /\ e # None /\ ~e.fresh
         /\ \/ /\ e.refreshing # None
               /\ page' = [page EXCEPT ![r] = AfterRefresh(r, e, e.refreshing)]
               /\ UNCHANGED <<verified, check>>
            \/ /\ e.refreshing = None
               /\ \E c \in Checks :
                    /\ NextCheck(c)
                    /\ check' = [check EXCEPT ![c] = t]
                    /\ verified' = [verified EXCEPT ![t].refreshing = c]
                    /\ page' = [page EXCEPT ![r] = AfterRefresh(r, e, c)]
  /\ UNCHANGED <<deployed, generation, manifests, sound>>

(* A verification settles and everything that awaits it goes on.  On        *)
(* success the first caller and the refresh mark whatever entry the key has *)
(* by then; on failure the entry goes if it is this verification's.         *)
SettlesOwner(r, c) ==
  page[r].at = "awaiting" /\ page[r].check = c /\ page[r].as # "refresh"
Settles(r, c) == page[r].at = "awaiting" /\ page[r].check = c

Checked == [fresh |-> TRUE, value |-> Resolved, refreshing |-> None]

CheckSucceeds(c) ==
  /\ check[c] # None
  /\ LET t == check[c]
         e == verified[t]
         waits(as) == \E r \in Requests : Settles(r, c) /\ page[r].as = as
     IN  /\ deployed[t] = Pin(generation, t)
         /\ verified' = [verified EXCEPT ![t] =
              IF e = None THEN None
              ELSE IF e.refreshing = c \/ waits("refresh") THEN Checked
              ELSE IF waits("first") THEN [e EXCEPT !.fresh = TRUE, !.value = Resolved]
              ELSE e]
         /\ sound' = [sound EXCEPT ![t] = TRUE]
  /\ page' = [r \in Requests |->
       IF Settles(r, c) THEN Admitted(r) ELSE page[r]]
  /\ check' = [check EXCEPT ![c] = None]
  /\ UNCHANGED <<deployed, generation, manifests>>

ForgetFailedFirst(e, c) == IF e # None /\ e.value = c THEN None ELSE e
ForgetFailed(e, c) == IF e # None /\ (e.value = c \/ e.refreshing = c) THEN None ELSE e

CheckFails(c) ==
  /\ check[c] # None
  /\ verified' = [verified EXCEPT ![check[c]] = ForgetFailed(@, c)]
  /\ page' = [r \in Requests |->
       IF Settles(r, c) THEN Refused(r) ELSE page[r]]
  /\ check' = [check EXCEPT ![c] = None]
  /\ UNCHANGED <<deployed, generation, manifests, sound>>

-----------------------------------------------------------------------------
(* Composition.  A generation's cache is keyed by source alone: a manifest  *)
(* fetched within the TTL is used whoever's it is.                          *)
CacheOfLive(p) == generation
CacheOf(p) == p.gen

SetPart(r, k, part) == page' = [page EXCEPT ![r].parts[k] = part]

ManifestCached(r, k) ==
  /\ page[r].at = "composing" /\ page[r].parts[k].at = "todo"
  /\ LET m == manifests[CacheOf(page[r])][k] IN
       /\ m # None /\ m.fresh
       /\ SetPart(r, k, [at |-> "loaded", manifest |-> [site |-> m.site, build |-> m.build]])
  /\ UNCHANGED <<deployed, generation, manifests, verified, check, sound>>

ManifestAsked(r, k) ==
  /\ page[r].at = "composing" /\ page[r].parts[k].at = "todo"
  /\ LET m == manifests[CacheOf(page[r])][k] IN
       /\ m # None => ~m.fresh
       /\ SetPart(r, k, [at |-> "asked", cached |-> m])
  /\ UNCHANGED <<deployed, generation, manifests, verified, check, sound>>

(* What the page loads is cached, a last-good manifest too.                 *)
Take(r, k, m) ==
  /\ SetPart(r, k, [at |-> "loaded", manifest |-> m])
  /\ manifests' = [manifests EXCEPT ![CacheOf(page[r])][k] =
                     [site |-> m.site, build |-> m.build, fresh |-> TRUE]]

(* The bytes are compared with the pin, if the config has one.              *)
ManifestFetched(r, k) ==
  /\ page[r].at = "composing" /\ page[r].parts[k].at = "asked"
  /\ LET s == UiOf(page[r].site, k) IN
       /\ s \in Unpinned \/ deployed[s] = Pin(page[r].gen, s)
       /\ Take(r, k, [site |-> s, build |-> deployed[s]])
  /\ UNCHANGED <<deployed, generation, verified, check, sound>>

LastGood(r, k) ==
  /\ page[r].at = "composing" /\ page[r].parts[k].at = "asked"
  /\ LET m == page[r].parts[k].cached
     IN  m # None /\ Take(r, k, [site |-> m.site, build |-> m.build])
  /\ UNCHANGED <<deployed, generation, verified, check, sound>>

(* Without a manifest, or without its code, a plugin source drops itself;   *)
(* the core's failure is the page's.                                        *)
Fails(r, k) ==
  page' = [page EXCEPT ![r] =
             IF k = Core THEN Refused(r) ELSE [@ EXCEPT !.parts[k] = [at |-> "dropped"]]]

NoManifest(r, k) ==
  /\ page[r].at = "composing" /\ page[r].parts[k].at = "asked"
  /\ page[r].parts[k].cached = None
  /\ Fails(r, k)
  /\ UNCHANGED <<deployed, generation, manifests, verified, check, sound>>

CodeFails(r, k) ==
  /\ page[r].at = "composing" /\ page[r].parts[k].at = "loaded"
  /\ \A j \in Sources : page[r].parts[j].at \in {"loaded", "dropped"}
  /\ Fails(r, k)
  /\ UNCHANGED <<deployed, generation, manifests, verified, check, sound>>

Composed(r) ==
  /\ page[r].at = "composing"
  /\ \A k \in Sources : page[r].parts[k].at \in {"loaded", "dropped"}
  /\ page' = [page EXCEPT ![r].at = "served"]
  /\ UNCHANGED <<deployed, generation, manifests, verified, check, sound>>

(* Nobody can reach the caches of a generation that is neither live nor     *)
(* captured: they are garbage.                                              *)
Captured(g) == \E r \in Requests : page[r].at \notin {"idle", "refused"} /\ page[r].gen = g

Leave(r) ==
  /\ page[r].at \in {"served", "refused"}
  /\ page' = [page EXCEPT ![r] = Idle]
  /\ manifests' = [g \in Builds |->
       IF g = generation \/ Captured(g)' THEN manifests[g] ELSE NoManifests]
  /\ UNCHANGED <<deployed, generation, verified, check, sound>>

-----------------------------------------------------------------------------
(* adopt: the next generation is composed first (its manifests fetched and  *)
(* checked), then takes over; the caches of the one it replaces are         *)
(* released, whoever still uses them.                                       *)
Swap ==
  /\ generation + 1 \in Builds /\ deployed[Base] = generation + 1
  /\ generation' = generation + 1
  /\ manifests' =
       [manifests EXCEPT ![generation] = NoManifests,
          ![generation + 1] =
            [k \in Sources |-> IF k \in Bare THEN None
               ELSE [site |-> Base, build |-> generation + 1, fresh |-> TRUE]]]
  /\ UNCHANGED <<deployed, verified, check, page, sound>>

(* Outside: deploys and rollbacks, and time.                                *)
Deploy(s, v) ==
  /\ deployed[s] # v
  /\ deployed' = [deployed EXCEPT ![s] = v]
  /\ UNCHANGED <<generation, manifests, verified, check, page, sound>>

ManifestExpires(k) ==
  /\ manifests[generation][k] # None /\ manifests[generation][k].fresh
  /\ manifests' = [manifests EXCEPT ![generation][k].fresh = FALSE]
  /\ UNCHANGED <<deployed, generation, verified, check, page, sound>>

VerificationExpires(t) ==
  /\ verified[t] # None /\ verified[t].fresh
  /\ verified' = [verified EXCEPT ![t].fresh = FALSE]
  /\ sound' = [sound EXCEPT ![t] = FALSE]
  /\ UNCHANGED <<deployed, generation, manifests, check, page>>

(* The cache of verifications is bounded: other tenants push an entry out.  *)
PushedOut(t) ==
  /\ verified[t] # None
  /\ verified' = [verified EXCEPT ![t] = None]
  /\ UNCHANGED <<deployed, generation, manifests, check, page, sound>>

Handles(r) ==
  \/ NoOverride(r) \/ VerifyCached(r) \/ VerifyFirst(r) \/ VerifyExpired(r)
  \/ \E k \in Sources :
       \/ ManifestCached(r, k) \/ ManifestAsked(r, k) \/ ManifestFetched(r, k)
       \/ LastGood(r, k) \/ NoManifest(r, k) \/ CodeFails(r, k)
  \/ Composed(r) \/ Leave(r)

Outside ==
  \/ \E s \in Redeployed, v \in Builds : Deploy(s, v)
  \/ \E k \in Sources : ManifestExpires(k)
  \/ \E t \in Tenants : PushedOut(t)

Next ==
  \/ \E r \in Requests : \E s \in Asks[r] : Arrive(r, s)
  \/ \E r \in Requests : Handles(r)
  \/ \E c \in Checks : CheckSucceeds(c) \/ CheckFails(c)
  \/ \E t \in Tenants : VerificationExpires(t)
  \/ Swap \/ Outside

Spec == Init /\ [][Next]_vars

(* Fetches settle, continuations run, time passes.  Nobody has to ask for   *)
(* a page, deploy or adopt.                                                 *)
FairSpec ==
  Spec /\ (\A r \in Requests : WF_vars(Handles(r)))
       /\ (\A c \in Checks : WF_vars(CheckSucceeds(c) \/ CheckFails(c)))
       /\ (\A t \in Tenants : WF_vars(VerificationExpires(t)))

-----------------------------------------------------------------------------
(* An override that replaces a UI of the base is shown only after its bytes *)
(* matched the tenant's pin: a request gets past the verification when one  *)
(* succeeded since the cached one expired, or, for an asset, while its      *)
(* refresh is in flight - whatever verifications of the key overlap, fail   *)
(* or are pushed out of the cache.  (verifyIntegrity.  An override where    *)
(* the base has no UI is not verified at all: Compared.)                    *)
AdmittedWasVerified ==
  [][\A r \in Requests :
       /\ page[r].at \in {"admitting", "awaiting"} /\ page[r].site \in Compared
       /\ page'[r].at \in {"composing", "served"}
       => \/ sound'[page[r].site]
          \/ /\ r \in AssetRequests /\ verified'[page[r].site] # None
             /\ verified'[page[r].site].refreshing # None]_vars

(* Drift is noticed: a tenant that replaces a UI of the base and whose URL  *)
(* answers other bytes from some time on is, from some time on, not shown   *)
(* any more (a failed refresh takes the entry it was to renew with it).     *)
DriftIsRefused ==
  \A t \in Compared :
    <>[](deployed[t] # 1) =>
      <>[](\A r \in Requests :
             page[r].at = "served" => page[r].site # t)

(* A page is of one generation: every manifest on it for which a pin was    *)
(* published matched the one of the generation the request captured,        *)
(* whatever is adopted, deployed or rolled back while it is composed        *)
(* (ssr-render.ts: "a swap can never split them across a request").         *)
PageOfOneGeneration ==
  \A r \in Requests :
    page[r].at \in {"composing", "served"} =>
      \A k \in Sources : page[r].parts[k].at = "loaded" =>
        LET m == page[r].parts[k].manifest IN
          m.site \in Unpinned \/ m.build = Pin(page[r].gen, m.site)

(* Every request is answered.                                               *)
RequestsEnd == \A r \in Requests : page[r] # Idle ~> page[r] = Idle
=============================================================================
