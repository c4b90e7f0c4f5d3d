-------------------------- MODULE UiServing_proofs --------------------------
(***************************************************************************)
(* What holds of the host's UI serving for any tenants, sources, requests   *)
(* and bounds: its state is typed, a page is composed of the manifests of   *)
(* one generation, and no override of a UI passes an unverified entry.      *)
(***************************************************************************)
EXTENDS UiServing, TLAPS

USE ServingAssumption

Parts == [Sources -> Part]
Bodies == [at : {"admitting", "composing", "served"}, site : Sites, gen : Builds, parts : Parts]

(* A cached verification that is still running has a request that started   *)
(* it and waits for it: whoever settles it also settles the entry.          *)
Awaited ==
  \A t \in Tenants : verified[t] # None =>
    /\ verified[t].value \in Checks =>
         /\ check[verified[t].value] = t
         /\ \E r \in Requests :
              /\ page[r].at = "awaiting"
              /\ page[r].check = verified[t].value /\ page[r].as = "first"
    /\ verified[t].refreshing \in Checks => check[verified[t].refreshing] = t

LEMMA Numbers == Resolved \notin Checks /\ None \notin Checks /\ None \notin Sites
BY DEF Resolved, Checks

LEMMA PageForms ==
  ASSUME TypeOK, NEW r \in Requests
  PROVE  /\ page[r].at \in {"admitting", "composing", "served"} => page[r] \in Bodies
         /\ page[r].at \in {"admitting", "awaiting"} =>
              page[r].site \in Sites /\ page[r].gen \in Builds /\ page[r].parts \in Parts
         /\ page[r].at = "awaiting" =>
              /\ page[r].check \in Checks /\ check[page[r].check] = page[r].site
              /\ page[r].site \in Tenants
<1>1. page[r] \in Page
  BY DEF TypeOK
<1>2. page[r].at \in {"admitting", "composing", "served"} => page[r] \in Bodies
  BY <1>1 DEF Page, Bodies, Parts, Idle
<1>3. page[r].at \in {"admitting", "awaiting"} =>
        page[r].site \in Sites /\ page[r].gen \in Builds /\ page[r].parts \in Parts
  BY <1>1 DEF Page, Parts, Idle
<1>4. page[r].at = "awaiting" =>
        page[r].check \in Checks /\ check[page[r].check] = page[r].site
  BY <1>1 DEF Page, TypeOK, Idle
<1>5. page[r].at = "awaiting" => page[r].site \in Tenants
  BY <1>3, <1>4, Numbers DEF TypeOK
<1> QED
  BY <1>2, <1>3, <1>4, <1>5

LEMMA BodiesArePages == Bodies \subseteq Page
BY DEF Bodies, Page, Parts

LEMMA AdmittedTyped ==
  ASSUME TypeOK, NEW r \in Requests, page[r].at \in {"admitting", "awaiting"}
  PROVE  Admitted(r) \in Bodies /\ Refused(r) \in Page
<1>1. page[r].site \in Sites /\ page[r].gen \in Builds /\ page[r].parts \in Parts
  BY PageForms
<1> QED
  BY <1>1 DEF Admitted, Refused, Bodies, Page

LEMMA AwaitTyped ==
  ASSUME TypeOK, NEW r \in Requests, page[r].at = "admitting",
         NEW c \in Checks, NEW as \in {"first", "refresh", "reader"}
  PROVE  Await(r, c, as) \in Page
<1>1. page[r].site \in Sites /\ page[r].gen \in Builds /\ page[r].parts \in Parts
  BY PageForms
<1> QED
  BY <1>1 DEF Await, Page, Parts

(* One request goes on and awaits no verification that is not its site's.   *)
LEMMA OneMoves ==
  ASSUME TypeOK, NEW r \in Requests, NEW p \in Page, page' = [page EXCEPT ![r] = p],
         check' \in [Checks -> Tenants \cup {None}],
         \A c \in Checks : check[c] # None => check'[c] = check[c],
         p.at = "awaiting" => check'[p.check] = p.site
  PROVE  /\ page' \in [Requests -> Page]
         /\ \A q \in Requests : page'[q].at = "awaiting" => check'[page'[q].check] = page'[q].site
<1>1. page' \in [Requests -> Page]
  BY DEF TypeOK
<1>2. ASSUME NEW q \in Requests, q # r, page[q].at = "awaiting"
      PROVE  check'[page[q].check] = page[q].site
  BY <1>2, PageForms, Numbers
<1> QED
  BY <1>1, <1>2 DEF TypeOK

(* A verification settles: everybody who awaits it goes on, the others'     *)
(* verifications stay.                                                      *)
LEMMA AllMove ==
  ASSUME TypeOK, NEW c \in Checks, NEW F,
         \A r \in Requests : Settles(r, c) => F[r] \in Page /\ F[r].at # "awaiting",
         page' = [r \in Requests |-> IF Settles(r, c) THEN F[r] ELSE page[r]],
         check' = [check EXCEPT ![c] = None]
  PROVE  /\ page' \in [Requests -> Page]
         /\ check' \in [Checks -> Tenants \cup {None}]
         /\ \A q \in Requests : page'[q].at = "awaiting" => check'[page'[q].check] = page'[q].site
<1>1. page' \in [Requests -> Page] /\ check' \in [Checks -> Tenants \cup {None}]
  BY DEF TypeOK
<1>2. ASSUME NEW q \in Requests, page'[q].at = "awaiting"
      PROVE  check'[page'[q].check] = page'[q].site
  <2>1. page'[q] = page[q] /\ ~Settles(q, c)
    BY <1>2
  <2>2. page[q].check \in Checks /\ page[q].check # c /\ check[page[q].check] = page[q].site
    BY <1>2, <2>1, PageForms DEF Settles
  <2> QED
    BY <2>1, <2>2 DEF TypeOK
<1> QED
  BY <1>1, <1>2

-----------------------------------------------------------------------------
(* Type correctness, with the in-flight verifications it needs.             *)
LEMMA ReadValueTyped ==
  ASSUME TypeOK, Awaited, NEW r \in Requests, page[r].at = "admitting", page[r].site \in Tenants,
         verified[page[r].site] # None
  PROVE  LET p == ReadValue(r, verified[page[r].site]) IN
           p \in Page /\ (p.at = "awaiting" => check[p.check] = p.site)
<1> DEFINE e == verified[page[r].site]
<1>1. e.value \in Checks \cup {Resolved}
  BY DEF TypeOK, CachedVerification
<1>2. CASE e.value = Resolved
  <2>1. ReadValue(r, e) = Admitted(r) /\ Admitted(r) \in Page /\ Admitted(r).at # "awaiting"
    BY <1>2, AdmittedTyped, BodiesArePages DEF ReadValue, Admitted
  <2> QED
    BY <2>1
<1>3. CASE e.value # Resolved
  <2>1. check[e.value] = page[r].site
    BY <1>1, <1>3 DEF Awaited
  <2>2. ReadValue(r, e) = Await(r, e.value, "reader") /\ Await(r, e.value, "reader") \in Page
    BY <1>1, <1>3, AwaitTyped DEF ReadValue
  <2> QED
    BY <2>1, <2>2 DEF Await
<1> QED
  BY <1>2, <1>3

LEMMA SetPartTyped ==
  ASSUME TypeOK, NEW r \in Requests, NEW k \in Sources, NEW part \in Part,
         page[r].at = "composing", SetPart(r, k, part), check' = check
  PROVE  /\ page' \in [Requests -> Page]
         /\ \A q \in Requests : page'[q].at = "awaiting" => check'[page'[q].check] = page'[q].site
         /\ page' = [page EXCEPT ![r] = [page[r] EXCEPT !.parts = [page[r].parts EXCEPT ![k] = part]]]
<1> DEFINE p == [page[r] EXCEPT !.parts = [page[r].parts EXCEPT ![k] = part]]
<1>1. page[r] \in Bodies
  BY PageForms
<1>2. p \in Bodies /\ p.at = "composing"
  BY <1>1 DEF Bodies, Parts
<1>3. page' = [page EXCEPT ![r] = p]
  BY DEF SetPart
<1> HIDE DEF p
<1>4. p \in Page
  BY <1>2, BodiesArePages
<1>5. check' \in [Checks -> Tenants \cup {None}]
  BY DEF TypeOK
<1>6. /\ page' \in [Requests -> Page]
      /\ \A q \in Requests : page'[q].at = "awaiting" => check'[page'[q].check] = page'[q].site
  BY <1>2, <1>3, <1>4, <1>5, OneMoves
<1> QED
  BY <1>3, <1>6 DEF p

LEMMA TypeInit == Init => TypeOK
<1>1. 1 \in Builds
  BY DEF Builds
<1>2. Idle \in Page /\ Idle.at # "awaiting"
  BY DEF Idle, Page
<1> QED
  BY <1>1, <1>2 DEF Init, TypeOK, NoManifests

(* The bookkeeping of verifications keeps its types.                        *)
LEMMA VerifiedTyped ==
  ASSUME TypeOK, NEW t \in Tenants, NEW e \in CachedVerification \cup {None},
         verified' = [verified EXCEPT ![t] = e]
  PROVE  verified' \in [Tenants -> CachedVerification \cup {None}]
BY DEF TypeOK

LEMMA VerifyTyped ==
  ASSUME TypeOK, Awaited, NEW r \in Requests, VerifyCached(r) \/ VerifyFirst(r) \/ VerifyExpired(r)
  PROVE  TypeOK'
<1> DEFINE t == page[r].site
           e == verified[t]
<1>0. t \in Tenants /\ page[r].at = "admitting"
  BY DEF VerifyCached, VerifyFirst, VerifyExpired, Compared
<1>1. CASE VerifyCached(r)
  <2>1. page' = [page EXCEPT ![r] = ReadValue(r, e)] /\ e # None
    BY <1>1 DEF VerifyCached
  <2>2. ReadValue(r, e) \in Page
          /\ (ReadValue(r, e).at = "awaiting" => check[ReadValue(r, e).check] = ReadValue(r, e).site)
    BY <1>0, <2>1, ReadValueTyped
  <2>3. UNCHANGED <<deployed, generation, manifests, verified, check, sound>>
    BY <1>1 DEF VerifyCached
  <2> HIDE DEF e, t
  <2>4. /\ page' \in [Requests -> Page]
        /\ \A q \in Requests : page'[q].at = "awaiting" => check'[page'[q].check] = page'[q].site
    BY <2>1, <2>2, <2>3, OneMoves DEF TypeOK
  <2> QED
    BY <2>3, <2>4 DEF TypeOK
<1>2. CASE VerifyFirst(r)
  <2>1. PICK c \in Checks :
          /\ check[c] = None
          /\ check' = [check EXCEPT ![c] = t]
          /\ verified' = [verified EXCEPT ![t] = [fresh |-> TRUE, value |-> c, refreshing |-> None]]
          /\ page' = [page EXCEPT ![r] = Await(r, c, "first")]
    BY <1>2 DEF VerifyFirst, NextCheck, Free
  <2>2. Await(r, c, "first") \in Page /\ Await(r, c, "first").site = t
          /\ Await(r, c, "first").check = c
    BY <1>0, AwaitTyped DEF Await
  <2>3. [fresh |-> TRUE, value |-> c, refreshing |-> None] \in CachedVerification
    BY DEF CachedVerification
  <2>4. check' \in [Checks -> Tenants \cup {None}] /\ check'[c] = t
          /\ \A d \in Checks : check[d] # None => check'[d] = check[d]
    BY <1>0, <2>1 DEF TypeOK
  <2>5. verified' \in [Tenants -> CachedVerification \cup {None}]
    BY <1>0, <2>1, <2>3, VerifiedTyped
  <2>6. UNCHANGED <<deployed, generation, manifests, sound>>
    BY <1>2 DEF VerifyFirst
  <2>7. /\ page' \in [Requests -> Page]
        /\ \A q \in Requests : page'[q].at = "awaiting" => check'[page'[q].check] = page'[q].site
    BY <2>1, <2>2, <2>4, OneMoves
  <2> QED
    BY <2>4, <2>5, <2>6, <2>7 DEF TypeOK
<1>3. CASE VerifyExpired(r)
  <2>1. PICK c \in Checks :
          /\ page' = [page EXCEPT ![r] = AfterRefresh(r, e, c)]
          /\ \/ e.refreshing = c /\ UNCHANGED <<verified, check>>
             \/ /\ check[c] = None /\ check' = [check EXCEPT ![c] = t]
                /\ verified' = [verified EXCEPT ![t] = [e EXCEPT !.refreshing = c]]
    <3>1. e \in CachedVerification
      BY <1>0, <1>3 DEF VerifyExpired, TypeOK
    <3>2. e.refreshing \in Checks \cup {None}
      BY <3>1 DEF CachedVerification
    <3> QED
      BY <1>3, <3>2 DEF VerifyExpired, NextCheck, Free
  <2>2. e # None /\ e \in CachedVerification
    BY <1>0, <1>3 DEF VerifyExpired, TypeOK
  <2>3. UNCHANGED <<deployed, generation, manifests, sound>>
    BY <1>3 DEF VerifyExpired
  <2>4. /\ check' \in [Checks -> Tenants \cup {None}] /\ check'[c] = t
        /\ \A d \in Checks : check[d] # None => check'[d] = check[d]
    <3>1. CASE e.refreshing = c /\ UNCHANGED <<verified, check>>
      BY <1>0, <2>2, <3>1 DEF TypeOK, Awaited
    <3>2. CASE check[c] = None /\ check' = [check EXCEPT ![c] = t]
      BY <1>0, <3>2 DEF TypeOK
    <3> QED
      BY <2>1, <3>1, <3>2
  <2>5. verified' \in [Tenants -> CachedVerification \cup {None}]
    <3>1. [e EXCEPT !.refreshing = c] \in CachedVerification
      BY <2>2 DEF CachedVerification
    <3> QED
      BY <1>0, <2>1, <3>1, VerifiedTyped DEF TypeOK
  <2>6. /\ AfterRefresh(r, e, c) \in Page
        /\ AfterRefresh(r, e, c).at = "awaiting" =>
             check'[AfterRefresh(r, e, c).check] = AfterRefresh(r, e, c).site
    <3>1. CASE r \in AssetRequests
      <4>1. AfterRefresh(r, e, c) = ReadValue(r, e)
        BY <3>1 DEF AfterRefresh
      <4>2. ReadValue(r, e) \in Page
              /\ (ReadValue(r, e).at = "awaiting" => check[ReadValue(r, e).check] = ReadValue(r, e).site)
        BY <1>0, <2>2, ReadValueTyped
      <4>3. ASSUME ReadValue(r, e).at = "awaiting"
            PROVE  ReadValue(r, e).check \in Checks /\ ReadValue(r, e).site = t
        <5>1. e.value \in Checks \cup {Resolved}
          BY <2>2 DEF CachedVerification
        <5> QED
          BY <4>3, <5>1 DEF ReadValue, Await, Admitted
      <4> HIDE DEF e
      <4> QED
        BY <1>0, <2>4, <4>1, <4>2, <4>3, Numbers DEF Sites
    <3>2. CASE r \notin AssetRequests
      <4>1. AfterRefresh(r, e, c) = Await(r, c, "refresh")
        BY <3>2 DEF AfterRefresh
      <4>2. Await(r, c, "refresh") \in Page /\ Await(r, c, "refresh").check = c
              /\ Await(r, c, "refresh").site = t
        BY <1>0, AwaitTyped DEF Await
      <4> QED
        BY <2>4, <4>1, <4>2
    <3> QED
      BY <3>1, <3>2
  <2> HIDE DEF e
  <2>7. /\ page' \in [Requests -> Page]
        /\ \A q \in Requests : page'[q].at = "awaiting" => check'[page'[q].check] = page'[q].site
    BY <2>1, <2>4, <2>6, OneMoves
  <2> QED
    BY <2>3, <2>4, <2>5, <2>7 DEF TypeOK
<1> QED
  BY <1>1, <1>2, <1>3

LEMMA CheckTyped ==
  ASSUME TypeOK, NEW c \in Checks, CheckSucceeds(c) \/ CheckFails(c)
  PROVE  TypeOK'
<1> DEFINE t == check[c]
           e == verified[t]
<1>0. t \in Tenants /\ e \in CachedVerification \cup {None}
  BY DEF TypeOK, CheckSucceeds, CheckFails
<1> DEFINE F == [r \in Requests |-> IF CheckSucceeds(c) THEN Admitted(r) ELSE Refused(r)]
<1>a. CheckSucceeds(c) =>
        page' = [r \in Requests |-> IF Settles(r, c) THEN Admitted(r) ELSE page[r]]
  BY DEF CheckSucceeds
<1>b. CheckFails(c) =>
        page' = [r \in Requests |-> IF Settles(r, c) THEN Refused(r) ELSE page[r]]
  BY DEF CheckFails
<1>1. page' = [r \in Requests |-> IF Settles(r, c) THEN F[r] ELSE page[r]]
  BY <1>a, <1>b
<1>2. \A r \in Requests : Settles(r, c) => F[r] \in Page /\ F[r].at # "awaiting"
  <2> SUFFICES ASSUME NEW r \in Requests, Settles(r, c)
               PROVE  F[r] \in Page /\ F[r].at # "awaiting"
    OBVIOUS
  <2>1. Admitted(r) \in Page /\ Refused(r) \in Page
    BY AdmittedTyped, BodiesArePages DEF Settles
  <2>2. Admitted(r).at # "awaiting" /\ Refused(r).at # "awaiting"
    BY DEF Admitted, Refused
  <2> QED
    BY <2>1, <2>2
<1> HIDE DEF F
<1>3. check' = [check EXCEPT ![c] = None]
  BY DEF CheckSucceeds, CheckFails
<1>4. /\ page' \in [Requests -> Page]
      /\ check' \in [Checks -> Tenants \cup {None}]
      /\ \A q \in Requests : page'[q].at = "awaiting" => check'[page'[q].check] = page'[q].site
  BY <1>1, <1>2, <1>3, AllMove
<1>5. Checked \in CachedVerification
  BY DEF Checked, CachedVerification
<1>6. e # None => [e EXCEPT !.fresh = TRUE, !.value = Resolved] \in CachedVerification
  BY <1>0 DEF CachedVerification
<1>7. verified' \in [Tenants -> CachedVerification \cup {None}]
  <2>1. CASE CheckSucceeds(c)
    <3>1. PICK f \in {None, Checked, [e EXCEPT !.fresh = TRUE, !.value = Resolved], e} :
            /\ verified' = [verified EXCEPT ![t] = f]
            /\ e = None => f = None
      BY <2>1 DEF CheckSucceeds
    <3>2. f \in CachedVerification \cup {None}
      BY <1>0, <1>5, <1>6, <3>1
    <3> QED
      BY <1>0, <3>1, <3>2, VerifiedTyped
  <2>2. CASE CheckFails(c)
    <3>1. PICK f \in {None, e} : verified' = [verified EXCEPT ![t] = f]
      BY <2>2 DEF CheckFails, ForgetFailed
    <3> QED
      BY <1>0, <3>1, VerifiedTyped
  <2> QED
    BY <2>1, <2>2
<1>8. sound' \in [Tenants -> BOOLEAN] /\ UNCHANGED <<deployed, generation, manifests>>
  BY DEF CheckSucceeds, CheckFails, TypeOK
<1> QED
  BY <1>4, <1>7, <1>8 DEF TypeOK

LEMMA LookedUpTyped ==
  ASSUME TypeOK, NEW r \in Requests, NEW k \in Sources, page[r].at = "composing"
  PROVE  /\ page[r].gen \in Builds /\ page[r].site \in Sites /\ page[r].parts[k] \in Part
         /\ manifests[page[r].gen][k] \in CachedManifest \cup {None}
<1>1. page[r] \in Bodies
  BY PageForms
<1>2. page[r].gen \in Builds /\ page[r].site \in Sites /\ page[r].parts[k] \in Part
  BY <1>1 DEF Bodies, Parts
<1> QED
  BY <1>2 DEF TypeOK

LEMMA TakeTyped ==
  ASSUME TypeOK, NEW r \in Requests, NEW k \in Sources, NEW m \in Manifest,
         page[r].at = "composing", Take(r, k, m),
         UNCHANGED <<deployed, generation, verified, check, sound>>
  PROVE  TypeOK'
<1>1. [at |-> "loaded", manifest |-> m] \in Part
  BY DEF Part
<1>2. [site |-> m.site, build |-> m.build, fresh |-> TRUE] \in CachedManifest
  BY DEF Manifest, CachedManifest
<1>3. page[r].gen \in Builds
  BY LookedUpTyped
<1>4. manifests' = [manifests EXCEPT ![page[r].gen] = [manifests[page[r].gen] EXCEPT ![k] =
                      [site |-> m.site, build |-> m.build, fresh |-> TRUE]]]
  BY DEF Take, CacheOf
<1>5. manifests' \in [Builds -> [Sources -> CachedManifest \cup {None}]]
  BY <1>2, <1>3, <1>4 DEF TypeOK
<1>6. /\ page' \in [Requests -> Page]
      /\ \A q \in Requests : page'[q].at = "awaiting" => check'[page'[q].check] = page'[q].site
  BY <1>1, SetPartTyped DEF Take
<1> QED
  BY <1>5, <1>6 DEF TypeOK

LEMMA FailsTyped ==
  ASSUME TypeOK, NEW r \in Requests, NEW k \in Sources, page[r].at = "composing", Fails(r, k),
         UNCHANGED <<deployed, generation, manifests, verified, check, sound>>
  PROVE  TypeOK'
<1>1. CASE k = Core
  <2>1. page' = [page EXCEPT ![r] = Refused(r)]
    BY <1>1 DEF Fails
  <2>2. Refused(r) \in Page /\ Refused(r).at # "awaiting"
    BY LookedUpTyped DEF Refused, Page
  <2> QED
    BY <2>1, <2>2, OneMoves DEF TypeOK
<1>2. CASE k # Core
  <2>1. [at |-> "dropped"] \in Part
    BY DEF Part
  <2>2. SetPart(r, k, [at |-> "dropped"])
    BY <1>2 DEF Fails, SetPart
  <2> QED
    BY <2>1, <2>2, SetPartTyped DEF TypeOK
<1> QED
  BY <1>1, <1>2

LEMMA ComposeTyped ==
  ASSUME TypeOK, NEW r \in Requests, NEW k \in Sources,
         \/ ManifestCached(r, k) \/ ManifestAsked(r, k) \/ ManifestFetched(r, k)
         \/ LastGood(r, k) \/ NoManifest(r, k) \/ CodeFails(r, k)
  PROVE  TypeOK'
<1>0. page[r].at = "composing"
  BY DEF ManifestCached, ManifestAsked, ManifestFetched, LastGood, NoManifest, CodeFails
<1>1. CASE ManifestCached(r, k)
  <2> DEFINE m == manifests[page[r].gen][k]
  <2>1. m \in CachedManifest /\ SetPart(r, k, [at |-> "loaded", manifest |-> [site |-> m.site, build |-> m.build]])
    BY <1>0, <1>1, LookedUpTyped DEF ManifestCached, CacheOf
  <2>2. [at |-> "loaded", manifest |-> [site |-> m.site, build |-> m.build]] \in Part
    BY <2>1 DEF CachedManifest, Manifest, Part
  <2>3. UNCHANGED <<deployed, generation, manifests, verified, check, sound>>
    BY <1>1 DEF ManifestCached
  <2> HIDE DEF m
  <2> QED
    BY <1>0, <2>1, <2>2, <2>3, SetPartTyped DEF TypeOK
<1>2. CASE ManifestAsked(r, k)
  <2> DEFINE m == manifests[page[r].gen][k]
  <2>1. [at |-> "asked", cached |-> m] \in Part /\ SetPart(r, k, [at |-> "asked", cached |-> m])
    BY <1>0, <1>2, LookedUpTyped DEF ManifestAsked, CacheOf, Part
  <2>3. UNCHANGED <<deployed, generation, manifests, verified, check, sound>>
    BY <1>2 DEF ManifestAsked
  <2> HIDE DEF m
  <2> QED
    BY <1>0, <2>1, <2>3, SetPartTyped DEF TypeOK
<1>3. CASE ManifestFetched(r, k)
  <2> DEFINE s == UiOf(page[r].site, k)
  <2>1. s \in Sites
    BY <1>0, LookedUpTyped DEF UiOf, Sites
  <2>2. [site |-> s, build |-> deployed[s]] \in Manifest
    BY <2>1 DEF Manifest, TypeOK
  <2>3. Take(r, k, [site |-> s, build |-> deployed[s]])
          /\ UNCHANGED <<deployed, generation, verified, check, sound>>
    BY <1>3 DEF ManifestFetched
  <2> HIDE DEF s
  <2> QED
    BY <1>0, <2>2, <2>3, TakeTyped
<1>4. CASE LastGood(r, k)
  <2> DEFINE m == page[r].parts[k].cached
  <2>1. m \in CachedManifest
    BY <1>0, <1>4, LookedUpTyped DEF LastGood, Part
  <2>2. [site |-> m.site, build |-> m.build] \in Manifest
    BY <2>1 DEF CachedManifest, Manifest
  <2>3. Take(r, k, [site |-> m.site, build |-> m.build])
          /\ UNCHANGED <<deployed, generation, verified, check, sound>>
    BY <1>4 DEF LastGood
  <2> HIDE DEF m
  <2> QED
    BY <1>0, <2>2, <2>3, TakeTyped
<1>5. CASE NoManifest(r, k) \/ CodeFails(r, k)
  BY <1>0, <1>5, FailsTyped DEF NoManifest, CodeFails
<1> QED
  BY <1>1, <1>2, <1>3, <1>4, <1>5

(* Whoever leaves takes unreachable caches along, and nothing else.         *)
LEMMA Released ==
  ASSUME NEW r \in Requests, Leave(r), NEW g \in Builds
  PROVE  manifests'[g] = manifests[g] \/ manifests'[g] = NoManifests
BY DEF Leave

LEMMA ReleasedTyped ==
  ASSUME TypeOK, NEW r \in Requests, Leave(r)
  PROVE  manifests' \in [Builds -> [Sources -> CachedManifest \cup {None}]]
<1> DEFINE Caches == [Sources -> CachedManifest \cup {None}]
           kept(g) == g = generation \/ Captured(g)'
<1>1. NoManifests \in Caches /\ manifests \in [Builds -> Caches]
  BY DEF NoManifests, TypeOK
<1>2. manifests' = [g \in Builds |-> IF kept(g) THEN manifests[g] ELSE NoManifests]
  BY DEF Leave
<1> HIDE DEF Caches, kept
<1>3. manifests' \in [Builds -> Caches]
  BY <1>1, <1>2
<1> QED
  BY <1>3 DEF Caches

(* The type invariant of tenant-runtime.ts and ui-compose.ts.               *)
LEMMA TypeStep == TypeOK /\ Awaited /\ [Next]_vars => TypeOK'
<1> SUFFICES ASSUME TypeOK, Awaited, [Next]_vars PROVE TypeOK'
  OBVIOUS
<1>1. ASSUME NEW r \in Requests, NEW s \in Sites, Arrive(r, s) PROVE TypeOK'
  <2> DEFINE p == [at |-> "admitting", site |-> s, gen |-> generation, parts |-> Unlooked(s)]
  <2>1. Unlooked(s) \in Parts
    BY DEF Unlooked, Parts, Part
  <2>2. p \in Page /\ p.at # "awaiting"
    BY <2>1 DEF Page, Parts, TypeOK
  <2>3. page' = [page EXCEPT ![r] = p]
          /\ UNCHANGED <<deployed, generation, manifests, verified, check, sound>>
    BY <1>1 DEF Arrive
  <2> HIDE DEF p
  <2> QED
    BY <2>2, <2>3, OneMoves DEF TypeOK
<1>2. ASSUME NEW r \in Requests, NoOverride(r) \/ Composed(r) \/ Leave(r) PROVE TypeOK'
  <2>1. page[r].at = "admitting" => Admitted(r) \in Page /\ Admitted(r).at # "awaiting"
    BY AdmittedTyped, BodiesArePages DEF Admitted
  <2>2. page[r].at = "composing" =>
          [page[r] EXCEPT !.at = "served"] \in Page /\ [page[r] EXCEPT !.at = "served"].at = "served"
    <3>1. page[r].at = "composing" => [page[r] EXCEPT !.at = "served"] \in Bodies
      BY PageForms DEF Bodies
    <3> QED
      BY <3>1, PageForms, BodiesArePages DEF Bodies
  <2>3. Idle \in Page /\ Idle.at # "awaiting"
    BY DEF Idle, Page
  <2>4. PICK p \in Page : p.at # "awaiting" /\ page' = [page EXCEPT ![r] = p]
    BY <1>2, <2>1, <2>2, <2>3 DEF NoOverride, Composed, Leave
  <2>5. UNCHANGED <<deployed, generation, verified, check, sound>>
    BY <1>2 DEF NoOverride, Composed, Leave
  <2>6. manifests' \in [Builds -> [Sources -> CachedManifest \cup {None}]]
    BY <1>2, ReleasedTyped DEF NoOverride, Composed, TypeOK
  <2> QED
    BY <2>4, <2>5, <2>6, OneMoves DEF TypeOK
<1>3. ASSUME NEW r \in Requests, VerifyCached(r) \/ VerifyFirst(r) \/ VerifyExpired(r)
      PROVE TypeOK'
  BY <1>3, VerifyTyped
<1>4. ASSUME NEW r \in Requests, NEW k \in Sources,
             \/ ManifestCached(r, k) \/ ManifestAsked(r, k) \/ ManifestFetched(r, k)
             \/ LastGood(r, k) \/ NoManifest(r, k) \/ CodeFails(r, k)
      PROVE TypeOK'
  BY <1>4, ComposeTyped
<1>5. ASSUME NEW c \in Checks, CheckSucceeds(c) \/ CheckFails(c) PROVE TypeOK'
  BY <1>5, CheckTyped
<1>6. ASSUME Swap PROVE TypeOK'
  <2>1. generation + 1 \in Builds /\ generation' = generation + 1
    BY <1>6 DEF Swap
  <2>2. [k \in Sources |-> IF k \in Bare THEN None
            ELSE [site |-> Base, build |-> generation + 1, fresh |-> TRUE]]
          \in [Sources -> CachedManifest \cup {None}]
    BY <2>1 DEF CachedManifest, Sites
  <2>3. NoManifests \in [Sources -> CachedManifest \cup {None}]
    BY DEF NoManifests
  <2> QED
    BY <1>6, <2>1, <2>2, <2>3 DEF Swap, TypeOK
<1>7. ASSUME NEW s \in Sites, NEW v \in Builds, Deploy(s, v) PROVE TypeOK'
  BY <1>7 DEF Deploy, TypeOK
<1>8. ASSUME NEW k \in Sources, ManifestExpires(k) PROVE TypeOK'
  <2>0. manifests[generation][k] \in CachedManifest
    BY <1>8 DEF ManifestExpires, TypeOK
  <2>1. [manifests[generation][k] EXCEPT !.fresh = FALSE] \in CachedManifest
    BY <2>0 DEF CachedManifest
  <2>2. manifests' = [manifests EXCEPT ![generation] = [manifests[generation] EXCEPT ![k] =
                        [manifests[generation][k] EXCEPT !.fresh = FALSE]]]
    BY <1>8 DEF ManifestExpires
  <2> QED
    BY <1>8, <2>1, <2>2 DEF ManifestExpires, TypeOK
<1>9. ASSUME NEW t \in Tenants, VerificationExpires(t) PROVE TypeOK'
  <2>0. verified[t] \in CachedVerification
    BY <1>9 DEF VerificationExpires, TypeOK
  <2>1. [verified[t] EXCEPT !.fresh = FALSE] \in CachedVerification
    BY <2>0 DEF CachedVerification
  <2>2. verified' = [verified EXCEPT ![t] = [verified[t] EXCEPT !.fresh = FALSE]]
    BY <1>9 DEF VerificationExpires
  <2> QED
    BY <1>9, <2>1, <2>2 DEF VerificationExpires, TypeOK
<1>10. ASSUME NEW t \in Tenants, PushedOut(t) PROVE TypeOK'
  BY <1>10 DEF PushedOut, TypeOK
<1>11. ASSUME UNCHANGED vars PROVE TypeOK'
  BY <1>11 DEF vars, TypeOK
<1> QED
  BY <1>1, <1>2, <1>3, <1>4, <1>5, <1>6, <1>7, <1>8, <1>9, <1>10, <1>11
  DEF Next, Handles, Outside

-----------------------------------------------------------------------------
(* Whoever started the verification an entry names still waits for it.      *)

LEMMA AwaitedStays ==
  ASSUME Awaited, UNCHANGED <<verified, check>>,
         \A q \in Requests : page[q].at = "awaiting" => page'[q] = page[q]
  PROVE  Awaited'
BY DEF Awaited

LEMMA OneMovesAwaited ==
  ASSUME TypeOK, Awaited, UNCHANGED <<verified, check>>, NEW r \in Requests, NEW p,
         page[r].at # "awaiting", page' = [page EXCEPT ![r] = p]
  PROVE  Awaited'
BY AwaitedStays DEF TypeOK

LEMMA FirstAwaited ==
  ASSUME TypeOK, Awaited, NEW r \in Requests, VerifyFirst(r)
  PROVE  Awaited'
<1> DEFINE s == page[r].site
<1>1. PICK c \in Checks :
        /\ check[c] = None
        /\ check' = [check EXCEPT ![c] = s]
        /\ verified' = [verified EXCEPT ![s] = [fresh |-> TRUE, value |-> c, refreshing |-> None]]
        /\ page' = [page EXCEPT ![r] = Await(r, c, "first")]
  BY DEF VerifyFirst, NextCheck, Free
<1>2. s \in Tenants /\ page[r].at = "admitting"
  BY DEF VerifyFirst, Compared
<1>3. page'[r].at = "awaiting" /\ page'[r].check = c /\ page'[r].as = "first" /\ check'[c] = s
  BY <1>1 DEF TypeOK, Await
<1>4. ASSUME NEW q \in Requests, page[q].at = "awaiting" PROVE page'[q] = page[q]
  BY <1>1, <1>2, <1>4 DEF TypeOK
<1>5. ASSUME NEW d \in Checks, check[d] # None PROVE check'[d] = check[d]
  BY <1>1, <1>5 DEF TypeOK
<1>6. ASSUME NEW t \in Tenants, verified'[t] # None
      PROVE  /\ verified'[t].value \in Checks =>
                  /\ check'[verified'[t].value] = t
                  /\ \E q \in Requests :
                       /\ page'[q].at = "awaiting"
                       /\ page'[q].check = verified'[t].value /\ page'[q].as = "first"
             /\ verified'[t].refreshing \in Checks => check'[verified'[t].refreshing] = t
  <2>1. CASE t = s
    <3>1. verified'[t].value = c /\ verified'[t].refreshing = None
      BY <1>1, <1>2, <2>1 DEF TypeOK
    <3> QED
      BY <1>3, <2>1, <3>1, Numbers
  <2>2. CASE t # s
    <3>1. verified'[t] = verified[t]
      BY <1>1, <2>2 DEF TypeOK
    <3>2. t # None
      BY Numbers DEF Sites
    <3> QED
      BY <1>4, <1>5, <1>6, <3>1, <3>2 DEF Awaited
  <2> QED
    BY <2>1, <2>2
<1> QED
  BY <1>6 DEF Awaited

LEMMA ExpiredAwaited ==
  ASSUME TypeOK, Awaited, NEW r \in Requests, VerifyExpired(r)
  PROVE  Awaited'
<1> DEFINE s == page[r].site
           e == verified[s]
<1>1. PICK p : page' = [page EXCEPT ![r] = p]
  BY DEF VerifyExpired
<1>2. s \in Tenants /\ page[r].at = "admitting" /\ e # None
  BY DEF VerifyExpired, Compared
<1>3. ASSUME NEW q \in Requests, page[q].at = "awaiting" PROVE page'[q] = page[q]
  BY <1>1, <1>2, <1>3 DEF TypeOK
<1>4. CASE UNCHANGED <<verified, check>>
  BY <1>3, <1>4, AwaitedStays
<1>5. CASE \E c \in Checks : check[c] = None /\ check' = [check EXCEPT ![c] = s]
             /\ verified' = [verified EXCEPT ![s].refreshing = c]
  <2>1. PICK c \in Checks : check[c] = None /\ check' = [check EXCEPT ![c] = s]
             /\ verified' = [verified EXCEPT ![s] = [e EXCEPT !.refreshing = c]]
    BY <1>5
  <2>2. e \in CachedVerification
    BY <1>2 DEF TypeOK
  <2>3. verified'[s].value = e.value /\ verified'[s].refreshing = c /\ check'[c] = s
    BY <1>2, <2>1, <2>2 DEF TypeOK, CachedVerification
  <2>4. ASSUME NEW d \in Checks, check[d] # None PROVE check'[d] = check[d]
    BY <2>1, <2>4 DEF TypeOK
  <2>5. ASSUME NEW t \in Tenants, t # s PROVE verified'[t] = verified[t]
    BY <2>1, <2>5 DEF TypeOK
  <2>6. \A t \in Tenants : t # None
    BY Numbers DEF Sites
  <2> HIDE DEF e, s
  <2>7. ASSUME NEW t \in Tenants, verified'[t] # None
        PROVE  /\ verified'[t].value \in Checks =>
                    /\ check'[verified'[t].value] = t
                    /\ \E q \in Requests :
                         /\ page'[q].at = "awaiting"
                         /\ page'[q].check = verified'[t].value /\ page'[q].as = "first"
               /\ verified'[t].refreshing \in Checks => check'[verified'[t].refreshing] = t
    <3>1. CASE t = s
      BY <1>2, <1>3, <2>3, <2>4, <2>6, <3>1 DEF Awaited, e
    <3>2. CASE t # s
      BY <1>3, <2>4, <2>5, <2>6, <2>7, <3>2 DEF Awaited
    <3> QED
      BY <3>1, <3>2
  <2> QED
    BY <2>7 DEF Awaited
<1> QED
  BY <1>4, <1>5 DEF VerifyExpired, NextCheck, Free

(* Neither a settled first verification nor a settled refresh leaves its    *)
(* entry behind as pending.                                                 *)
LEMMA SettledAwaited ==
  ASSUME TypeOK, Awaited, NEW c \in Checks, CheckSucceeds(c) \/ CheckFails(c)
  PROVE  Awaited'
<1> DEFINE s == check[c]
           e == verified[s]
<1>1. s \in Tenants /\ check' = [check EXCEPT ![c] = None]
  BY DEF TypeOK, CheckSucceeds, CheckFails
<1>2. ASSUME NEW q \in Requests, page[q].at = "awaiting", page[q].check # c PROVE page'[q] = page[q]
  BY <1>2 DEF CheckSucceeds, CheckFails, Settles
<1>3. ASSUME NEW d \in Checks, d # c PROVE check'[d] = check[d]
  BY <1>1, <1>3 DEF TypeOK
<1>4. ASSUME NEW t \in Tenants, t # s PROVE verified'[t] = verified[t]
  BY <1>4 DEF CheckSucceeds, CheckFails, TypeOK
<1>5. \/ verified'[s] = None
      \/ verified'[s] = Checked
      \/ e # None /\ e.refreshing # c /\ verified'[s] = [e EXCEPT !.fresh = TRUE, !.value = Resolved]
      \/ e # None /\ e.refreshing # c /\ e.value # c /\ verified'[s] = e
  <2>1. CASE CheckSucceeds(c)
    <3>1. e # None /\ e.value = c => \E r \in Requests : Settles(r, c) /\ page[r].as = "first"
      BY <1>1 DEF Awaited, Settles
    <3> QED
      BY <1>1, <2>1, <3>1 DEF CheckSucceeds, TypeOK
  <2>2. CASE CheckFails(c)
    BY <1>1, <2>2 DEF CheckFails, ForgetFailed, TypeOK
  <2> QED
    BY <2>1, <2>2
<1>6. e # None => e \in CachedVerification
  BY <1>1 DEF TypeOK
<1> HIDE DEF s
<1>7. ASSUME NEW t \in Tenants, verified'[t] # None
      PROVE  /\ verified'[t].value \in Checks =>
                  /\ check'[verified'[t].value] = t
                  /\ \E q \in Requests :
                       /\ page'[q].at = "awaiting"
                       /\ page'[q].check = verified'[t].value /\ page'[q].as = "first"
             /\ verified'[t].refreshing \in Checks => check'[verified'[t].refreshing] = t
  <2>1. CASE t # s
    <3>1. verified'[t] = verified[t]
      BY <1>4, <2>1
    <3>2. \A d \in Checks : check[d] = t => d # c
      BY <2>1 DEF s
    <3> QED
      BY <1>2, <1>3, <1>7, <3>1, <3>2 DEF Awaited
  <2>2. CASE t = s /\ verified'[s] = Checked
    BY <2>2, Numbers DEF Checked
  <2>3. CASE t = s /\ e # None /\ e.refreshing # c
               /\ verified'[s] = [e EXCEPT !.fresh = TRUE, !.value = Resolved]
    <3>1. verified'[s].value = Resolved /\ verified'[s].refreshing = e.refreshing
      BY <1>6, <2>3 DEF CachedVerification
    <3> QED
      BY <1>1, <1>3, <2>3, <3>1, Numbers DEF Awaited
  <2>4. CASE t = s /\ e # None /\ e.refreshing # c /\ e.value # c /\ verified'[s] = e
    BY <1>1, <1>2, <1>3, <2>4 DEF Awaited
  <2> QED
    BY <1>5, <1>7, <2>1, <2>2, <2>3, <2>4
<1> QED
  BY <1>7 DEF Awaited

LEMMA AwaitedStep == TypeOK /\ Awaited /\ [Next]_vars => Awaited'
<1> SUFFICES ASSUME TypeOK, Awaited, [Next]_vars PROVE Awaited'
  OBVIOUS
<1>1. ASSUME NEW r \in Requests, NEW s \in Sites, Arrive(r, s) PROVE Awaited'
  <2>1. PICK p : page' = [page EXCEPT ![r] = p]
    BY <1>1 DEF Arrive
  <2>2. page[r].at # "awaiting" /\ UNCHANGED <<verified, check>>
    BY <1>1 DEF Arrive, Idle
  <2> QED
    BY <2>1, <2>2, OneMovesAwaited
<1>2. ASSUME NEW r \in Requests, NoOverride(r) \/ VerifyCached(r) \/ Leave(r) PROVE Awaited'
  BY <1>2, OneMovesAwaited DEF NoOverride, VerifyCached, Leave
<1>3. ASSUME NEW r \in Requests, VerifyFirst(r) \/ VerifyExpired(r) PROVE Awaited'
  BY <1>3, FirstAwaited, ExpiredAwaited
<1>4. ASSUME NEW r \in Requests, page[r].at = "composing", UNCHANGED <<verified, check>>,
             Composed(r) \/ \E k \in Sources : Fails(r, k) \/ \E part : SetPart(r, k, part)
      PROVE Awaited'
  <2>1. PICK p : page' = [page EXCEPT ![r] = p]
    BY <1>4 DEF Composed, Fails, SetPart
  <2> QED
    BY <1>4, <2>1, OneMovesAwaited
<1>5. ASSUME NEW r \in Requests, Composed(r) PROVE Awaited'
  BY <1>4, <1>5 DEF Composed
<1>6. ASSUME NEW r \in Requests, NEW k \in Sources,
             \/ ManifestCached(r, k) \/ ManifestAsked(r, k) \/ ManifestFetched(r, k)
             \/ LastGood(r, k) \/ NoManifest(r, k) \/ CodeFails(r, k)
      PROVE Awaited'
  <2>1. page[r].at = "composing" /\ UNCHANGED <<verified, check>>
    BY <1>6 DEF ManifestCached, ManifestAsked, ManifestFetched, LastGood, NoManifest, CodeFails
  <2>2. Fails(r, k) \/ \E part : SetPart(r, k, part)
    BY <1>6 DEF ManifestCached, ManifestAsked, ManifestFetched, LastGood, NoManifest, CodeFails, Take
  <2> QED
    BY <1>4, <2>1, <2>2
<1>7. ASSUME NEW c \in Checks, CheckSucceeds(c) \/ CheckFails(c) PROVE Awaited'
  BY <1>7, SettledAwaited
<1>8. ASSUME NEW t \in Tenants, VerificationExpires(t) PROVE Awaited'
  <2>1. verified[t] \in CachedVerification
    BY <1>8 DEF VerificationExpires, TypeOK
  <2>2. verified' = [verified EXCEPT ![t] = [verified[t] EXCEPT !.fresh = FALSE]]
          /\ UNCHANGED <<check, page>> /\ verified[t] # None
    BY <1>8 DEF VerificationExpires
  <2>3. verified'[t].value = verified[t].value /\ verified'[t].refreshing = verified[t].refreshing
    BY <2>1, <2>2 DEF TypeOK, CachedVerification
  <2>4. \A u \in Tenants : u # t => verified'[u] = verified[u]
    BY <2>2 DEF TypeOK
  <2> QED
    BY <2>2, <2>3, <2>4 DEF Awaited
<1>9. ASSUME NEW t \in Tenants, PushedOut(t) PROVE Awaited'
  BY <1>9 DEF PushedOut, Awaited, TypeOK
<1>10. ASSUME Swap \/ (\E s \in Sites, v \in Builds : Deploy(s, v))
                \/ (\E k \in Sources : ManifestExpires(k)) \/ UNCHANGED vars
       PROVE Awaited'
  BY <1>10, AwaitedStays DEF Swap, Deploy, ManifestExpires, vars
<1> QED
  BY <1>1, <1>2, <1>3, <1>5, <1>6, <1>7, <1>8, <1>9, <1>10 DEF Next, Handles, Outside

-----------------------------------------------------------------------------
(* An entry that answers without a check was checked since it expired.      *)
VerifiedSound ==
  \A t \in Tenants :
    verified[t] # None /\ verified[t].fresh /\ verified[t].value = Resolved => sound[t]

LEMMA SoundStep == TypeOK /\ VerifiedSound /\ [Next]_vars => VerifiedSound'
<1> SUFFICES ASSUME TypeOK, VerifiedSound, [Next]_vars,
                    NEW t \in Tenants, verified'[t] # None, verified'[t].fresh,
                    verified'[t].value = Resolved
             PROVE  sound'[t]
  BY DEF VerifiedSound
<1>1. ASSUME UNCHANGED <<verified, sound>> PROVE sound'[t]
  BY <1>1 DEF VerifiedSound
<1>2. ASSUME NEW r \in Requests, VerifyFirst(r) PROVE sound'[t]
  <2>1. PICK c \in Checks : verified' = [verified EXCEPT ![page[r].site] =
                               [fresh |-> TRUE, value |-> c, refreshing |-> None]]
    BY <1>2 DEF VerifyFirst
  <2>2. t # page[r].site
    BY <2>1, Numbers DEF TypeOK
  <2> QED
    BY <1>2, <2>1, <2>2 DEF VerifyFirst, TypeOK, VerifiedSound
<1>3. ASSUME NEW r \in Requests, VerifyExpired(r) PROVE sound'[t]
  <2>1. verified' = verified \/ \E c \in Checks : verified' = [verified EXCEPT ![page[r].site] =
          [verified[page[r].site] EXCEPT !.refreshing = c]]
    BY <1>3 DEF VerifyExpired
  <2>2. verified[page[r].site] \in CachedVerification /\ ~verified[page[r].site].fresh
          /\ page[r].site \in Tenants
    BY <1>3 DEF VerifyExpired, Compared, TypeOK
  <2>3. verified'[page[r].site].fresh = FALSE
    <3>1. ASSUME NEW c \in Checks, verified' = [verified EXCEPT ![page[r].site] =
                  [verified[page[r].site] EXCEPT !.refreshing = c]]
          PROVE  verified'[page[r].site].fresh = FALSE
      <4>1. [verified[page[r].site] EXCEPT !.refreshing = c].fresh = FALSE
        BY <2>2 DEF CachedVerification
      <4> QED
        BY <2>2, <3>1, <4>1 DEF TypeOK
    <3>2. verified[page[r].site].fresh = FALSE
      BY <2>2 DEF CachedVerification
    <3> QED
      BY <2>1, <3>1, <3>2
  <2> QED
    BY <1>3, <2>1, <2>2, <2>3 DEF VerifyExpired, TypeOK, VerifiedSound
<1>4. ASSUME NEW c \in Checks, CheckSucceeds(c) PROVE sound'[t]
  <2>1. CASE t = check[c]
    BY <1>4, <2>1 DEF CheckSucceeds, TypeOK
  <2>2. CASE t # check[c]
    BY <1>4, <2>2 DEF CheckSucceeds, TypeOK, VerifiedSound
  <2> QED
    BY <2>1, <2>2
<1>5. ASSUME NEW c \in Checks, CheckFails(c) PROVE sound'[t]
  BY <1>5 DEF CheckFails, ForgetFailed, TypeOK, VerifiedSound
<1>6. ASSUME NEW u \in Tenants, VerificationExpires(u) PROVE sound'[t]
  <2>1. verified[u] \in CachedVerification
    BY <1>6 DEF VerificationExpires, TypeOK
  <2>2. verified' = [verified EXCEPT ![u] = [verified[u] EXCEPT !.fresh = FALSE]]
    BY <1>6 DEF VerificationExpires
  <2>3. verified'[u].fresh = FALSE
    BY <2>1, <2>2 DEF TypeOK, CachedVerification
  <2> QED
    BY <1>6, <2>2, <2>3 DEF VerificationExpires, TypeOK, VerifiedSound
<1>7. ASSUME NEW u \in Tenants, PushedOut(u) PROVE sound'[t]
  BY <1>7 DEF PushedOut, TypeOK, VerifiedSound
<1> QED
  BY <1>1, <1>2, <1>3, <1>4, <1>5, <1>6, <1>7
  DEF Next, Handles, Outside, Arrive, NoOverride, VerifyCached, ManifestCached, ManifestAsked,
      ManifestFetched, LastGood, NoManifest, CodeFails, Composed, Leave, Swap, Deploy,
      ManifestExpires, vars

-----------------------------------------------------------------------------
(* What a page loads or falls back to, and what a generation caches, is     *)
(* pinned by that generation.                                               *)
Pinned(g, m) == m.site \in Unpinned \/ m.build = Pin(g, m.site)
PartPinned(g, part) ==
  /\ part.at = "loaded" => Pinned(g, part.manifest)
  /\ part.at = "asked" /\ part.cached # None => Pinned(g, part.cached)
Held == {"admitting", "awaiting", "composing", "served"}
CachesPinned ==
  \A g \in Builds, k \in Sources : manifests[g][k] # None => Pinned(g, manifests[g][k])
PartsPinned ==
  \A r \in Requests : page[r].at \in Held =>
    \A k \in Sources : PartPinned(page[r].gen, page[r].parts[k])

(* A request that keeps its generation and its parts, or gives them up.     *)
Keeps(r) ==
  page'[r].at \in Held =>
    /\ page[r].at \in Held
    /\ page'[r].gen = page[r].gen /\ page'[r].parts = page[r].parts

LEMMA KeepingKeeps ==
  ASSUME PartsPinned, \A r \in Requests : Keeps(r)
  PROVE  PartsPinned'
BY DEF PartsPinned, Keeps, PartPinned, Pinned, Pin

LEMMA PartSet ==
  ASSUME TypeOK, PartsPinned, NEW r \in Requests, NEW k \in Sources, NEW part \in Part,
         page[r].at = "composing", SetPart(r, k, part), PartPinned(page[r].gen, part)
  PROVE  PartsPinned'
<1>1. page[r] \in Bodies
  BY PageForms
<1> DEFINE p == [page[r] EXCEPT !.parts = [page[r].parts EXCEPT ![k] = part]]
<1>2. /\ p.gen = page[r].gen /\ p.parts = [page[r].parts EXCEPT ![k] = part]
      /\ p.at = "composing"
  BY <1>1 DEF Bodies
<1>3. page' = [page EXCEPT ![r] = p]
  BY DEF SetPart
<1> HIDE DEF p
<1>4. \A q \in Requests : page'[q] = IF q = r THEN p ELSE page[q]
  BY <1>3 DEF TypeOK
<1>5. \A j \in Sources : p.parts[j] = IF j = k THEN part ELSE page[r].parts[j]
  BY <1>1, <1>2 DEF Bodies, Parts
<1>6. \A j \in Sources : PartPinned(p.gen, p.parts[j])
  BY <1>2, <1>5 DEF PartsPinned, Held
<1> QED
  BY <1>4, <1>6 DEF PartsPinned, PartPinned, Pinned, Pin

LEMMA TakePinned ==
  ASSUME TypeOK, CachesPinned, PartsPinned, NEW r \in Requests, NEW k \in Sources,
         NEW m \in Manifest, page[r].at = "composing", Take(r, k, m), Pinned(page[r].gen, m)
  PROVE  CachesPinned' /\ PartsPinned'
<1>1. [at |-> "loaded", manifest |-> m] \in Part
  BY DEF Part
<1>2. PartPinned(page[r].gen, [at |-> "loaded", manifest |-> m])
  BY DEF PartPinned
<1>3. PartsPinned'
  BY <1>1, <1>2, PartSet DEF Take
<1> DEFINE c == [site |-> m.site, build |-> m.build, fresh |-> TRUE]
<1>4. page[r].gen \in Builds
  BY LookedUpTyped
<1>5. manifests' = [manifests EXCEPT ![page[r].gen] = [manifests[page[r].gen] EXCEPT ![k] = c]]
  BY DEF Take, CacheOf
<1>6. \A g \in Builds, j \in Sources :
        manifests'[g][j] = IF g = page[r].gen /\ j = k THEN c ELSE manifests[g][j]
  BY <1>4, <1>5 DEF TypeOK
<1>7. Pinned(page[r].gen, c)
  BY DEF Pinned
<1>8. CachesPinned'
  BY <1>6, <1>7 DEF CachesPinned, Pinned, Pin
<1> QED
  BY <1>3, <1>8

LEMMA ComposePinned ==
  ASSUME TypeOK, CachesPinned, PartsPinned, NEW r \in Requests, NEW k \in Sources,
         \/ ManifestCached(r, k) \/ ManifestAsked(r, k) \/ ManifestFetched(r, k)
         \/ LastGood(r, k) \/ NoManifest(r, k) \/ CodeFails(r, k)
  PROVE  CachesPinned' /\ PartsPinned'
<1>0. page[r].at = "composing"
  BY DEF ManifestCached, ManifestAsked, ManifestFetched, LastGood, NoManifest, CodeFails
<1>a. manifests' = manifests => CachesPinned'
  BY DEF CachesPinned, Pinned, Pin
<1>1. CASE ManifestCached(r, k)
  <2> DEFINE m == manifests[page[r].gen][k]
  <2>1. m \in CachedManifest /\ SetPart(r, k, [at |-> "loaded", manifest |-> [site |-> m.site, build |-> m.build]])
    BY <1>0, <1>1, LookedUpTyped DEF ManifestCached, CacheOf
  <2>2. Pinned(page[r].gen, m) /\ manifests' = manifests
    BY <1>0, <1>1, LookedUpTyped DEF ManifestCached, CacheOf, CachesPinned
  <2> HIDE DEF m
  <2>3. [at |-> "loaded", manifest |-> [site |-> m.site, build |-> m.build]] \in Part
    BY <2>1 DEF CachedManifest, Manifest, Part
  <2>4. PartPinned(page[r].gen, [at |-> "loaded", manifest |-> [site |-> m.site, build |-> m.build]])
    BY <2>2 DEF PartPinned, Pinned
  <2> QED
    BY <1>0, <1>a, <2>1, <2>2, <2>3, <2>4, PartSet
<1>2. CASE ManifestAsked(r, k)
  <2> DEFINE m == manifests[page[r].gen][k]
  <2>1. [at |-> "asked", cached |-> m] \in Part /\ SetPart(r, k, [at |-> "asked", cached |-> m])
    BY <1>0, <1>2, LookedUpTyped DEF ManifestAsked, CacheOf, Part
  <2>2. (m # None => Pinned(page[r].gen, m)) /\ manifests' = manifests
    BY <1>0, <1>2, LookedUpTyped DEF ManifestAsked, CachesPinned
  <2> HIDE DEF m
  <2>3. PartPinned(page[r].gen, [at |-> "asked", cached |-> m])
    BY <2>2 DEF PartPinned
  <2> QED
    BY <1>0, <1>a, <2>1, <2>2, <2>3, PartSet
<1>3. CASE ManifestFetched(r, k)
  <2> DEFINE s == UiOf(page[r].site, k)
             m == [site |-> s, build |-> deployed[s]]
  <2>1. s \in Sites
    BY <1>0, LookedUpTyped DEF UiOf, Sites
  <2>2. m \in Manifest
    BY <2>1 DEF Manifest, TypeOK
  <2>3. Take(r, k, m) /\ (s \in Unpinned \/ deployed[s] = Pin(page[r].gen, s))
    BY <1>3 DEF ManifestFetched
  <2> HIDE DEF s
  <2>4. Pinned(page[r].gen, m)
    BY <2>3 DEF Pinned
  <2> QED
    BY <1>0, <2>2, <2>3, <2>4, TakePinned
<1>4. CASE LastGood(r, k)
  <2> DEFINE c == page[r].parts[k].cached
             m == [site |-> c.site, build |-> c.build]
  <2>1. c \in CachedManifest
    BY <1>0, <1>4, LookedUpTyped DEF LastGood, Part
  <2>2. Take(r, k, m)
    BY <1>4 DEF LastGood
  <2>3. Pinned(page[r].gen, c)
    BY <1>0, <1>4 DEF LastGood, PartsPinned, PartPinned, Held
  <2> HIDE DEF c
  <2>4. m \in Manifest /\ Pinned(page[r].gen, m)
    BY <2>1, <2>3 DEF CachedManifest, Manifest, Pinned
  <2> QED
    BY <1>0, <2>2, <2>4, TakePinned
<1>5. CASE NoManifest(r, k) \/ CodeFails(r, k)
  <2>1. manifests' = manifests /\ Fails(r, k)
    BY <1>5 DEF NoManifest, CodeFails
  <2>2. CASE k = Core
    <3>1. page' = [page EXCEPT ![r] = Refused(r)]
      BY <2>1, <2>2 DEF Fails
    <3>2. \A q \in Requests : Keeps(q)
      BY <3>1 DEF Keeps, Refused, Held, TypeOK
    <3> QED
      BY <1>a, <2>1, <3>2, KeepingKeeps
  <2>3. CASE k # Core
    <3>1. SetPart(r, k, [at |-> "dropped"])
      BY <2>1, <2>3 DEF Fails, SetPart
    <3>2. [at |-> "dropped"] \in Part /\ PartPinned(page[r].gen, [at |-> "dropped"])
      BY DEF Part, PartPinned
    <3> QED
      BY <1>0, <1>a, <2>1, <3>1, <3>2, PartSet
  <2> QED
    BY <2>2, <2>3
<1> QED
  BY <1>1, <1>2, <1>3, <1>4, <1>5

(* The step of ui-compose.ts, ssr-render.ts and runtime-snapshot.ts: a swap *)
(* fills the next generation's cache and empties the one it replaces.       *)
LEMMA PinnedStep ==
  TypeOK /\ CachesPinned /\ PartsPinned /\ [Next]_vars => CachesPinned' /\ PartsPinned'
<1> SUFFICES ASSUME TypeOK, CachesPinned, PartsPinned, [Next]_vars
             PROVE  CachesPinned' /\ PartsPinned'
  OBVIOUS
<1>a. manifests' = manifests => CachesPinned'
  BY DEF CachesPinned, Pinned, Pin
<1>b. page' = page => PartsPinned'
  BY DEF PartsPinned, PartPinned, Pinned, Pin
<1>1. ASSUME NEW r \in Requests, NEW s \in Sites, Arrive(r, s)
      PROVE CachesPinned' /\ PartsPinned'
  <2>1. \A q \in Requests : page'[q] = IF q = r THEN [at |-> "admitting", site |-> s,
          gen |-> generation, parts |-> Unlooked(s)] ELSE page[q]
    BY <1>1 DEF Arrive, TypeOK
  <2>2. \A k \in Sources : PartPinned(generation, Unlooked(s)[k])
    BY DEF PartPinned, Unlooked
  <2>3. PartsPinned'
    BY <2>1, <2>2 DEF PartsPinned, PartPinned, Pinned, Pin
  <2> QED
    BY <1>1, <1>a, <2>3 DEF Arrive
<1>2. ASSUME NEW r \in Requests,
             NoOverride(r) \/ VerifyCached(r) \/ VerifyFirst(r) \/ VerifyExpired(r)
      PROVE CachesPinned' /\ PartsPinned'
  <2>1. PICK p : /\ page' = [page EXCEPT ![r] = p]
                 /\ p = Admitted(r) \/ \E c, as : p = Await(r, c, as)
    <3>1. \A e : ReadValue(r, e) = Admitted(r) \/ ReadValue(r, e) = Await(r, e.value, "reader")
      BY DEF ReadValue
    <3>2. \A e, c : AfterRefresh(r, e, c) = ReadValue(r, e) \/ AfterRefresh(r, e, c) = Await(r, c, "refresh")
      BY DEF AfterRefresh
    <3>3. NoOverride(r) => page' = [page EXCEPT ![r] = Admitted(r)]
      BY DEF NoOverride
    <3>4. VerifyCached(r) => page' = [page EXCEPT ![r] = ReadValue(r, verified[page[r].site])]
      BY DEF VerifyCached
    <3>5. VerifyFirst(r) => \E c : page' = [page EXCEPT ![r] = Await(r, c, "first")]
      BY DEF VerifyFirst
    <3>6. VerifyExpired(r) =>
            \E c : page' = [page EXCEPT ![r] = AfterRefresh(r, verified[page[r].site], c)]
      BY DEF VerifyExpired
    <3> QED
      BY <1>2, <3>1, <3>2, <3>3, <3>4, <3>5, <3>6
  <2>2. p.gen = page[r].gen /\ p.parts = page[r].parts
    BY <2>1 DEF Admitted, Await
  <2>3. page[r].at = "admitting" /\ manifests' = manifests
    BY <1>2 DEF NoOverride, VerifyCached, VerifyFirst, VerifyExpired
  <2>4. \A q \in Requests : Keeps(q)
    BY <2>1, <2>2, <2>3 DEF Keeps, Held, TypeOK
  <2> QED
    BY <1>a, <2>3, <2>4, KeepingKeeps
<1>3. ASSUME NEW r \in Requests, NEW k \in Sources,
             \/ ManifestCached(r, k) \/ ManifestAsked(r, k) \/ ManifestFetched(r, k)
             \/ LastGood(r, k) \/ NoManifest(r, k) \/ CodeFails(r, k)
      PROVE CachesPinned' /\ PartsPinned'
  BY <1>3, ComposePinned
<1>4. ASSUME NEW r \in Requests, Composed(r) \/ Leave(r) PROVE CachesPinned' /\ PartsPinned'
  <2>1. CASE Composed(r)
    <3>1. page[r] \in Bodies /\ page' = [page EXCEPT ![r] = [page[r] EXCEPT !.at = "served"]]
      BY <2>1, PageForms DEF Composed
    <3>2. [page[r] EXCEPT !.at = "served"].gen = page[r].gen
            /\ [page[r] EXCEPT !.at = "served"].parts = page[r].parts
      BY <3>1 DEF Bodies
    <3>3. \A q \in Requests : Keeps(q)
      BY <2>1, <3>1, <3>2 DEF Keeps, Held, TypeOK, Composed
    <3> QED
      BY <1>a, <2>1, <3>3, KeepingKeeps DEF Composed
  <2>2. CASE Leave(r)
    <3>1. \A q \in Requests : Keeps(q)
      BY <2>2 DEF Keeps, Held, TypeOK, Leave, Idle
    <3>2. \A g \in Builds, k \in Sources :
            manifests'[g][k] = manifests[g][k] \/ manifests'[g][k] = None
      BY <2>2, Released DEF NoManifests
    <3>3. CachesPinned'
      BY <3>2 DEF CachesPinned, Pinned, Pin
    <3> QED
      BY <3>1, <3>3, KeepingKeeps
  <2> QED
    BY <1>4, <2>1, <2>2
<1>5. ASSUME NEW c \in Checks, CheckSucceeds(c) \/ CheckFails(c)
      PROVE CachesPinned' /\ PartsPinned'
  <2>1. \A q \in Requests :
          \/ page'[q] = page[q]
          \/ page[q].at = "awaiting" /\ (page'[q] = Admitted(q) \/ page'[q] = Refused(q))
    <3>1. CheckSucceeds(c) =>
            page' = [r \in Requests |-> IF Settles(r, c) THEN Admitted(r) ELSE page[r]]
      BY DEF CheckSucceeds
    <3>2. CheckFails(c) =>
            page' = [r \in Requests |-> IF Settles(r, c) THEN Refused(r) ELSE page[r]]
      BY DEF CheckFails
    <3>3. \A q \in Requests : Settles(q, c) => page[q].at = "awaiting"
      BY DEF Settles
    <3>4. ASSUME NEW q \in Requests
          PROVE  page'[q] = IF Settles(q, c)
                              THEN (IF CheckSucceeds(c) THEN Admitted(q) ELSE Refused(q))
                              ELSE page[q]
      BY <1>5, <3>1, <3>2
    <3> QED
      BY <3>3, <3>4
  <2>2. ASSUME NEW q \in Requests PROVE Keeps(q)
    <3>1. Admitted(q).gen = page[q].gen /\ Admitted(q).parts = page[q].parts
            /\ Refused(q).at \notin Held
      BY DEF Admitted, Refused, Held
    <3>2. page[q].at = "awaiting" => page[q].at \in Held
      BY DEF Held
    <3> QED
      BY <2>1, <3>1, <3>2 DEF Keeps
  <2> QED
    BY <1>5, <1>a, <2>2, KeepingKeeps DEF CheckSucceeds, CheckFails
<1>6. ASSUME Swap PROVE CachesPinned' /\ PartsPinned'
  <2>1. generation \in Builds /\ generation + 1 \in Builds /\ generation + 1 # generation
    BY <1>6 DEF Swap, TypeOK, Builds
  <2>2. \A g \in Builds, k \in Sources :
          manifests'[g][k] = IF g = generation + 1
                               THEN IF k \in Bare THEN None
                                    ELSE [site |-> Base, build |-> generation + 1, fresh |-> TRUE]
                             ELSE IF g = generation THEN None ELSE manifests[g][k]
    BY <1>6, <2>1 DEF Swap, TypeOK, NoManifests
  <2>3. CachesPinned'
    BY <2>2 DEF CachesPinned, Pinned, Pin
  <2> QED
    BY <1>6, <1>b, <2>3 DEF Swap
<1>7. ASSUME NEW k \in Sources, ManifestExpires(k) PROVE CachesPinned' /\ PartsPinned'
  <2> DEFINE m == manifests[generation][k]
  <2>1. m \in CachedManifest /\ generation \in Builds
    BY <1>7 DEF ManifestExpires, TypeOK
  <2>2. manifests' = [manifests EXCEPT ![generation] = [manifests[generation] EXCEPT ![k] =
                        [m EXCEPT !.fresh = FALSE]]]
    BY <1>7 DEF ManifestExpires
  <2>3. [m EXCEPT !.fresh = FALSE].site = m.site /\ [m EXCEPT !.fresh = FALSE].build = m.build
    BY <2>1 DEF CachedManifest
  <2>4. \A g \in Builds, j \in Sources :
          manifests'[g][j] = IF g = generation /\ j = k THEN [m EXCEPT !.fresh = FALSE]
                             ELSE manifests[g][j]
    BY <2>1, <2>2 DEF TypeOK
  <2>5. Pinned(generation, m)
    BY <1>7, <2>1 DEF CachesPinned, ManifestExpires
  <2>6. Pinned(generation, [m EXCEPT !.fresh = FALSE])
    BY <2>3, <2>5 DEF Pinned
  <2> DEFINE f == [m EXCEPT !.fresh = FALSE]
  <2> HIDE DEF f, m
  <2>7. CachesPinned'
    <3>1. \A g \in Builds, j \in Sources :
            manifests'[g][j] = IF g = generation /\ j = k THEN f ELSE manifests[g][j]
      BY <2>4 DEF f
    <3>2. Pinned(generation, f)
      BY <2>6 DEF f
    <3> QED
      BY <3>1, <3>2 DEF CachesPinned, Pinned, Pin
  <2> QED
    BY <1>7, <1>b, <2>7 DEF ManifestExpires
<1>8. ASSUME \/ \E s \in Sites, v \in Builds : Deploy(s, v)
             \/ \E t \in Tenants : VerificationExpires(t) \/ PushedOut(t)
             \/ UNCHANGED vars
      PROVE CachesPinned' /\ PartsPinned'
  BY <1>8, <1>a, <1>b DEF Deploy, VerificationExpires, PushedOut, vars
<1> QED
  BY <1>1, <1>2, <1>3, <1>4, <1>5, <1>6, <1>7, <1>8 DEF Next, Handles, Outside

-----------------------------------------------------------------------------
IInv == TypeOK /\ Awaited /\ VerifiedSound /\ CachesPinned /\ PartsPinned

LEMMA InvInit == Init => IInv
<1> SUFFICES ASSUME Init PROVE IInv
  OBVIOUS
<1>1. TypeOK
  BY TypeInit
<1>2. Awaited /\ VerifiedSound
  BY DEF Init, Awaited, VerifiedSound
<1>3. CachesPinned
  BY DEF Init, CachesPinned, NoManifests
<1>4. PartsPinned
  BY DEF Init, PartsPinned, Held, Idle
<1> QED
  BY <1>1, <1>2, <1>3, <1>4 DEF IInv

LEMMA InvStep == IInv /\ [Next]_vars => IInv'
BY TypeStep, AwaitedStep, SoundStep, PinnedStep DEF IInv

(* A request gets past the verification with an entry that was checked, or  *)
(* is an asset answered while its entry is refreshed.                       *)
LEMMA AdmissionStep ==
  ASSUME IInv, [Next]_vars, NEW r \in Requests,
         page[r].at \in {"admitting", "awaiting"}, page[r].site \in Compared,
         page'[r].at \in {"composing", "served"}
  PROVE  \/ sound'[page[r].site]
         \/ /\ r \in AssetRequests /\ verified'[page[r].site] # None
            /\ verified'[page[r].site].refreshing # None
<1> DEFINE s == page[r].site
           e == verified[s]
<1>t. TypeOK /\ s \in Tenants
  BY DEF IInv, Compared
<1>0. page'[r] # page[r]
  OBVIOUS
<1>1. ASSUME NEW q \in Requests, NEW p, page' = [page EXCEPT ![q] = p] PROVE q = r /\ page'[r] = p
  BY <1>0, <1>1, <1>t DEF TypeOK
<1>2. ASSUME NEW q \in Requests, VerifyCached(q) PROVE sound'[s]
  <2>1. q = r /\ page'[r] = ReadValue(r, e) /\ e # None /\ e.fresh
    BY <1>1, <1>2 DEF VerifyCached
  <2>2. e.value = Resolved
    BY <2>1 DEF ReadValue, Await
  <2> QED
    BY <1>t, <1>2, <2>1, <2>2 DEF IInv, VerifiedSound, VerifyCached
<1>3. ASSUME NEW q \in Requests, VerifyFirst(q) PROVE FALSE
  <2>1. PICK c : page' = [page EXCEPT ![q] = Await(q, c, "first")]
    BY <1>3 DEF VerifyFirst
  <2>2. page'[r].at = "awaiting"
    BY <1>1, <2>1 DEF Await
  <2> QED
    BY <2>2
<1>4. ASSUME NEW q \in Requests, VerifyExpired(q)
      PROVE r \in AssetRequests /\ verified'[s] # None /\ verified'[s].refreshing # None
  <2>1. PICK c : page' = [page EXCEPT ![q] = AfterRefresh(q, verified[page[q].site], c)]
    BY <1>4 DEF VerifyExpired
  <2>2. q = r /\ page'[r] = AfterRefresh(r, e, c)
    BY <1>1, <2>1
  <2>3. r \in AssetRequests
    BY <2>2 DEF AfterRefresh, Await
  <2>4. e \in CachedVerification /\ e # None
    BY <1>4, <1>t, <2>2 DEF VerifyExpired, TypeOK
  <2>5. CASE e.refreshing # None /\ verified' = verified
    BY <2>3, <2>4, <2>5
  <2>6. CASE \E d \in Checks : verified' = [verified EXCEPT ![s].refreshing = d]
    <3>1. PICK d \in Checks : verified' = [verified EXCEPT ![s] = [e EXCEPT !.refreshing = d]]
      BY <2>6
    <3>2. [e EXCEPT !.refreshing = d].refreshing = d /\ [e EXCEPT !.refreshing = d] \in CachedVerification
      BY <2>4 DEF CachedVerification
    <3>3. verified'[s] = [e EXCEPT !.refreshing = d]
      BY <1>t, <3>1 DEF TypeOK
    <3> QED
      BY <2>3, <3>2, <3>3, NoneAssumption, Numbers
  <2> QED
    BY <1>4, <2>2, <2>5, <2>6 DEF VerifyExpired
<1>5. ASSUME NEW c \in Checks, CheckSucceeds(c) PROVE sound'[s]
  <2>1. Settles(r, c)
    BY <1>0, <1>5 DEF CheckSucceeds
  <2>2. check[c] = s
    BY <1>t, <2>1 DEF Settles, TypeOK
  <2> QED
    BY <1>5, <1>t, <2>2 DEF CheckSucceeds, TypeOK
<1>6. ASSUME NEW c \in Checks, CheckFails(c) PROVE FALSE
  BY <1>0, <1>6 DEF CheckFails, Refused
<1>7. ASSUME NEW q \in Requests, NoOverride(q) PROVE FALSE
  <2>1. q = r
    BY <1>1, <1>7 DEF NoOverride
  <2> QED
    BY <1>7, <2>1 DEF NoOverride
<1>8. ASSUME NEW q \in Requests, page[q].at \notin {"admitting", "awaiting"}, NEW p,
             page' = [page EXCEPT ![q] = p]
      PROVE FALSE
  BY <1>1, <1>8
<1>9. ASSUME NEW q \in Requests, NEW k \in Sources,
             \/ ManifestCached(q, k) \/ ManifestAsked(q, k) \/ ManifestFetched(q, k)
             \/ LastGood(q, k) \/ NoManifest(q, k) \/ CodeFails(q, k)
      PROVE FALSE
  <2>1. page[q].at = "composing" /\ \E p : page' = [page EXCEPT ![q] = p]
    BY <1>9 DEF ManifestCached, ManifestAsked, ManifestFetched, LastGood, NoManifest, CodeFails,
       Take, SetPart, Fails
  <2> QED
    BY <1>8, <2>1
<1>10. ASSUME NEW q \in Requests, Composed(q) \/ Leave(q) \/ \E u \in Sites : Arrive(q, u)
       PROVE FALSE
  <2>1. page[q].at \notin {"admitting", "awaiting"} /\ \E p : page' = [page EXCEPT ![q] = p]
    <3>1. Composed(q) => page[q].at = "composing" /\ \E p : page' = [page EXCEPT ![q] = p]
      BY DEF Composed
    <3>2. Leave(q) => page[q].at \in {"served", "refused"} /\ \E p : page' = [page EXCEPT ![q] = p]
      BY DEF Leave
    <3>3. \A u \in Sites : Arrive(q, u) =>
            page[q].at = "idle" /\ \E p : page' = [page EXCEPT ![q] = p]
      BY DEF Arrive, Idle
    <3> QED
      BY <1>10, <3>1, <3>2, <3>3
  <2> QED
    BY <1>8, <2>1
<1> QED
  BY <1>0, <1>2, <1>3, <1>4, <1>5, <1>6, <1>7, <1>9, <1>10
  DEF Next, Handles, Outside, Swap, Deploy, ManifestExpires, VerificationExpires, PushedOut, vars

-----------------------------------------------------------------------------
(* The state of UI serving is typed, for any instance.                      *)
THEOREM ServingTyped == Spec => []TypeOK
<1>1. IInv => TypeOK
  BY DEF IInv
<1> QED
  BY <1>1, InvInit, InvStep, PTL DEF Spec

(* Every page is composed of manifests its own generation pinned, where     *)
(* there are pins, however many swaps, deploys and releases happen while it *)
(* is composed.                                                             *)
THEOREM PagesAreOfOneGeneration == Spec => []PageOfOneGeneration
<1>1. IInv => PageOfOneGeneration
  BY DEF IInv, PageOfOneGeneration, PartsPinned, PartPinned, Pinned, Held
<1> QED
  BY <1>1, InvInit, InvStep, PTL DEF Spec

(* No override that replaces a UI of the base is shown without having been  *)
(* verified since its entry expired, whatever overlaps, fails or is pushed  *)
(* out (tenant-runtime.ts compares no other, see Compared).                 *)
THEOREM OverridesAreVerified == Spec => AdmittedWasVerified
<1> DEFINE A == \A r \in Requests :
       /\ page[r].at \in {"admitting", "awaiting"} /\ page[r].site \in Compared
       /\ page'[r].at \in {"composing", "served"}
       => \/ sound'[page[r].site]
          \/ /\ r \in AssetRequests /\ verified'[page[r].site] # None
             /\ verified'[page[r].site].refreshing # None
<1>1. IInv /\ [Next]_vars => A
  BY AdmissionStep
<1> QED
  BY <1>1, InvInit, InvStep, PTL DEF Spec, AdmittedWasVerified
=============================================================================
