---------------------------- MODULE SnapshotHost ----------------------------
(***************************************************************************)
(* One runtime of the host, from boot to the swap of what it serves:       *)
(*   - the boot resolves the published pointer (or, when the registry does *)
(*     not answer, the persisted boot snapshot), persists it, builds the   *)
(*     runtime config, composes the UI once and serves;                    *)
(*   - the watch fiber polls the published pointer; a new one goes through *)
(*     the adopt transaction: resolve, build, pre-warm, verify, swap,      *)
(*     persist.                                                            *)
(*                                                                         *)
(* The data is abstracted to the digest of the UI a generation serves.  A  *)
(* published pointer is the runtime's own digest, or Inherit: its UI is    *)
(* then the one its parent published.  Registry and CDN come and go, the   *)
(* process may crash at any point and its supervisor restarts it.          *)
(***************************************************************************)
EXTENDS Naturals, FiniteSets

CONSTANTS Digests,         \* the UI bundles anybody publishes
          Inherit, None,
          Uncomposable,    \* bundles whose composition fails
          BadEntry,        \* bundles whose pinned entry bytes do not match
          HasPlugins,      \* the config declares plugins
          PluginsExtended, \* and they extend another runtime's
          PersistMayFail,  \* the snapshot write may fail (it is not fatal)
          Staging,         \* the deploy train stages on this host's disk
          DeleteDisk,      \* the snapshot file may be lost
          MaxPublishes,    \* bound on publishes
          MaxCrashes       \* bound on crashes and on losses of the file

ASSUME DigestsAssumption ==
  /\ Inherit \notin Digests /\ None \notin Digests /\ None # Inherit
  /\ Uncomposable \subseteq Digests /\ BadEntry \subseteq Digests

ASSUME FlagsAssumption ==
  /\ {HasPlugins, PluginsExtended} \subseteq BOOLEAN
  /\ PluginsExtended => HasPlugins
  /\ {PersistMayFail, Staging, DeleteDisk} \subseteq BOOLEAN

ASSUME BoundsAssumption == MaxPublishes \in Nat /\ MaxCrashes \in Nat

Pointers == Digests \cup {Inherit}

VARIABLES
  own,        \* the runtime's published pointer, None before the first one
  parent,     \* the UI its parent publishes
  owns,       \* every pointer ever published for the runtime
  parents,    \* every UI ever published by its parent
  publishes,  \* publishes so far
  reg,        \* the registry answers
  cdn,        \* the CDN answers
  crashes,    \* crashes and file losses so far
  disk,       \* the persisted boot snapshot, None when there is none
  phase,      \* where the process is
  source,     \* where its boot config came from
  cfg,        \* its boot config
  live,       \* the state the runtime snapshot holds
  pc,         \* where the watch fiber is
  ptr,        \* the pointer the running tick fetched
  next,       \* the generation it resolved to
  lastSeen,   \* the pointer fingerprint the watch last adopted
  alert       \* the watch's last verification of the live entries failed

published == <<own, parent, owns, parents, publishes>>
network == <<reg, cdn, crashes>>
boot == <<phase, source, cfg>>
watch == <<pc, ptr, next, lastSeen, alert>>
vars == <<published, network, disk, boot, live, watch>>

(* The UI a published pointer resolves to through its parent: the child's  *)
(* remotes win, inherited ones are read from the parent.                   *)
Resolve(o, p) == IF o = Inherit THEN p ELSE o

(* The watch's change detector hashes the remotes of the pointer itself,   *)
(* so what it inherits is not in it.                                       *)
PointerFingerprint(o) == o

(* The adopt's comparison hashes the resolved remotes, plugins included.   *)
DeploymentFingerprint(s) == <<s.ui, s.plugins>>

State(ui, plugins, pointer) ==
  [ui |-> ui, plugins |-> plugins, pointer |-> pointer]

States == [ui : Digests, plugins : BOOLEAN, pointer : Pointers \cup {None}]

(* The state a boot config gives: its plugins, and no adopted pointer.     *)
BootState(ui) == State(ui, HasPlugins, None)

(* The state the adopt derives from a pointer: the runtime config is built *)
(* without the configured plugins.                                         *)
AdoptedState(ui, o) == State(ui, FALSE, o)

(* A step that fetches from the CDN and checks what it gets.  During an    *)
(* outage the bundle cache may still answer.                               *)
Fetched(d, bad) == d \notin bad
FetchFails(d, bad) == ~cdn \/ d \in bad

Up == phase \in {"composing", "serving"}

Phases == {"down", "parent", "persist", "build", "composing", "serving"}

Init ==
  /\ own \in Pointers \cup {None} /\ parent \in Digests
  /\ owns = {own} \ {None} /\ parents = {parent}
  /\ publishes = 0 /\ crashes = 0
  /\ reg \in BOOLEAN /\ cdn \in BOOLEAN
  /\ disk = None
  /\ phase = "down" /\ source = None /\ cfg = None
  /\ live = None
  /\ pc = "off" /\ ptr = None /\ next = None /\ lastSeen = None
  /\ alert = FALSE

-----------------------------------------------------------------------------
(* The outside: publishes, outages, and the snapshot file.                 *)

Publish(o) ==
  /\ publishes < MaxPublishes
  /\ own' = o /\ owns' = owns \cup {o}
  /\ publishes' = publishes + 1
  /\ UNCHANGED <<parent, parents, network, disk, boot, live, watch>>

ParentPublish(d) ==
  /\ publishes < MaxPublishes
  /\ parent' = d /\ parents' = parents \cup {d}
  /\ publishes' = publishes + 1
  /\ UNCHANGED <<own, owns, network, disk, boot, live, watch>>

(* The deploy train stages the pointer it published where the host keeps   *)
(* its snapshot.  A pointer that inherits its UI does not parse there.     *)
Stage ==
  /\ Staging
  /\ own \in Digests
  /\ disk' = own
  /\ UNCHANGED <<published, network, boot, live, watch>>

RegistryToggles ==
  /\ reg' = ~reg
  /\ UNCHANGED <<published, cdn, crashes, disk, boot, live, watch>>

CdnToggles ==
  /\ cdn' = ~cdn
  /\ UNCHANGED <<published, reg, crashes, disk, boot, live, watch>>

LoseDisk ==
  /\ DeleteDisk /\ crashes < MaxCrashes
  /\ disk # None
  /\ disk' = None /\ crashes' = crashes + 1
  /\ UNCHANGED <<published, reg, cdn, boot, live, watch>>

(* The process is gone with everything it held in memory.                  *)
Exit ==
  /\ phase' = "down" /\ source' = None /\ cfg' = None
  /\ live' = None
  /\ pc' = "off" /\ ptr' = None /\ next' = None /\ lastSeen' = None
  /\ alert' = FALSE

Crash ==
  /\ phase # "down" /\ crashes < MaxCrashes
  /\ crashes' = crashes + 1
  /\ Exit
  /\ UNCHANGED <<published, reg, cdn, disk>>

-----------------------------------------------------------------------------
(* The boot.                                                               *)

(* Where the boot is after resolving a config: it builds the runtime.      *)
Resolved(c, from, at) ==
  /\ cfg' = c /\ source' = from /\ phase' = at

(* Mutant of UsableSnapshot: the snapshot is checked against the registry. *)
UsableSnapshotOnline == IF reg THEN disk ELSE None

(* The persisted snapshot a boot may fall back to.                         *)
UsableSnapshot == disk

(* The registry did not answer: the snapshot rung, or the boot fails.      *)
SnapshotRung ==
  IF UsableSnapshot # None
  THEN Resolved(UsableSnapshot, "snapshot", "build")
  ELSE Resolved(None, None, "down")

(* The supervisor starts the process and it fetches its own pointer.  A    *)
(* registry that answers that there is none is no outage: the boot fails.  *)
BootFetch ==
  /\ phase = "down"
  /\ IF ~reg THEN SnapshotRung
     ELSE /\ own # None
          /\ Resolved(own, "registry", "parent")
  /\ UNCHANGED <<published, network, disk, live, watch>>

(* The parent is read and merged.                                          *)
BootExtends ==
  /\ phase = "parent"
  /\ IF ~reg THEN SnapshotRung
     ELSE Resolved(Resolve(cfg, parent), "registry", "persist")
  /\ UNCHANGED <<published, network, disk, live, watch>>

(* Mutant of BootPersist: the first snapshot is kept.                      *)
BootPersistOnce ==
  /\ phase = "persist"
  /\ disk' = IF disk = None THEN cfg ELSE disk
  /\ phase' = "build"
  /\ UNCHANGED <<published, network, source, cfg, live, watch>>

BootPersist ==
  /\ phase = "persist"
  /\ \/ disk' = cfg
     \/ PersistMayFail /\ UNCHANGED disk
  /\ phase' = "build"
  /\ UNCHANGED <<published, network, source, cfg, live, watch>>

(* Plugins that extend another runtime's are resolved again, through the   *)
(* registry, wherever the config came from.                                *)
PluginsResolve == PluginsExtended => reg

(* The runtime config is built from the version manifests; with it the     *)
(* host has its first state and its watch fiber.                           *)
BootBuild ==
  /\ phase = "build" /\ PluginsResolve
  /\ live' = BootState(cfg)
  /\ phase' = "composing" /\ pc' = "sleep"
  /\ UNCHANGED <<published, network, disk, source, cfg, ptr, next, lastSeen,
                 alert>>

BootBuildFails ==
  /\ phase = "build"
  /\ ~cdn \/ ~PluginsResolve
  /\ Exit
  /\ UNCHANGED <<published, network, disk>>

(* The boot composition is of the boot config, whatever the watch adopted  *)
(* meanwhile.                                                              *)
BootCompose ==
  /\ phase = "composing"
  /\ Fetched(cfg, Uncomposable)
  /\ phase' = "serving"
  /\ UNCHANGED <<published, network, disk, source, cfg, live, watch>>

(* In production a failed boot composition ends the process.               *)
BootComposeFails ==
  /\ phase = "composing"
  /\ FetchFails(cfg, Uncomposable)
  /\ Exit
  /\ UNCHANGED <<published, network, disk>>

Boot ==
  \/ BootFetch \/ BootExtends \/ BootPersist
  \/ BootBuild \/ BootBuildFails \/ BootCompose \/ BootComposeFails

-----------------------------------------------------------------------------
(* The watch fiber and the adopt transaction it runs.                      *)

(* The pointer has a new fingerprint: the tick adopts it.                  *)
TickFetch ==
  /\ pc = "sleep" /\ reg /\ own # None
  /\ PointerFingerprint(own) # lastSeen
  /\ ptr' = own /\ pc' = "resolve"
  /\ UNCHANGED <<published, network, disk, boot, live, next, lastSeen, alert>>

(* Mutant of TickVerify: the tick verifies the boot config.                *)
TickVerifyBootConfig ==
  /\ pc = "sleep" /\ reg /\ own # None
  /\ PointerFingerprint(own) = lastSeen
  /\ \/ Fetched(cfg, BadEntry) /\ alert' = FALSE
     \/ FetchFails(cfg, BadEntry) /\ alert' = TRUE
  /\ UNCHANGED <<published, network, disk, boot, live, pc, ptr, next, lastSeen>>

(* The pointer is the adopted one: the tick verifies the entries the host  *)
(* serves, and a mismatch (or a fetch that fails) only raises the alert.   *)
TickVerify ==
  /\ pc = "sleep" /\ reg /\ own # None
  /\ PointerFingerprint(own) = lastSeen
  /\ \/ Fetched(live.ui, BadEntry) /\ alert' = FALSE
     \/ FetchFails(live.ui, BadEntry) /\ alert' = TRUE
  /\ UNCHANGED <<published, network, disk, boot, live, pc, ptr, next, lastSeen>>

(* The tick ends, with the adopted fingerprint or with the old one.        *)
TickEnds(seen) ==
  /\ pc' = "sleep" /\ ptr' = None /\ next' = None
  /\ lastSeen' = seen
  /\ UNCHANGED alert

(* Mutant of SeenAfterFailure: a failed adopt is remembered too.           *)
SeenAfterFailureNew == PointerFingerprint(ptr)

SeenAfterFailure == lastSeen

(* Mutant of AdoptFails: a failed adopt ends the fiber.                    *)
AdoptFailsForGood ==
  /\ \/ pc = "resolve" /\ ~reg
     \/ pc = "build" /\ ~cdn
     \/ pc = "prewarm" /\ FetchFails(next, Uncomposable)
     \/ pc = "verify" /\ FetchFails(next, BadEntry)
  /\ pc' = "off" /\ ptr' = None /\ next' = None
  /\ UNCHANGED <<published, network, disk, boot, live, lastSeen, alert>>

(* A failed adopt leaves the live state alone; the next tick retries.      *)
AdoptFails ==
  /\ \/ pc = "resolve" /\ ~reg
     \/ pc = "build" /\ ~cdn
     \/ pc = "prewarm" /\ FetchFails(next, Uncomposable)
     \/ pc = "verify" /\ FetchFails(next, BadEntry)
  /\ TickEnds(SeenAfterFailure)
  /\ UNCHANGED <<published, network, disk, boot, live>>

(* Mutant of AdoptResolve: the raw pointer is built.                       *)
AdoptResolveRaw ==
  /\ pc = "resolve" /\ reg
  /\ next' = ptr /\ pc' = "build"
  /\ UNCHANGED <<published, network, disk, boot, live, ptr, lastSeen, alert>>

AdoptResolve ==
  /\ pc = "resolve" /\ reg
  /\ next' = Resolve(ptr, parent) /\ pc' = "build"
  /\ UNCHANGED <<published, network, disk, boot, live, ptr, lastSeen, alert>>

(* The runtime config is built and compared with the one that serves.      *)
AdoptBuild ==
  /\ pc = "build"
  /\ pc' = IF DeploymentFingerprint(AdoptedState(next, ptr))
                = DeploymentFingerprint(live)
           THEN "persist" ELSE "prewarm"
  /\ UNCHANGED <<published, network, disk, boot, live, ptr, next, lastSeen,
                 alert>>

(* The next state's own cache is pre-warmed with its composition.          *)
AdoptPrewarm ==
  /\ pc = "prewarm"
  /\ Fetched(next, Uncomposable)
  /\ pc' = "verify"
  /\ UNCHANGED <<published, network, disk, boot, live, ptr, next, lastSeen,
                 alert>>

(* Mutant of AdoptSwap: the swap does not wait for the verification.       *)
AdoptSwapUnverified ==
  /\ pc = "verify"
  /\ live' = AdoptedState(next, ptr)
  /\ pc' = "persist"
  /\ UNCHANGED <<published, network, disk, boot, ptr, next, lastSeen, alert>>

(* The entries are verified, and with the last one the state is swapped.   *)
AdoptSwap ==
  /\ pc = "verify"
  /\ Fetched(next, BadEntry)
  /\ live' = AdoptedState(next, ptr)
  /\ pc' = "persist"
  /\ UNCHANGED <<published, network, disk, boot, ptr, next, lastSeen, alert>>

(* The adopted generation is persisted and the fingerprint is remembered.  *)
AdoptPersist ==
  /\ pc = "persist"
  /\ \/ disk' = next
     \/ PersistMayFail /\ UNCHANGED disk
  /\ TickEnds(PointerFingerprint(ptr))
  /\ UNCHANGED <<published, network, boot, live>>

Watch ==
  \/ TickFetch \/ TickVerify \/ AdoptFails \/ AdoptResolve
  \/ AdoptBuild \/ AdoptPrewarm \/ AdoptSwap \/ AdoptPersist

Outside ==
  \/ \E o \in Pointers : Publish(o)
  \/ \E d \in Digests : ParentPublish(d)
  \/ Stage \/ RegistryToggles \/ CdnToggles \/ LoseDisk

Next == Outside \/ Crash \/ Boot \/ Watch

Spec == Init /\ [][Next]_vars

(* The event loop and the supervisor never starve the process.             *)
FairSpec == Spec /\ WF_vars(Boot) /\ WF_vars(Watch)

-----------------------------------------------------------------------------
(* Properties.                                                             *)

(* Every variable has its type; there is a live state and a watch exactly  *)
(* while the process is up, and a tick holds what it has computed so far.  *)
TypeOK ==
  /\ own \in Pointers \cup {None} /\ parent \in Digests
  /\ owns \subseteq Pointers /\ parents \subseteq Digests
  /\ own \in owns \cup {None} /\ parent \in parents
  /\ publishes \in 0 .. MaxPublishes /\ crashes \in 0 .. MaxCrashes
  /\ reg \in BOOLEAN /\ cdn \in BOOLEAN
  /\ disk \in Digests \cup {None}
  /\ phase \in Phases
  /\ source \in {None, "registry", "snapshot"}
  /\ cfg \in CASE phase = "down" -> {None}
               [] phase = "parent" -> Pointers
               [] OTHER -> Digests
  /\ live \in IF Up THEN States ELSE {None}
  /\ pc \in IF Up
            THEN {"sleep", "resolve", "build", "prewarm", "verify", "persist"}
            ELSE {"off"}
  /\ ptr \in IF pc \in {"off", "sleep"} THEN {None} ELSE Pointers
  /\ next \in IF pc \in {"off", "sleep", "resolve"} THEN {None} ELSE Digests
  /\ lastSeen \in IF Up THEN Pointers \cup {None} ELSE {None}
  /\ alert \in BOOLEAN

(* The UIs a pointer resolved to at some time.                             *)
Resolutions(o) == {Resolve(o, p) : p \in parents}

(* The watch is quiet only about a pointer the host serves: whatever tick  *)
(* failed half way and whatever was published meanwhile, the remembered    *)
(* fingerprint is of a pointer that resolved to the live UI                *)
(* (snapshot-watch.ts, runWatchTick: a failed adopt leaves lastSeen).      *)
QuietMeansServing ==
  Up /\ lastSeen # None /\ pc # "persist" =>
    live.ui \in Resolutions(lastSeen)

(* A restart during an outage brings back what is serving: outside the     *)
(* write itself the persisted generation is the live one, whichever of     *)
(* boot and watch came last (snapshot-coordinator.ts, persistBootSnapshot; *)
(* snapshot-source.ts, persistSnapshot).                                   *)
DiskIsLive == Up /\ pc # "persist" => disk = live.ui

(* The published generation is servable.                                   *)
GoodNow ==
  /\ own # None
  /\ Resolve(own, parent) \notin Uncomposable \cup BadEntry

(* Once registry and CDN stay up and a servable pointer stays published,   *)
(* the host comes to serve it for good, from whatever crash, degraded boot *)
(* or failed adopt it was in (ADR 0041: degraded, visible, converging).    *)
Converges ==
  <>[](reg /\ cdn /\ GoodNow)
    => <>[](phase = "serving" /\ live.ui \in Resolutions(own))

(* A registry outage alone does not keep a runtime down: with a servable   *)
(* boot snapshot on disk every restart comes back to serving (ADR 0041:    *)
(* restarts survive registry outages).                                     *)
OutageSurvived ==
  <>[](~reg /\ cdn /\ disk \in Digests \ Uncomposable)
    => <>[](phase = "serving")

(* While the pointer stays the adopted one and everything answers, the     *)
(* alert comes to say whether the entries the host serves match their pins *)
(* (snapshot-watch.ts, runWatchTick: verified against the live config, not *)
(* the one the host booted with).                                          *)
AlertsIffMismatch ==
  <>[](reg /\ cdn /\ Up /\ lastSeen = own /\ own # None)
    => <>[](Up /\ alert = (live.ui \in BadEntry))

-----------------------------------------------------------------------------
(* The host implements its promise: what visitors get is the live state of *)
(* a host whose boot composed.                                             *)

Promise == INSTANCE Serving WITH
  serving <- IF phase = "serving" THEN live.ui ELSE None

(* Visitors get nothing or one published, composed generation, and the     *)
(* only way to another is an adopt that verified it (runtime-snapshot.ts:  *)
(* "the Ref only ever receives complete, pre-warmed states").              *)
ServesWhatItPromised == Promise!Spec
=============================================================================
