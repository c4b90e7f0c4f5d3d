----------------------------- MODULE Reconciler -----------------------------
(***************************************************************************)
(* The platform's reconciler (api/src/lib/reconciler.ts with                *)
(* deploy-history.ts, runtime-databases.ts and the docker adapter of        *)
(* packages/everything-dev/src/services/hosting): every tick reads the      *)
(* newest published deploy of a namespace and brings its instance there:    *)
(* databases, secrets, container, health.  Several consoles may run it at   *)
(* once (a console being redeployed), each with its own memory.             *)
(*                                                                         *)
(* Simplifications: one namespace (a tick treats them one after the other)  *)
(* whose watch entry pins no image; every publish writes a platform         *)
(* manifest; a deploy's descriptor is its image; what the substrate does is *)
(* a step or a failure, and it fails only while it is disturbed.  Nobody    *)
(* else answers at the URL of a container that has stopped.  What a console *)
(* only reports (bootAssumed, lastSeenFingerprint, instanceUrl) is left     *)
(* out.                                                                     *)
(***************************************************************************)
EXTENDS Integers, Sequences

CONSTANTS
  Consoles,
  Fingerprints, Images,
  ImageOf,        \* the image pin published with a fingerprint
  Databases,      \* a runtime's databases
  None,
  MaxPublishes, MaxRestarts  \* bounds of the instance

ASSUME ReconcilerAssumption ==
  /\ ImageOf \in [Fingerprints -> Images]
  /\ None \notin Fingerprints \cup Images
  /\ MaxPublishes \in Nat /\ MaxRestarts \in Nat

VARIABLES
  deploys,     \* the published deploys, by block
  restarts,    \* how many restarts of a console there were
  substrate,   \* "calm" or "disturbed": registry, databases, secrets, docker
  databases,   \* the databases that exist
  container,   \* the instance's container
  urls,        \* the consoles that poll the URL of its present run
  converged,   \* convergedFingerprint, per console
  drift,       \* whether a console reports drift
  tick         \* where a console's tick is

vars == <<deploys, restarts, substrate, databases, container, urls,
          converged, drift, tick>>

Publishes == Len(deploys)
latest == IF deploys = <<>> THEN None ELSE deploys[Publishes]

NoContainer == [image |-> None, running |-> FALSE]
Row == [fingerprint : Fingerprints \cup {None}, image : Images \cup {None}]
Pinned == [fingerprint : Fingerprints, image : Images]
Sleeping == [at |-> "sleeping"]
Tick ==
  {Sleeping}
    \cup [at : {"reading"}, since : Nat]
    \cup [at : {"observing"}, row : Row \cup {None}]
    \cup [at : {"provisioning", "resolving", "deploying"}, row : Pinned]
    \cup [at : {"creating"}, row : Pinned, database : Databases]
    \cup [at : {"healing", "restarting"}]
    \cup [at : {"inspecting", "polling"}, row : Pinned \cup {None}]

TypeOK ==
  /\ deploys \in Seq(Fingerprints) /\ restarts \in Nat
  /\ substrate \in {"calm", "disturbed"}
  /\ databases \subseteq Databases
  /\ container \in [image : Images \cup {None}, running : BOOLEAN]
  /\ container.running => container.image # None
  /\ urls \subseteq Consoles
  /\ converged \in [Consoles -> Fingerprints \cup {None}]
  /\ drift \in [Consoles -> BOOLEAN]
  /\ tick \in [Consoles -> Tick]

Init ==
  /\ deploys = <<>> /\ restarts = 0
  /\ substrate = "calm"
  /\ databases = {} /\ container = NoContainer /\ urls = {}
  /\ converged = [c \in Consoles |-> None]
  /\ drift = [c \in Consoles |-> FALSE]
  /\ tick = [c \in Consoles |-> Sleeping]

Goes(c, t) == tick' = [tick EXCEPT ![c] = t]
MemoryUnchanged == UNCHANGED <<converged, drift>>
WorldUnchanged == UNCHANGED <<deploys, restarts, substrate, databases, container, urls>>
Forgets(c) ==
  /\ urls' = urls \ {c}
  /\ UNCHANGED <<deploys, restarts, substrate, databases, container>>
Ends(c) == Goes(c, Sleeping)

(* Any failure ends the namespace's turn as drift.                          *)
Drifts(c) ==
  /\ Ends(c)
  /\ drift' = [drift EXCEPT ![c] = TRUE]
  /\ UNCHANGED converged
ClearsNothing(c) == Ends(c) /\ MemoryUnchanged
Clears(c) ==
  /\ Ends(c)
  /\ drift' = [drift EXCEPT ![c] = FALSE]
  /\ UNCHANGED converged

-----------------------------------------------------------------------------
(* listDeploys: the newest audit manifest, config and platform manifest are *)
(* read at the same time and joined by block.  Around a publish they may    *)
(* not fit: a config of another block leaves a row without fingerprint, a   *)
(* platform manifest of an earlier block passes for the pin in force, and   *)
(* of a later one nothing is left.                                          *)
Join(m, f, p) ==
  IF m = 0 THEN None
  ELSE [fingerprint |-> IF f = m THEN deploys[m] ELSE None,
        image |-> IF p \in 1..m THEN ImageOf[deploys[p]] ELSE None]

Rows(c) ==
  LET readable == tick[c].since..Publishes IN
    {Join(m, f, p) : m \in readable, f \in readable, p \in readable}

Wakes(c) ==
  /\ tick[c] = Sleeping
  /\ Goes(c, [at |-> "reading", since |-> Publishes])
  /\ MemoryUnchanged /\ WorldUnchanged

(* decideReconcile.                                                         *)
Converge(c, row, running) ==
  /\ row # None /\ row.fingerprint # None
  /\ IF converged[c] = None THEN ~running ELSE row.fingerprint # converged[c]
Baseline(c, row, running) ==
  row # None /\ row.fingerprint # None /\ converged[c] = None /\ running

UndertakesAndRemembers(c, row) ==
  /\ Goes(c, [at |-> "provisioning", row |-> row])
  /\ converged' = [converged EXCEPT ![c] = row.fingerprint]
  /\ UNCHANGED drift
Undertakes(c, row) ==
  /\ Goes(c, [at |-> "provisioning", row |-> row])
  /\ MemoryUnchanged

Decides(c, row, running) ==
  \/ /\ Baseline(c, row, running)
     /\ converged' = [converged EXCEPT ![c] = row.fingerprint]
     /\ drift' = [drift EXCEPT ![c] = FALSE]
     /\ Ends(c)
  \/ /\ Converge(c, row, running) /\ row.image = None
     /\ Drifts(c)
  \/ /\ Converge(c, row, running) /\ row.image # None
     /\ Undertakes(c, row)
  \/ /\ ~Baseline(c, row, running) /\ ~Converge(c, row, running)
     /\ Goes(c, [at |-> "healing"])
     /\ MemoryUnchanged

Reads(c) ==
  /\ tick[c].at = "reading"
  /\ \E row \in Rows(c) :
       IF converged[c] = None /\ row # None
         THEN Goes(c, [at |-> "observing", row |-> row]) /\ MemoryUnchanged
         ELSE Decides(c, row, FALSE)
  /\ WorldUnchanged

Observes(c) ==
  /\ tick[c].at = "observing"
  /\ Decides(c, tick[c].row, container.running)
  /\ WorldUnchanged

(* ensureDatabase, one after the other: looked up, then created, which      *)
(* fails when somebody else was faster.                                     *)
Missing == Databases \ databases

LooksUp(c) ==
  /\ tick[c].at = "provisioning"
  /\ IF Missing = {}
       THEN Goes(c, [at |-> "resolving", row |-> tick[c].row])
       ELSE \E d \in Missing :
              Goes(c, [at |-> "creating", row |-> tick[c].row, database |-> d])
  /\ MemoryUnchanged /\ WorldUnchanged

Creates(c) ==
  /\ tick[c].at = "creating" /\ tick[c].database \in Missing
  /\ databases' = databases \cup {tick[c].database}
  /\ Goes(c, [at |-> "provisioning", row |-> tick[c].row])
  /\ MemoryUnchanged
  /\ UNCHANGED <<deploys, restarts, substrate, container, urls>>

AlreadyThereIgnored(c) ==
  /\ tick[c].at = "creating" /\ tick[c].database \notin Missing
  /\ Goes(c, [at |-> "resolving", row |-> tick[c].row])
  /\ MemoryUnchanged /\ WorldUnchanged
AlreadyThere(c) ==
  /\ tick[c].at = "creating" /\ tick[c].database \notin Missing
  /\ Drifts(c) /\ WorldUnchanged

Resolves(c) ==
  /\ tick[c].at = "resolving"
  /\ Goes(c, [at |-> "deploying", row |-> tick[c].row])
  /\ MemoryUnchanged /\ WorldUnchanged

(* adapter.deploy: a changed descriptor replaces the container, an          *)
(* unchanged one leaves it as it is.  Then whatever container is there is   *)
(* inspected for its port, and its health is polled at that URL.            *)
Replaces(c) ==
  /\ tick[c].at = "deploying"
  /\ \/ container.image = tick[c].row.image /\ UNCHANGED <<container, urls>>
     \/ /\ container.image # tick[c].row.image
        /\ container' = [image |-> tick[c].row.image, running |-> TRUE]
        /\ urls' = {}
  /\ Goes(c, [at |-> "inspecting", row |-> tick[c].row])
  /\ MemoryUnchanged
  /\ UNCHANGED <<deploys, restarts, substrate, databases>>

(* A container that does not run has published no port.                     *)
Inspects(c) ==
  /\ tick[c].at = "inspecting"
  /\ \/ /\ container.running
        /\ urls' = urls \cup {c}
        /\ Goes(c, [at |-> "polling", row |-> tick[c].row])
        /\ MemoryUnchanged
     \/ ~container.running /\ Drifts(c) /\ UNCHANGED urls
  /\ UNCHANGED <<deploys, restarts, substrate, databases, container>>

Healthy(c) ==
  /\ tick[c].at = "polling" /\ c \in urls
  /\ \/ tick[c].row = None /\ Clears(c)
     \/ /\ tick[c].row # None
        /\ converged' = [converged EXCEPT ![c] = tick[c].row.fingerprint]
        /\ drift' = [drift EXCEPT ![c] = FALSE]
        /\ Ends(c)
  /\ Forgets(c)

(* No healthy answer in time: the container stays.                          *)
Unhealthy(c) ==
  /\ tick[c].at = "polling"
  /\ c \notin urls \/ substrate = "disturbed"
  /\ Drifts(c) /\ Forgets(c)

(* Nothing to converge on: a stopped instance is started again, at a new    *)
(* URL, and its health polled there.                                        *)
Heals(c) ==
  /\ tick[c].at = "healing"
  /\ \/ container.running /\ Clears(c)
     \/ ~container.running /\ Goes(c, [at |-> "restarting"]) /\ MemoryUnchanged
  /\ WorldUnchanged

Restarts(c) ==
  /\ tick[c].at = "restarting" /\ container.image # None
  /\ container' = [container EXCEPT !.running = TRUE] /\ urls' = {}
  /\ Goes(c, [at |-> "inspecting", row |-> None]) /\ MemoryUnchanged
  /\ UNCHANGED <<deploys, restarts, substrate, databases>>

NothingToRestart(c) ==
  /\ tick[c].at = "restarting" /\ container.image = None
  /\ Drifts(c) /\ WorldUnchanged

(* Any call of the outside may fail while the substrate is disturbed.       *)
Fails(c) ==
  /\ substrate = "disturbed" /\ tick[c] # Sleeping
  /\ Drifts(c) /\ Forgets(c)

-----------------------------------------------------------------------------
Publish(f) ==
  /\ Publishes < MaxPublishes /\ latest # f
  /\ deploys' = Append(deploys, f)
  /\ UNCHANGED <<restarts, substrate, databases, container, urls, converged,
                 drift, tick>>

Disturbance ==
  /\ substrate' = IF substrate = "calm" THEN "disturbed" ELSE "calm"
  /\ UNCHANGED <<deploys, restarts, databases, container, urls, converged,
                 drift, tick>>

ContainerStops ==
  /\ substrate = "disturbed" /\ container.running
  /\ container' = [container EXCEPT !.running = FALSE] /\ urls' = {}
  /\ UNCHANGED <<deploys, restarts, substrate, databases, converged,
                 drift, tick>>

(* A console restarts, wherever its tick was, and remembers nothing.        *)
ConsoleRestarts(c) ==
  /\ restarts < MaxRestarts /\ restarts' = restarts + 1
  /\ converged' = [converged EXCEPT ![c] = None]
  /\ drift' = [drift EXCEPT ![c] = FALSE]
  /\ Ends(c)
  /\ urls' = urls \ {c}
  /\ UNCHANGED <<deploys, substrate, databases, container>>

Console(c) ==
  \/ Wakes(c) \/ Reads(c) \/ Observes(c)
  \/ LooksUp(c) \/ Creates(c) \/ AlreadyThere(c) \/ Resolves(c)
  \/ Replaces(c) \/ Inspects(c) \/ Healthy(c) \/ Unhealthy(c)
  \/ Heals(c) \/ Restarts(c) \/ NothingToRestart(c) \/ Fails(c)

Next ==
  \/ \E c \in Consoles : Console(c) \/ ConsoleRestarts(c)
  \/ \E f \in Fingerprints : Publish(f)
  \/ Disturbance \/ ContainerStops

Spec == Init /\ [][Next]_vars

(* The loop ticks for ever; nobody has to publish and the substrate may     *)
(* stay disturbed.                                                          *)
FairSpec == Spec /\ \A c \in Consoles : WF_vars(Console(c))

-----------------------------------------------------------------------------
(* An instance never runs without its databases, whatever fails half way,   *)
(* whoever else provisions at the same time, and whenever a console         *)
(* restarts.                                                                *)
DatabasesFirst == container.image # None => databases = Databases

(* The way out is blocked: what a console would converge on is the image of *)
(* a stopped container, which an unchanged descriptor never starts.         *)
Stuck(c) ==
  latest # None /\ converged[c] # latest
    /\ container = [image |-> ImageOf[latest], running |-> FALSE]

(* What a console reads, or has read, may pair the newest fingerprint with  *)
(* an earlier image.                                                        *)
Torn(c) ==
  \/ tick[c].at = "reading" /\ tick[c].since < Publishes
  \/ /\ tick[c].at \notin {"sleeping", "reading", "healing", "restarting"} /\ tick[c].row # None
     /\ tick[c].row.fingerprint = latest /\ tick[c].row.image # ImageOf[latest]

(* Publish is the deploy action: a publish that no console has converged on *)
(* ends up running - once every console has converged on something and none *)
(* is reading across the publish, none restarts any more, the publish stays *)
(* the newest, the substrate calms down and nobody is stuck.  Two consoles  *)
(* may still undo each other with an older row on the way.  (A console that *)
(* reads across the publish may deploy the earlier image, remember the new  *)
(* fingerprint, and leave it at that.)                                      *)
PublishDeploys ==
  \A f \in Fingerprints :
    []( /\ latest = f
        /\ \A c \in Consoles : converged[c] \notin {None, f} /\ ~Torn(c)
        /\ restarts = MaxRestarts
        /\ [](latest = f)
        /\ <>[](substrate = "calm" /\ \A c \in Consoles : ~Stuck(c))
        => <>[](container = [image |-> ImageOf[f], running |-> TRUE]))

(* Drift is not for ever: in a calm substrate a console that is not stuck   *)
(* stops reporting it, once anything was published: a database somebody     *)
(* else created first, a row that cannot be deployed, a container another   *)
(* console replaced under the poll, a stopped one do not keep it up.  (No   *)
(* drift does not mean the image that was published: see PublishDeploys.)   *)
DriftEnds ==
  \A c \in Consoles :
    <>[](substrate = "calm" /\ latest # None /\ ~Stuck(c)) => <>[](~drift[c])
=============================================================================
