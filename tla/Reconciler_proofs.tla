------------------------- MODULE Reconciler_proofs -------------------------
(***************************************************************************)
(* What holds of the reconciler for any number of consoles, fingerprints    *)
(* and databases: its state is typed, and no instance runs before all its   *)
(* databases exist.                                                         *)
(***************************************************************************)
EXTENDS Reconciler, TLAPS

USE ReconcilerAssumption

(* What each step needs of a console's place in its tick.                   *)
LEMMA TickForms ==
  ASSUME NEW t \in Tick
  PROVE  /\ t.at = "observing" => t.row \in Row \cup {None}
         /\ t.at = "reading" => t.since \in Nat
         /\ t.at \in {"provisioning", "resolving", "deploying"} => t.row \in Pinned
         /\ t.at \in {"inspecting", "polling"} => t.row \in Pinned \cup {None}
         /\ t.at = "creating" => t.row \in Pinned /\ t.database \in Databases
BY DEF Tick, Sleeping

LEMMA GoesTyped ==
  ASSUME NEW c \in Consoles, NEW t \in Tick, tick \in [Consoles -> Tick], Goes(c, t)
  PROVE  tick' \in [Consoles -> Tick]
BY DEF Goes

LEMMA EndsTyped ==
  ASSUME TypeOK, NEW c \in Consoles
  PROVE  /\ Drifts(c) \/ Clears(c) =>
              /\ tick' \in [Consoles -> Tick] /\ drift' \in [Consoles -> BOOLEAN]
              /\ converged' \in [Consoles -> Fingerprints \cup {None}]
         /\ Ends(c) => tick' \in [Consoles -> Tick]
<1>1. Sleeping \in Tick
  BY DEF Tick
<1>2. Ends(c) => tick' \in [Consoles -> Tick]
  BY <1>1, GoesTyped DEF TypeOK, Ends
<1>3. Drifts(c) \/ Clears(c) =>
        /\ drift' \in [Consoles -> BOOLEAN]
        /\ converged' = converged /\ Ends(c)
  BY DEF TypeOK, Drifts, Clears
<1> QED
  BY <1>2, <1>3 DEF TypeOK

LEMMA RowsTyped ==
  ASSUME TypeOK, NEW c \in Consoles, tick[c].at = "reading", NEW row \in Rows(c)
  PROVE  row \in Row \cup {None}
<1>1. PICK m \in tick[c].since..Publishes, f \in tick[c].since..Publishes,
           p \in tick[c].since..Publishes : row = Join(m, f, p)
  BY DEF Rows
<1>2. tick[c].since \in Nat /\ Publishes \in Nat
  BY TickForms DEF TypeOK, Publishes
<1>3. \A i \in 1..Publishes : deploys[i] \in Fingerprints
  BY DEF TypeOK, Publishes
<1>4. CASE m = 0
  BY <1>1, <1>4 DEF Join
<1>5. CASE m # 0
  <2>1. deploys[m] \in Fingerprints
    BY <1>2, <1>3, <1>5
  <2>2. p \in 1..m => p \in 1..Publishes
    BY <1>2
  <2>3. (IF p \in 1..m THEN ImageOf[deploys[p]] ELSE None) \in Images \cup {None}
    BY <1>3, <2>2
  <2> QED
    BY <1>1, <1>5, <2>1, <2>3 DEF Join, Row
<1> QED
  BY <1>4, <1>5

LEMMA DecidesTyped ==
  ASSUME TypeOK, NEW c \in Consoles, NEW row \in Row \cup {None}, NEW running \in BOOLEAN,
         Decides(c, row, running)
  PROVE  /\ tick' \in [Consoles -> Tick] /\ drift' \in [Consoles -> BOOLEAN]
         /\ converged' \in [Consoles -> Fingerprints \cup {None}]
<1>1. CASE Baseline(c, row, running) /\ Ends(c)
             /\ converged' = [converged EXCEPT ![c] = row.fingerprint]
             /\ drift' = [drift EXCEPT ![c] = FALSE]
  <2>1. row.fingerprint \in Fingerprints
    BY <1>1 DEF Baseline, Row
  <2> QED
    BY <1>1, <2>1, EndsTyped DEF TypeOK
<1>2. CASE Drifts(c)
  BY <1>2, EndsTyped
<1>3. CASE Converge(c, row, running) /\ row.image # None /\ Undertakes(c, row)
  <2>1. row \in Row /\ row \in Pinned
    BY <1>3 DEF Converge, Row, Pinned
  <2>2. [at |-> "provisioning", row |-> row] \in Tick
    BY <2>1 DEF Tick
  <2> QED
    BY <1>3, <2>2, GoesTyped DEF TypeOK, Undertakes, MemoryUnchanged
<1>4. CASE Goes(c, [at |-> "healing"]) /\ MemoryUnchanged
  <2>1. [at |-> "healing"] \in Tick
    BY DEF Tick
  <2> QED
    BY <1>4, <2>1, GoesTyped DEF TypeOK, MemoryUnchanged
<1> QED
  BY <1>1, <1>2, <1>3, <1>4 DEF Decides

(* The state of every step is of its type (the whole of reconciler.ts).     *)
LEMMA TypeStep == TypeOK /\ [Next]_vars => TypeOK'
<1> SUFFICES ASSUME TypeOK, [Next]_vars PROVE TypeOK'
  OBVIOUS
<1> USE DEF TypeOK
<1>1. ASSUME NEW c \in Consoles, Wakes(c) PROVE TypeOK'
  <2>1. [at |-> "reading", since |-> Publishes] \in Tick
    BY DEF Tick, Publishes
  <2> QED
    BY <1>1, <2>1, GoesTyped DEF Wakes, MemoryUnchanged, WorldUnchanged
<1>2. ASSUME NEW c \in Consoles, Reads(c) PROVE TypeOK'
  <2>1. PICK row \in Rows(c) :
          IF converged[c] = None /\ row # None
            THEN Goes(c, [at |-> "observing", row |-> row]) /\ MemoryUnchanged
            ELSE Decides(c, row, FALSE)
    BY <1>2 DEF Reads
  <2>2. row \in Row \cup {None}
    BY <1>2, RowsTyped DEF Reads
  <2>3. [at |-> "observing", row |-> row] \in Tick
    BY <2>2 DEF Tick
  <2>4. CASE converged[c] = None /\ row # None
    BY <1>2, <2>1, <2>3, <2>4, GoesTyped DEF Reads, MemoryUnchanged, WorldUnchanged
  <2>5. CASE ~(converged[c] = None /\ row # None)
    <3>1. Decides(c, row, FALSE)
      BY <2>1, <2>5
    <3> QED
      BY <1>2, <2>2, <3>1, DecidesTyped DEF Reads, WorldUnchanged
  <2> QED
    BY <2>4, <2>5
<1>3. ASSUME NEW c \in Consoles, Observes(c) PROVE TypeOK'
  <2>1. tick[c].row \in Row \cup {None}
    BY <1>3, TickForms DEF Observes
  <2> QED
    BY <1>3, <2>1, DecidesTyped DEF Observes, WorldUnchanged
<1>4. ASSUME NEW c \in Consoles, LooksUp(c) PROVE TypeOK'
  <2>1. tick[c].row \in Pinned
    BY <1>4, TickForms DEF LooksUp
  <2>2. [at |-> "resolving", row |-> tick[c].row] \in Tick
    BY <2>1 DEF Tick
  <2>3. \A d \in Missing : [at |-> "creating", row |-> tick[c].row, database |-> d] \in Tick
    BY <2>1 DEF Tick, Missing
  <2> QED
    BY <1>4, <2>2, <2>3, GoesTyped DEF LooksUp, MemoryUnchanged, WorldUnchanged
<1>5. ASSUME NEW c \in Consoles, Creates(c) PROVE TypeOK'
  <2>1. tick[c].row \in Pinned /\ tick[c].database \in Databases
    BY <1>5, TickForms DEF Creates
  <2>2. [at |-> "provisioning", row |-> tick[c].row] \in Tick
    BY <2>1 DEF Tick
  <2> QED
    BY <1>5, <2>1, <2>2, GoesTyped DEF Creates, MemoryUnchanged
<1>6. ASSUME NEW c \in Consoles, AlreadyThere(c) \/ Unhealthy(c) \/ NothingToRestart(c) \/ Fails(c)
      PROVE TypeOK'
  BY <1>6, EndsTyped DEF AlreadyThere, Unhealthy, NothingToRestart, Fails, WorldUnchanged, Forgets
<1>7. ASSUME NEW c \in Consoles, Resolves(c) PROVE TypeOK'
  <2>1. tick[c].row \in Pinned
    BY <1>7, TickForms DEF Resolves
  <2>2. [at |-> "deploying", row |-> tick[c].row] \in Tick
    BY <2>1 DEF Tick
  <2> QED
    BY <1>7, <2>2, GoesTyped DEF Resolves, MemoryUnchanged, WorldUnchanged
<1>8. ASSUME NEW c \in Consoles, Replaces(c) PROVE TypeOK'
  <2>1. tick[c].row.image \in Images /\ tick[c].row \in Pinned
    BY <1>8, TickForms DEF Replaces, Pinned
  <2>2. [at |-> "inspecting", row |-> tick[c].row] \in Tick
    BY <2>1 DEF Tick
  <2>3. tick' \in [Consoles -> Tick]
    BY <1>8, <2>2, GoesTyped DEF Replaces
  <2>4. CASE UNCHANGED <<container, urls>>
    BY <1>8, <2>3, <2>4 DEF Replaces, MemoryUnchanged
  <2>5. CASE container' = [image |-> tick[c].row.image, running |-> TRUE] /\ urls' = {}
    <3>1. container' \in [image : Images \cup {None}, running : BOOLEAN]
            /\ container'.image # None
      BY <2>1, <2>5
    <3> QED
      BY <1>8, <2>3, <2>5, <3>1 DEF Replaces, MemoryUnchanged
  <2> QED
    BY <1>8, <2>4, <2>5 DEF Replaces
<1>9. ASSUME NEW c \in Consoles, Inspects(c) PROVE TypeOK'
  <2>1. tick[c].row \in Pinned \cup {None}
    BY <1>9, TickForms DEF Inspects
  <2>2. [at |-> "polling", row |-> tick[c].row] \in Tick
    BY <2>1 DEF Tick
  <2>3. CASE Drifts(c) /\ UNCHANGED urls
    BY <1>9, <2>3, EndsTyped DEF Inspects
  <2>4. CASE /\ urls' = urls \cup {c}
             /\ Goes(c, [at |-> "polling", row |-> tick[c].row])
             /\ MemoryUnchanged
    BY <1>9, <2>2, <2>4, GoesTyped DEF Inspects, MemoryUnchanged
  <2> QED
    BY <1>9, <2>3, <2>4 DEF Inspects
<1>10. ASSUME NEW c \in Consoles, Healthy(c) PROVE TypeOK'
  <2>1. tick[c].row \in Pinned \cup {None}
    BY <1>10, TickForms DEF Healthy
  <2>2. CASE tick[c].row = None /\ Clears(c)
    BY <1>10, <2>2, EndsTyped DEF Healthy, Forgets
  <2>3. CASE /\ tick[c].row # None /\ Ends(c)
             /\ converged' = [converged EXCEPT ![c] = tick[c].row.fingerprint]
             /\ drift' = [drift EXCEPT ![c] = FALSE]
    <3>1. tick[c].row.fingerprint \in Fingerprints
      BY <2>1, <2>3 DEF Pinned
    <3>2. Forgets(c) /\ tick' \in [Consoles -> Tick]
      BY <1>10, <2>3, EndsTyped DEF Healthy
    <3> QED
      BY <2>3, <3>1, <3>2 DEF Forgets
  <2> QED
    BY <1>10, <2>2, <2>3 DEF Healthy
<1>11. ASSUME NEW c \in Consoles, Heals(c) \/ Restarts(c) PROVE TypeOK'
  <2>1. [at |-> "restarting"] \in Tick /\ [at |-> "inspecting", row |-> None] \in Tick
    BY DEF Tick
  <2>2. CASE Heals(c)
    BY <2>1, <2>2, GoesTyped, EndsTyped DEF Heals, MemoryUnchanged, WorldUnchanged
  <2>3. CASE Restarts(c)
    BY <2>1, <2>3, GoesTyped DEF Restarts, MemoryUnchanged
  <2> QED
    BY <1>11, <2>2, <2>3
<1>12. ASSUME NEW c \in Consoles, ConsoleRestarts(c) PROVE TypeOK'
  BY <1>12, EndsTyped DEF ConsoleRestarts
<1>13. ASSUME NEW f \in Fingerprints, Publish(f) PROVE TypeOK'
  <2>1. deploys' \in Seq(Fingerprints)
    BY <1>13 DEF Publish
  <2> QED
    BY <1>13, <2>1 DEF Publish
<1>14. CASE Disturbance \/ ContainerStops
  BY <1>14 DEF Disturbance, ContainerStops
<1>15. CASE UNCHANGED vars
  BY <1>15 DEF vars
<1> QED
  BY <1>1, <1>2, <1>3, <1>4, <1>5, <1>6, <1>7, <1>8, <1>9, <1>10, <1>11, <1>12, <1>13, <1>14,
     <1>15 DEF Next, Console

LEMMA TypeInit == Init => TypeOK
<1>1. Sleeping \in Tick
  BY DEF Tick
<1> QED
  BY <1>1 DEF Init, TypeOK, NoContainer

(* Type correctness of the reconciler's specification.                      *)
THEOREM ReconcilerTyped == Spec => []TypeOK
BY TypeInit, TypeStep, PTL DEF Spec

-----------------------------------------------------------------------------
(* A tick that is past the provisioning has found every database there, and *)
(* no step takes a database away: what a tick read stays true.              *)
Late == {"resolving", "deploying"}
Provisioned == \A c \in Consoles : tick[c].at \in Late => databases = Databases
IInv == TypeOK /\ Provisioned /\ DatabasesFirst

LEMMA DatabasesKept ==
  TypeOK /\ [Next]_vars => (databases = Databases => databases' = Databases)
<1> SUFFICES ASSUME TypeOK, [Next]_vars, databases = Databases PROVE databases' = Databases
  OBVIOUS
<1>1. Missing = {}
  BY DEF Missing
<1>2. ASSUME NEW c \in Consoles, Console(c) PROVE databases' = databases
  BY <1>1, <1>2 DEF Console, Wakes, Reads, Observes, LooksUp, Creates, AlreadyThere, Resolves,
     Replaces, Inspects, Healthy, Unhealthy, Heals, Restarts, NothingToRestart, Fails,
     WorldUnchanged, Forgets
<1>3. ASSUME NEW c \in Consoles, ConsoleRestarts(c) PROVE databases' = databases
  BY <1>3 DEF ConsoleRestarts
<1> QED
  BY <1>2, <1>3 DEF Next, Publish, Disturbance, ContainerStops, vars

LEMMA ProvisionedGoes ==
  ASSUME TypeOK, Provisioned, databases = Databases => databases' = Databases,
         NEW c \in Consoles, NEW t, Goes(c, t), t.at \in Late => databases = Databases
  PROVE  Provisioned'
<1> SUFFICES ASSUME NEW d \in Consoles, tick'[d].at \in Late PROVE databases = Databases
  BY DEF Provisioned
<1>1. tick'[d] = IF d = c THEN t ELSE tick[d]
  BY DEF TypeOK, Goes
<1> QED
  BY <1>1 DEF Provisioned

LEMMA ProvisionedStays ==
  ASSUME TypeOK, Provisioned, databases = Databases => databases' = Databases,
         tick' = tick
  PROVE  Provisioned'
BY DEF Provisioned

(* Everything that ends a tick leaves no tick past the provisioning behind. *)
LEMMA ProvisionedEnds ==
  ASSUME TypeOK, Provisioned, databases = Databases => databases' = Databases,
         NEW c \in Consoles, Ends(c)
  PROVE  Provisioned'
BY ProvisionedGoes DEF Ends, Sleeping, Late

(* Provisioned is inductive: only a lookup that found every database there  *)
(* passes the provisioning.                                                 *)
LEMMA ProvisionedStep == TypeOK /\ Provisioned /\ [Next]_vars => Provisioned'
<1> SUFFICES ASSUME TypeOK, Provisioned, [Next]_vars PROVE Provisioned'
  OBVIOUS
<1>0. databases = Databases => databases' = Databases
  BY DatabasesKept
<1>1. ASSUME NEW c \in Consoles, NEW row, NEW running, Decides(c, row, running)
      PROVE Provisioned'
  <2>1. \/ Ends(c) \/ Goes(c, [at |-> "healing"])
        \/ Goes(c, [at |-> "provisioning", row |-> row])
    BY <1>1 DEF Decides, Drifts, Undertakes
  <2> QED
    BY <2>1, <1>0, ProvisionedEnds, ProvisionedGoes DEF Late
<1>2. ASSUME NEW c \in Consoles, Wakes(c) PROVE Provisioned'
  BY <1>0, <1>2, ProvisionedGoes DEF Wakes, Late
<1>3. ASSUME NEW c \in Consoles, Reads(c) PROVE Provisioned'
  <2>1. (\E row : Goes(c, [at |-> "observing", row |-> row]))
          \/ \E row : Decides(c, row, FALSE)
    BY <1>3 DEF Reads
  <2> QED
    BY <2>1, <1>0, <1>1, ProvisionedGoes DEF Late
<1>4. ASSUME NEW c \in Consoles, Observes(c) PROVE Provisioned'
  BY <1>1, <1>4 DEF Observes
<1>5. ASSUME NEW c \in Consoles, LooksUp(c) PROVE Provisioned'
  <2>1. CASE Missing = {} /\ Goes(c, [at |-> "resolving", row |-> tick[c].row])
    <3>1. databases = Databases
      BY <2>1 DEF Missing, TypeOK
    <3> QED
      BY <2>1, <3>1, <1>0, ProvisionedGoes
  <2>2. CASE \E d \in Missing : Goes(c, [at |-> "creating", row |-> tick[c].row, database |-> d])
    BY <2>2, <1>0, ProvisionedGoes DEF Late
  <2> QED
    BY <1>5, <2>1, <2>2 DEF LooksUp
<1>6. ASSUME NEW c \in Consoles, Creates(c) PROVE Provisioned'
  BY <1>0, <1>6, ProvisionedGoes DEF Creates, Late
<1>7. ASSUME NEW c \in Consoles, Resolves(c) \/ Replaces(c) \/ Inspects(c) PROVE Provisioned'
  <2>1. CASE Resolves(c)
    <3>1. databases = Databases /\ Goes(c, [at |-> "deploying", row |-> tick[c].row])
      BY <2>1 DEF Resolves, Provisioned, Late
    <3> QED
      BY <3>1, <1>0, ProvisionedGoes
  <2>2. CASE Replaces(c)
    BY <2>2, <1>0, ProvisionedGoes DEF Replaces, Late
  <2>3. CASE Inspects(c)
    <3>1. Ends(c) \/ Goes(c, [at |-> "polling", row |-> tick[c].row])
      BY <2>3 DEF Inspects, Drifts
    <3> QED
      BY <3>1, <1>0, ProvisionedEnds, ProvisionedGoes DEF Late
  <2> QED
    BY <1>7, <2>1, <2>2, <2>3
<1>8. ASSUME NEW c \in Consoles,
             AlreadyThere(c) \/ Healthy(c) \/ Unhealthy(c)
               \/ NothingToRestart(c) \/ Fails(c) \/ ConsoleRestarts(c)
      PROVE Provisioned'
  <2>1. Ends(c)
    BY <1>8 DEF AlreadyThere, Healthy, Unhealthy, NothingToRestart, Fails,
       ConsoleRestarts, Drifts, Clears
  <2> QED
    BY <2>1, <1>0, ProvisionedEnds
<1>9. ASSUME NEW c \in Consoles, Heals(c) \/ Restarts(c) PROVE Provisioned'
  <2>1. \/ Ends(c) \/ Goes(c, [at |-> "restarting"])
        \/ Goes(c, [at |-> "inspecting", row |-> None])
    BY <1>9 DEF Heals, Restarts, Clears
  <2> QED
    BY <2>1, <1>0, ProvisionedEnds, ProvisionedGoes DEF Late
<1>10. CASE (\E f \in Fingerprints : Publish(f)) \/ Disturbance \/ ContainerStops \/ UNCHANGED vars
  BY <1>0, <1>10, ProvisionedStays DEF Publish, Disturbance, ContainerStops, vars
<1> QED
  BY <1>2, <1>3, <1>4, <1>5, <1>6, <1>7, <1>8, <1>9, <1>10 DEF Next, Console

(* Only a tick past the provisioning makes a container out of nothing.      *)
LEMMA FirstContainer ==
  ASSUME TypeOK, Provisioned, [Next]_vars, container'.image # None
  PROVE  container.image # None \/ databases = Databases
<1>1. ASSUME NEW c \in Consoles, Console(c), ~Replaces(c), ~Restarts(c)
      PROVE container' = container
  BY <1>1 DEF Console, Wakes, Reads, Observes, LooksUp, Creates, AlreadyThere, Resolves,
     Inspects, Healthy, Unhealthy, Heals, NothingToRestart, Fails, WorldUnchanged, Forgets
<1>2. ASSUME NEW c \in Consoles, Replaces(c) PROVE databases = Databases
  BY <1>2 DEF Replaces, Provisioned, Late
<1>3. ASSUME NEW c \in Consoles, Restarts(c) PROVE container.image # None
  BY <1>3 DEF Restarts
<1>4. ASSUME NEW c \in Consoles, ConsoleRestarts(c) PROVE container' = container
  BY <1>4 DEF ConsoleRestarts
<1>5. CASE ContainerStops
  BY <1>5 DEF ContainerStops, TypeOK
<1> QED
  BY <1>1, <1>2, <1>3, <1>4, <1>5 DEF Next, Publish, Disturbance, vars

(* An instance never runs without its databases, for any number of consoles *)
(* that provision at the same time and fail or restart half way.            *)
THEOREM InstancesHaveDatabases == Spec => []DatabasesFirst
<1>1. Init => IInv
  BY TypeInit DEF Init, IInv, Provisioned, DatabasesFirst, Late, Sleeping, NoContainer
<1>2. IInv /\ [Next]_vars => IInv'
  <2> SUFFICES ASSUME IInv, [Next]_vars PROVE IInv'
    OBVIOUS
  <2>1. TypeOK' /\ Provisioned'
    BY TypeStep, ProvisionedStep DEF IInv
  <2>2. DatabasesFirst'
    BY FirstContainer, DatabasesKept DEF IInv, DatabasesFirst
  <2> QED
    BY <2>1, <2>2 DEF IInv
<1>3. IInv => DatabasesFirst
  BY DEF IInv
<1> QED
  BY <1>1, <1>2, <1>3, PTL DEF Spec
=============================================================================
