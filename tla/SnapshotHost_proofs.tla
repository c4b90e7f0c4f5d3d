------------------------ MODULE SnapshotHost_proofs ------------------------
(***************************************************************************)
(* Proofs about SnapshotHost, for any set of bundles, any bad ones among   *)
(* them, any flags and any number of publishes and crashes.                *)
(***************************************************************************)
EXTENDS SnapshotHost, TLAPS

(* Every generation a pointer of the runtime ever resolved to.             *)
Generations == {Resolve(o, p) : o \in owns, p \in parents}

(* What the boot and the watch hold was published: the pointers they read, *)
(* the generations these resolved to, and the one on disk.                 *)
HoldsPublished ==
  /\ ptr # None => ptr \in owns
  /\ next # None => next \in Resolutions(ptr)
  /\ phase = "parent" => cfg \in owns
  /\ phase \in {"persist", "build", "composing", "serving"} =>
       cfg \in Generations
  /\ disk # None => disk \in Generations
  /\ Up => live.ui \in Generations

(* How far the adopt has come with the generation it resolved.             *)
AdoptProgress ==
  /\ pc = "verify" => next \notin Uncomposable
  /\ pc = "persist" => live.ui = next

(* Only the boot generation may be live before it composed.                *)
LiveComposed ==
  Up => \/ live.ui \notin Uncomposable
        \/ phase = "composing" /\ live.ui = cfg

IInv == TypeOK /\ HoldsPublished /\ AdoptProgress /\ LiveComposed
          /\ QuietMeansServing

-----------------------------------------------------------------------------
(* Type correctness.                                                       *)

(* What a pointer resolves to is a bundle.                                 *)
LEMMA ResolveType ==
  ASSUME NEW o \in Pointers, NEW p \in Digests
  PROVE  Resolve(o, p) \in Digests
  BY DEF Resolve, Pointers

(* The process starts, and the registry answers with the types it has.     *)
LEMMA TypeInit == Init => TypeOK
<1> SUFFICES ASSUME Init PROVE TypeOK OBVIOUS
<1>1. publishes \in 0 .. MaxPublishes /\ crashes \in 0 .. MaxCrashes
  BY BoundsAssumption DEF Init
<1>2. owns \subseteq Pointers /\ own \in owns \cup {None}
  BY DEF Init, Pointers
<1>3. ~Up
  BY DEF Init, Up
<1>4. cfg \in CASE phase = "down" -> {None}
               [] phase = "parent" -> Pointers
               [] OTHER -> Digests
  BY DEF Init
<1> QED
  BY <1>1, <1>2, <1>3, <1>4 DEF Init, TypeOK, Phases

(* Every step keeps the types.                                             *)
LEMMA TypeNext == TypeOK /\ [Next]_vars => TypeOK'
<1> SUFFICES ASSUME TypeOK, [Next]_vars PROVE TypeOK' OBVIOUS
<1> USE DigestsAssumption, BoundsAssumption, FlagsAssumption
    DEF TypeOK, Up, Phases, Pointers, vars, published, network, boot, watch
<1>1. CASE \E o \in Pointers : Publish(o)
  BY <1>1 DEF Publish
<1>2. CASE \E d \in Digests : ParentPublish(d)
  BY <1>2 DEF ParentPublish
<1>3. CASE Stage
  BY <1>3 DEF Stage
<1>4. CASE RegistryToggles
  BY <1>4 DEF RegistryToggles
<1>5. CASE CdnToggles
  BY <1>5 DEF CdnToggles
<1>6. CASE LoseDisk
  BY <1>6 DEF LoseDisk
<1>7. CASE Crash
  <2>1. crashes' \in 0 .. MaxCrashes
    BY <1>7 DEF Crash
  <2>2. ~Up' /\ cfg' \in {None}
    BY <1>7 DEF Crash, Exit
  <2> QED
    BY <1>7, <2>1, <2>2 DEF Crash, Exit
<1>8. CASE BootFetch
  BY <1>8 DEF BootFetch, SnapshotRung, Resolved, UsableSnapshot
<1>9. CASE BootExtends
  BY <1>9, ResolveType DEF BootExtends, SnapshotRung, Resolved, UsableSnapshot
<1>10. CASE BootPersist
  BY <1>10 DEF BootPersist
<1>11. CASE BootBuild
  BY <1>11 DEF BootBuild, BootState, State, States
<1>12. CASE BootBuildFails
  BY <1>12 DEF BootBuildFails, Exit
<1>13. CASE BootCompose
  BY <1>13 DEF BootCompose, Fetched
<1>14. CASE BootComposeFails
  BY <1>14 DEF BootComposeFails, Exit
<1>15. CASE TickFetch
  BY <1>15 DEF TickFetch
<1>16. CASE TickVerify
  BY <1>16 DEF TickVerify
<1>17. CASE AdoptFails
  BY <1>17 DEF AdoptFails, TickEnds, SeenAfterFailure
<1>18. CASE AdoptResolve
  BY <1>18, ResolveType DEF AdoptResolve
<1>19. CASE AdoptBuild
  BY <1>19 DEF AdoptBuild
<1>20. CASE AdoptPrewarm
  BY <1>20 DEF AdoptPrewarm, Fetched
<1>21. CASE AdoptSwap
  BY <1>21 DEF AdoptSwap, AdoptedState, State, States
<1>22. CASE AdoptPersist
  BY <1>22 DEF AdoptPersist, TickEnds, PointerFingerprint
<1>23. CASE UNCHANGED vars
  BY <1>23
<1> QED
  BY <1>1, <1>2, <1>3, <1>4, <1>5, <1>6, <1>7, <1>8, <1>9, <1>10, <1>11, <1>12, <1>13, <1>14, <1>15, <1>16, <1>17, <1>18, <1>19, <1>20, <1>21, <1>22, <1>23 DEF Next, Outside, Boot, Watch

(* The registry, the snapshot file and everything the process holds keep   *)
(* their types, and memory is held exactly while the process is up.        *)
THEOREM TypeCorrect == Spec => []TypeOK
<1>1. TypeOK /\ [Next]_vars => TypeOK'
  BY TypeNext
<1> QED
  BY TypeInit, <1>1, PTL DEF Spec

-----------------------------------------------------------------------------
(* Generations.                                                            *)

(* A published pointer resolves, through anything its parent published, to *)
(* a generation.                                                           *)
LEMMA GenerationIntro ==
  ASSUME NEW o \in owns, NEW p \in parents
  PROVE  Resolve(o, p) \in Generations /\ Resolve(o, p) \in Resolutions(o)
  BY DEF Generations, Resolutions

(* What a published pointer resolved to is a generation.                   *)
LEMMA ResolutionIsGeneration ==
  ASSUME NEW o \in owns, NEW d \in Resolutions(o)
  PROVE  d \in Generations
  BY DEF Generations, Resolutions

(* Publishes only add: nothing that was a generation stops being one.      *)
LEMMA Grows ==
  ASSUME [Next]_vars
  PROVE  /\ owns \subseteq owns' /\ parents \subseteq parents'
         /\ Generations \subseteq Generations'
         /\ \A o : Resolutions(o) \subseteq Resolutions(o)'
<1>1. owns \subseteq owns' /\ parents \subseteq parents'
  <2>1. CASE \E o \in Pointers : Publish(o)
    BY <2>1 DEF Publish
  <2>2. CASE \E d \in Digests : ParentPublish(d)
    BY <2>2 DEF ParentPublish
  <2>3. CASE Stage
    BY <2>3 DEF Stage, published
  <2>4. CASE RegistryToggles
    BY <2>4 DEF RegistryToggles, published
  <2>5. CASE CdnToggles
    BY <2>5 DEF CdnToggles, published
  <2>6. CASE LoseDisk
    BY <2>6 DEF LoseDisk, published
  <2>7. CASE Crash
    BY <2>7 DEF Crash, published
  <2>8. CASE BootFetch
    BY <2>8 DEF BootFetch, published
  <2>9. CASE BootExtends
    BY <2>9 DEF BootExtends, published
  <2>10. CASE BootPersist
    BY <2>10 DEF BootPersist, published
  <2>11. CASE BootBuild
    BY <2>11 DEF BootBuild, published
  <2>12. CASE BootBuildFails
    BY <2>12 DEF BootBuildFails, published
  <2>13. CASE BootCompose
    BY <2>13 DEF BootCompose, published
  <2>14. CASE BootComposeFails
    BY <2>14 DEF BootComposeFails, published
  <2>15. CASE TickFetch
    BY <2>15 DEF TickFetch, published
  <2>16. CASE TickVerify
    BY <2>16 DEF TickVerify, published
  <2>17. CASE AdoptFails
    BY <2>17 DEF AdoptFails, published
  <2>18. CASE AdoptResolve
    BY <2>18 DEF AdoptResolve, published
  <2>19. CASE AdoptBuild
    BY <2>19 DEF AdoptBuild, published
  <2>20. CASE AdoptPrewarm
    BY <2>20 DEF AdoptPrewarm, published
  <2>21. CASE AdoptSwap
    BY <2>21 DEF AdoptSwap, published
  <2>22. CASE AdoptPersist
    BY <2>22 DEF AdoptPersist, published
  <2>23. CASE UNCHANGED vars
    BY <2>23 DEF vars, published
  <2> QED
    BY <2>1, <2>2, <2>3, <2>4, <2>5, <2>6, <2>7, <2>8, <2>9, <2>10, <2>11, <2>12, <2>13, <2>14, <2>15, <2>16, <2>17, <2>18, <2>19, <2>20, <2>21, <2>22, <2>23 DEF Next, Outside, Boot, Watch
<1>2. Generations \subseteq Generations'
  BY <1>1 DEF Generations, Resolve
<1>3. \A o : Resolutions(o) \subseteq Resolutions(o)'
  BY <1>1 DEF Resolutions, Resolve
<1> QED
  BY <1>1, <1>2, <1>3

-----------------------------------------------------------------------------
(* The invariant.                                                          *)

(* A host that is down holds nothing.                                      *)
LEMMA InvInit == Init => IInv
<1> SUFFICES ASSUME Init PROVE IInv OBVIOUS
<1>1. TypeOK
  BY TypeInit
<1>2. HoldsPublished /\ AdoptProgress /\ LiveComposed /\ QuietMeansServing
  BY DEF Init, HoldsPublished, AdoptProgress, LiveComposed,
         QuietMeansServing, Up
<1> QED
  BY <1>1, <1>2 DEF IInv

(* A step of the outside leaves the memory of the process alone; a crash   *)
(* and a failed boot clear it.                                             *)
LEMMA OutsideKeepsMemory ==
  Outside => UNCHANGED <<boot, live, watch>>
  BY DEF Outside, Publish, ParentPublish, Stage, RegistryToggles, CdnToggles,
         LoseDisk

(* The pointers read and the generations held were published.              *)
LEMMA HoldsNext ==
  ASSUME TypeOK, HoldsPublished, AdoptProgress, [Next]_vars
  PROVE  HoldsPublished'
<1>1. /\ owns \subseteq owns'
      /\ Generations \subseteq Generations'
      /\ \A o : Resolutions(o) \subseteq Resolutions(o)'
  BY Grows
<1> DEFINE
      Ptr == ptr # None => ptr \in owns
      Resolved1 == next # None => next \in Resolutions(ptr)
      Cfg == /\ phase = "parent" => cfg \in owns
             /\ phase \in {"persist", "build", "composing", "serving"} =>
                  cfg \in Generations
      Disk == disk # None => disk \in Generations
      Live == Up => live.ui \in Generations
<1>2. Ptr'
  <2>1. CASE Outside
    BY <1>1, <2>1, OutsideKeepsMemory DEF HoldsPublished, watch
  <2>2. CASE Crash
    BY <2>2 DEF Crash, Exit
  <2>3. CASE Boot
    BY <1>1, <2>3 DEF Boot, BootFetch, BootExtends, BootPersist, BootBuild,
      BootBuildFails, BootCompose, BootComposeFails, Exit, HoldsPublished,
      watch
  <2>4. CASE Watch
    BY <1>1, <2>4 DEF Watch, TickFetch, TickVerify, AdoptFails, AdoptResolve,
      AdoptBuild, AdoptPrewarm, AdoptSwap, AdoptPersist, TickEnds,
      HoldsPublished, TypeOK
  <2>5. CASE UNCHANGED vars
    BY <2>5 DEF vars, watch, published, HoldsPublished
  <2> QED
    BY <2>1, <2>2, <2>3, <2>4, <2>5 DEF Next
<1>3. Resolved1'
  <2>1. CASE Outside
    BY <1>1, <2>1, OutsideKeepsMemory DEF HoldsPublished, watch
  <2>2. CASE Crash
    BY <2>2 DEF Crash, Exit
  <2>3. CASE Boot
    BY <1>1, <2>3 DEF Boot, BootFetch, BootExtends, BootPersist, BootBuild,
      BootBuildFails, BootCompose, BootComposeFails, Exit, HoldsPublished,
      watch
  <2>4. CASE Watch
    <3>1. CASE AdoptResolve
      BY <3>1 DEF AdoptResolve, TypeOK, Resolutions, published
    <3>2. CASE AdoptFails \/ AdoptPersist
      BY <3>2 DEF AdoptFails, AdoptPersist, TickEnds
    <3>3. CASE TickFetch
      BY <3>3 DEF TickFetch, TypeOK
    <3>4. CASE TickVerify \/ AdoptBuild \/ AdoptPrewarm \/ AdoptSwap
      BY <1>1, <3>4 DEF TickVerify, AdoptBuild, AdoptPrewarm, AdoptSwap,
        HoldsPublished
    <3> QED
      BY <2>4, <3>1, <3>2, <3>3, <3>4 DEF Watch
  <2>5. CASE UNCHANGED vars
    BY <1>1, <2>5 DEF vars, watch, HoldsPublished
  <2> QED
    BY <2>1, <2>2, <2>3, <2>4, <2>5 DEF Next
<1>4. Cfg'
  <2>1. CASE Outside
    BY <1>1, <2>1, OutsideKeepsMemory DEF HoldsPublished, boot
  <2>2. CASE Crash
    BY <2>2 DEF Crash, Exit
  <2>3. CASE Boot
    <3>1. CASE BootFetch
      BY <1>1, <3>1 DEF BootFetch, SnapshotRung, Resolved, UsableSnapshot,
        HoldsPublished, TypeOK
    <3>2. CASE BootExtends
      BY <1>1, <3>2, GenerationIntro DEF BootExtends, SnapshotRung, Resolved,
        UsableSnapshot, HoldsPublished, TypeOK
    <3>3. CASE BootPersist \/ BootBuild \/ BootCompose
      BY <1>1, <3>3 DEF BootPersist, BootBuild, BootCompose, HoldsPublished
    <3>4. CASE BootBuildFails \/ BootComposeFails
      BY <3>4 DEF BootBuildFails, BootComposeFails, Exit
    <3> QED
      BY <2>3, <3>1, <3>2, <3>3, <3>4 DEF Boot
  <2>4. CASE Watch
    BY <1>1, <2>4 DEF Watch, TickFetch, TickVerify, AdoptFails, AdoptResolve,
      AdoptBuild, AdoptPrewarm, AdoptSwap, AdoptPersist, boot, HoldsPublished
  <2>5. CASE UNCHANGED vars
    BY <1>1, <2>5 DEF vars, boot, HoldsPublished
  <2> QED
    BY <2>1, <2>2, <2>3, <2>4, <2>5 DEF Next
<1>5. Disk'
  <2>1. CASE Outside
    <3>1. CASE Stage
      <4>1. own \in owns /\ parent \in parents /\ Resolve(own, parent) = own
        BY <3>1, DigestsAssumption DEF Stage, TypeOK, Resolve
      <4> QED
        BY <1>1, <3>1, <4>1, GenerationIntro DEF Stage
    <3>2. CASE ~Stage
      BY <1>1, <2>1, <3>2 DEF Outside, Publish, ParentPublish,
        RegistryToggles, CdnToggles, LoseDisk, HoldsPublished
    <3> QED
      BY <3>1, <3>2
  <2>2. CASE Crash
    BY <1>1, <2>2 DEF Crash, HoldsPublished
  <2>3. CASE Boot
    BY <1>1, <2>3 DEF Boot, BootFetch, BootExtends, BootPersist, BootBuild,
      BootBuildFails, BootCompose, BootComposeFails, HoldsPublished
  <2>4. CASE Watch
    <3>1. CASE AdoptPersist
      <4>1. next \in Resolutions(ptr) /\ ptr \in owns
        BY <3>1, DigestsAssumption DEF AdoptPersist, HoldsPublished, TypeOK,
          Pointers
      <4> QED
        BY <1>1, <3>1, <4>1, ResolutionIsGeneration DEF AdoptPersist,
          HoldsPublished
    <3>2. CASE ~AdoptPersist
      BY <1>1, <2>4, <3>2 DEF Watch, TickFetch, TickVerify, AdoptFails,
        AdoptResolve, AdoptBuild, AdoptPrewarm, AdoptSwap, HoldsPublished
    <3> QED
      BY <3>1, <3>2
  <2>5. CASE UNCHANGED vars
    BY <1>1, <2>5 DEF vars, HoldsPublished
  <2> QED
    BY <2>1, <2>2, <2>3, <2>4, <2>5 DEF Next
<1>6. Live'
  <2>1. CASE Outside
    BY <1>1, <2>1, OutsideKeepsMemory DEF HoldsPublished, boot, Up
  <2>2. CASE Crash
    BY <2>2 DEF Crash, Exit, Up
  <2>3. CASE Boot
    <3>1. CASE BootFetch
      BY <3>1 DEF BootFetch, SnapshotRung, Resolved, Up
    <3>2. CASE BootExtends
      BY <3>2 DEF BootExtends, SnapshotRung, Resolved, Up
    <3>3. CASE BootBuild
      BY <1>1, <3>3 DEF BootBuild, BootState, State, HoldsPublished
    <3>4. CASE BootPersist \/ BootCompose
      BY <1>1, <3>4 DEF BootPersist, BootCompose, HoldsPublished, Up
    <3>5. CASE BootBuildFails \/ BootComposeFails
      BY <3>5 DEF BootBuildFails, BootComposeFails, Exit, Up
    <3> QED
      BY <2>3, <3>1, <3>2, <3>3, <3>4, <3>5 DEF Boot
  <2>4. CASE Watch
    <3>1. CASE AdoptSwap
      <4>1. next \in Resolutions(ptr) /\ ptr \in owns
        BY <3>1, DigestsAssumption DEF AdoptSwap, HoldsPublished, TypeOK,
          Pointers
      <4> QED
        BY <1>1, <3>1, <4>1, ResolutionIsGeneration DEF AdoptSwap,
          AdoptedState, State
    <3>2. CASE ~AdoptSwap
      BY <1>1, <2>4, <3>2 DEF Watch, TickFetch, TickVerify, AdoptFails,
        AdoptResolve, AdoptBuild, AdoptPrewarm, AdoptPersist, HoldsPublished,
        boot, Up
    <3> QED
      BY <3>1, <3>2
  <2>5. CASE UNCHANGED vars
    BY <1>1, <2>5 DEF vars, boot, HoldsPublished, Up
  <2> QED
    BY <2>1, <2>2, <2>3, <2>4, <2>5 DEF Next
<1> QED
  BY <1>2, <1>3, <1>4, <1>5, <1>6 DEF HoldsPublished

(* An adopt reaches its verification composed and its write swapped.       *)
LEMMA ProgressNext ==
  ASSUME TypeOK, AdoptProgress, [Next]_vars
  PROVE  AdoptProgress'
<1>1. CASE Outside
  BY <1>1, OutsideKeepsMemory DEF watch, AdoptProgress
<1>2. CASE Crash
  BY <1>2 DEF Crash, Exit, AdoptProgress
<1>3. CASE Boot
  <2>1. CASE BootBuild
    BY <2>1 DEF BootBuild, AdoptProgress
  <2>2. CASE BootBuildFails \/ BootComposeFails
    BY <2>2 DEF BootBuildFails, BootComposeFails, Exit, AdoptProgress
  <2>3. CASE BootFetch \/ BootExtends \/ BootPersist \/ BootCompose
    BY <2>3 DEF BootFetch, BootExtends, BootPersist, BootCompose, watch,
      AdoptProgress
  <2> QED
    BY <1>3, <2>1, <2>2, <2>3 DEF Boot
<1>4. CASE Watch
  <2>1. CASE AdoptBuild
    BY <2>1 DEF AdoptBuild, DeploymentFingerprint, AdoptedState, State,
      AdoptProgress
  <2>2. CASE AdoptPrewarm
    BY <2>2 DEF AdoptPrewarm, Fetched, AdoptProgress
  <2>3. CASE AdoptSwap
    BY <2>3 DEF AdoptSwap, AdoptedState, State, AdoptProgress
  <2>4. CASE TickFetch \/ AdoptResolve \/ AdoptFails \/ AdoptPersist
    BY <2>4 DEF TickFetch, AdoptResolve, AdoptFails, AdoptPersist, TickEnds,
      AdoptProgress
  <2>5. CASE TickVerify
    BY <2>5 DEF TickVerify, AdoptProgress
  <2> QED
    BY <1>4, <2>1, <2>2, <2>3, <2>4, <2>5 DEF Watch
<1>5. CASE UNCHANGED vars
  BY <1>5 DEF vars, watch, AdoptProgress
<1> QED
  BY <1>1, <1>2, <1>3, <1>4, <1>5 DEF Next

(* What is live was composed, by the boot or before its swap, or waits for *)
(* the boot to compose it.                                                 *)
LEMMA ComposedNext ==
  ASSUME TypeOK, AdoptProgress, LiveComposed, [Next]_vars
  PROVE  LiveComposed'
<1>1. CASE Outside
  BY <1>1, OutsideKeepsMemory DEF boot, LiveComposed, Up
<1>2. CASE Crash
  BY <1>2 DEF Crash, Exit, LiveComposed, Up
<1>3. CASE Boot
  <2>1. CASE BootBuild
    BY <2>1 DEF BootBuild, BootState, State, LiveComposed
  <2>2. CASE BootBuildFails \/ BootComposeFails
    BY <2>2 DEF BootBuildFails, BootComposeFails, Exit, LiveComposed, Up
  <2>3. CASE BootCompose
    BY <2>3 DEF BootCompose, Fetched, LiveComposed, Up
  <2>4. CASE BootFetch \/ BootExtends \/ BootPersist
    BY <2>4 DEF BootFetch, BootExtends, BootPersist, SnapshotRung, Resolved,
      LiveComposed, Up
  <2> QED
    BY <1>3, <2>1, <2>2, <2>3, <2>4 DEF Boot
<1>4. CASE Watch
  <2>1. CASE AdoptSwap
    BY <2>1 DEF AdoptSwap, AdoptedState, State, AdoptProgress, LiveComposed
  <2>2. CASE ~AdoptSwap
    BY <1>4, <2>2 DEF Watch, TickFetch, TickVerify, AdoptFails, AdoptResolve,
      AdoptBuild, AdoptPrewarm, AdoptPersist, boot, LiveComposed, Up
  <2> QED
    BY <2>1, <2>2
<1>5. CASE UNCHANGED vars
  BY <1>5 DEF vars, boot, LiveComposed, Up
<1> QED
  BY <1>1, <1>2, <1>3, <1>4, <1>5 DEF Next

(* The remembered fingerprint is of a pointer that resolved to what is     *)
(* live: only the end of an adopt replaces it.                             *)
LEMMA QuietNext ==
  ASSUME TypeOK, HoldsPublished, AdoptProgress, QuietMeansServing,
         [Next]_vars
  PROVE  QuietMeansServing'
<1>1. \A o : Resolutions(o) \subseteq Resolutions(o)'
  BY Grows
<1>2. CASE Outside
  BY <1>1, <1>2, OutsideKeepsMemory DEF boot, watch, QuietMeansServing, Up
<1>3. CASE Crash
  BY <1>3 DEF Crash, Exit, QuietMeansServing, Up
<1>4. CASE Boot
  <2>1. CASE BootBuild
    BY <2>1 DEF BootBuild, QuietMeansServing, TypeOK, Up
  <2>2. CASE BootBuildFails \/ BootComposeFails
    BY <2>2 DEF BootBuildFails, BootComposeFails, Exit, QuietMeansServing, Up
  <2>3. CASE BootFetch \/ BootExtends \/ BootPersist \/ BootCompose
    BY <1>1, <2>3 DEF BootFetch, BootExtends, BootPersist, BootCompose,
      SnapshotRung, Resolved, watch, QuietMeansServing, Up
  <2> QED
    BY <1>4, <2>1, <2>2, <2>3 DEF Boot
<1>5. CASE Watch
  <2>1. CASE AdoptPersist
    BY <1>1, <2>1, DigestsAssumption DEF AdoptPersist, TickEnds,
      PointerFingerprint, AdoptProgress, HoldsPublished, QuietMeansServing,
      TypeOK
  <2>2. CASE AdoptSwap
    BY <2>2 DEF AdoptSwap, QuietMeansServing
  <2>3. CASE AdoptFails
    BY <1>1, <2>3 DEF AdoptFails, TickEnds, SeenAfterFailure, boot, Up,
      QuietMeansServing
  <2>4. CASE TickFetch \/ TickVerify \/ AdoptResolve \/ AdoptBuild
             \/ AdoptPrewarm
    BY <1>1, <2>4 DEF TickFetch, TickVerify, AdoptResolve, AdoptBuild,
      AdoptPrewarm, boot, Up, QuietMeansServing
  <2> QED
    BY <1>5, <2>1, <2>2, <2>3, <2>4 DEF Watch
<1>6. CASE UNCHANGED vars
  BY <1>1, <1>6 DEF vars, boot, watch, QuietMeansServing, Up
<1> QED
  BY <1>2, <1>3, <1>4, <1>5, <1>6 DEF Next

(* The invariant holds in every state.                                     *)
LEMMA Invariance == Spec => []IInv
<1>1. IInv /\ [Next]_vars => IInv'
  BY TypeNext, HoldsNext, ProgressNext, ComposedNext, QuietNext DEF IInv
<1> QED
  BY InvInit, <1>1, PTL DEF Spec

(* The watch falls quiet only about a pointer that resolved to what the    *)
(* host serves (snapshot-watch.ts, runWatchTick).                          *)
THEOREM QuietIsServing == Spec => []QuietMeansServing
<1>1. IInv => QuietMeansServing
  BY DEF IInv
<1> QED
  BY Invariance, <1>1, PTL

-----------------------------------------------------------------------------
(* The persisted generation.                                               *)

(* The boot has persisted what it builds, and the disk has what is live.   *)
DiskFollows ==
  /\ phase = "build" => disk = cfg
  /\ DiskIsLive

(* Where the write does not fail and nobody else writes or removes the     *)
(* file, every step keeps the disk in step with what is live.              *)
LEMMA DiskNext ==
  ASSUME ~PersistMayFail, ~Staging, ~DeleteDisk,
         TypeOK, AdoptProgress, DiskFollows, [Next]_vars
  PROVE  DiskFollows'
<1> USE DEF DiskFollows, DiskIsLive, Up
<1>1. CASE Outside
  BY <1>1 DEF Outside, Publish, ParentPublish, Stage, RegistryToggles,
    CdnToggles, LoseDisk, boot, watch
<1>2. CASE Crash
  BY <1>2 DEF Crash, Exit
<1>3. CASE Boot
  <2>1. CASE BootFetch \/ BootExtends
    BY <2>1 DEF BootFetch, BootExtends, SnapshotRung, Resolved,
      UsableSnapshot
  <2>2. CASE BootPersist
    BY <2>2 DEF BootPersist
  <2>3. CASE BootBuild
    BY <2>3 DEF BootBuild, BootState, State
  <2>4. CASE BootCompose
    BY <2>4 DEF BootCompose, watch
  <2>5. CASE BootBuildFails \/ BootComposeFails
    BY <2>5 DEF BootBuildFails, BootComposeFails, Exit
  <2> QED
    BY <1>3, <2>1, <2>2, <2>3, <2>4, <2>5 DEF Boot
<1>4. CASE Watch
  <2>1. CASE AdoptSwap
    BY <2>1, TypeNext DEF AdoptSwap, boot, TypeOK
  <2>2. CASE AdoptPersist
    BY <2>2 DEF AdoptPersist, TickEnds, boot, AdoptProgress, TypeOK
  <2>3. CASE AdoptBuild
    BY <2>3 DEF AdoptBuild, boot
  <2>4. CASE AdoptFails
    BY <2>4 DEF AdoptFails, TickEnds, boot
  <2>5. CASE TickFetch \/ TickVerify \/ AdoptResolve \/ AdoptPrewarm
    BY <2>5 DEF TickFetch, TickVerify, AdoptResolve, AdoptPrewarm, boot
  <2> QED
    BY <1>4, <2>1, <2>2, <2>3, <2>4, <2>5 DEF Watch
<1>5. CASE UNCHANGED vars
  BY <1>5 DEF vars, boot, watch
<1> QED
  BY <1>1, <1>2, <1>3, <1>4, <1>5 DEF Next

(* A restart during an outage brings back what is serving: outside the     *)
(* write itself the disk holds the live generation (persistBootSnapshot),  *)
(* unless the write failed or somebody else touched the file.              *)
THEOREM DiskServes ==
  ASSUME ~PersistMayFail, ~Staging, ~DeleteDisk
  PROVE  Spec => []DiskIsLive
<1>1. Init => DiskFollows
  BY DEF Init, DiskFollows, DiskIsLive, Up
<1>2. IInv /\ DiskFollows /\ [Next]_vars => DiskFollows'
  BY DiskNext DEF IInv
<1>3. DiskFollows => DiskIsLive
  BY DEF DiskFollows
<1> QED
  BY Invariance, <1>1, <1>2, <1>3, PTL DEF Spec

-----------------------------------------------------------------------------
(* The host implements its promise.                                        *)

(* A host that is down, with what was published so far, promises nothing.  *)
LEMMA PromiseInit == Init => Promise!Init
  BY DEF Init, Promise!Init, Pointers

(* The generations of the host are those of the promise.                   *)
LEMMA SameGenerations == Generations = Promise!Generations
  BY DEF Generations, Promise!Generations, Resolve, Promise!Resolve

(* Every step of the host is one of the promise, or one no visitor sees.   *)
LEMMA PromiseNext ==
  ASSUME IInv, IInv', [Next]_vars
  PROVE  [Promise!Next]_Promise!vars
<1>1. CASE \E o \in Pointers : Publish(o)
  <2>1. Promise!Publish
    BY <1>1 DEF Publish, boot, Promise!Publish, IInv, TypeOK, Pointers
  <2> QED
    BY <2>1 DEF Promise!Next
<1>2. CASE \E d \in Digests : ParentPublish(d)
  <2>1. Promise!Publish
    BY <1>2 DEF ParentPublish, boot, Promise!Publish, IInv, TypeOK, Pointers
  <2> QED
    BY <2>1 DEF Promise!Next
<1>3. CASE Crash \/ BootBuildFails \/ BootComposeFails
  <2>1. Promise!Stop
    BY <1>3 DEF Crash, BootBuildFails, BootComposeFails, Exit, published,
      Promise!Stop
  <2> QED
    BY <2>1 DEF Promise!Next
<1>4. CASE BootCompose
  <2>1. live.ui \in Promise!Generations \ Uncomposable
    BY <1>4, SameGenerations DEF BootCompose, Fetched, IInv, HoldsPublished,
      LiveComposed, Up
  <2>2. Promise!Start
    BY <1>4, <2>1 DEF BootCompose, published, Promise!Start
  <2> QED
    BY <2>2 DEF Promise!Next
<1>5. CASE AdoptSwap
  <2>1. next \in Resolutions(ptr) /\ ptr \in owns
    BY <1>5, DigestsAssumption DEF AdoptSwap, IInv, HoldsPublished, TypeOK,
      Pointers
  <2>2. next \in Promise!Generations \ (Uncomposable \cup BadEntry)
    BY <1>5, <2>1, ResolutionIsGeneration, SameGenerations DEF AdoptSwap,
      Fetched, IInv, AdoptProgress
  <2>3. CASE phase = "serving"
    <3>1. live.ui # None
      BY <2>3, DigestsAssumption DEF IInv, TypeOK, Up, States
    <3>2. Promise!Adopt
      BY <1>5, <2>2, <2>3, <3>1 DEF AdoptSwap, AdoptedState, State, boot,
        published, Promise!Adopt
    <3> QED
      BY <3>2 DEF Promise!Next
  <2>4. CASE phase # "serving"
    BY <1>5, <2>4 DEF AdoptSwap, boot, published, Promise!vars
  <2> QED
    BY <2>3, <2>4
<1>6. CASE Stage \/ RegistryToggles \/ CdnToggles \/ LoseDisk
  BY <1>6 DEF Stage, RegistryToggles, CdnToggles, LoseDisk, boot, published,
    Promise!vars
<1>7. CASE BootFetch \/ BootExtends \/ BootPersist \/ BootBuild
  BY <1>7 DEF BootFetch, BootExtends, BootPersist, BootBuild, SnapshotRung,
    Resolved, published, Promise!vars
<1>8. CASE Watch /\ ~AdoptSwap
  BY <1>8 DEF Watch, TickFetch, TickVerify, AdoptFails, AdoptResolve,
    AdoptBuild, AdoptPrewarm, AdoptPersist, boot, published, Promise!vars
<1>9. CASE UNCHANGED vars
  BY <1>9 DEF vars, boot, published, Promise!vars
<1> QED
  BY <1>1, <1>2, <1>3, <1>4, <1>5, <1>6, <1>7, <1>8, <1>9
  DEF Next, Outside, Boot

(* Visitors get nothing or one published, composed generation, and the     *)
(* only way to another is an adopt that verified it                        *)
(* (snapshot-coordinator.ts, adoptTransaction).                            *)
THEOREM HostKeepsPromise == Spec => ServesWhatItPromised
<1>1. IInv /\ IInv' /\ [Next]_vars => [Promise!Next]_Promise!vars
  BY PromiseNext
<1> QED
  BY Invariance, PromiseInit, <1>1, PTL DEF Spec, ServesWhatItPromised,
    Promise!Spec
=============================================================================
