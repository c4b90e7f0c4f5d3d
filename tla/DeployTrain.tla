---------------------------- MODULE DeployTrain ----------------------------
(***************************************************************************)
(* The deploy train: bos deploy, bos rollback and bos promote, as runs of  *)
(* runPublishTrain and runPostPublishLegs that share one FastKV registry.  *)
(*                                                                         *)
(* An invocation gates its payload, classifies the release leg off the     *)
(* published tag, checks that the version record is free, skips a publish  *)
(* that is already live, submits one transaction, reads every key it wrote *)
(* back, resubmits once when the transaction can no longer apply, and on a *)
(* red boot gate publishes the previous snapshot of the history.  There is *)
(* no lock: each await is a step of its own and other invocations and the  *)
(* chain move between two of them.                                         *)
(*                                                                         *)
(* Build, upload, byte verification, composition and truth gates are one   *)
(* decision each (they may refuse); what they compute is the config's      *)
(* base.  A process may be killed between any two steps.                   *)
(***************************************************************************)
EXTENDS FastKV, FiniteSets

CONSTANTS MaxActive,    \* how many invocations may run at the same time
          KeySigners,   \* invocations that broadcast with a publish key
          LateLanding   \* whether the chain may be slower than a train's
                        \* patience: a transaction given up on may land, a
                        \* landed one may be unknown to the node asked

ASSUME MaxActiveAssumption == MaxActive \in Nat \ {0}
ASSUME KeySignersAssumption == KeySigners \subseteq Trains
ASSUME LateLandingAssumption == LateLanding \in BOOLEAN

VARIABLES pc,         \* where each invocation stands
          job,        \* what it was invoked with
          plan,       \* the registry entries it is about to publish
          verified,   \* the legs whose read-back matched
          retried,    \* whether it has resubmitted
          recovering, \* whether it is publishing a smoke rollback
          txs,        \* the transactions it has broadcast, oldest first
          prior       \* history variable: the config live when it started

memory == <<job, plan, verified, retried, recovering, prior>>
vars == <<kv, pc, memory, txs>>

Finals == {"failed", "published", "rolledBack"}
Running == {"gates", "classify", "record", "publish", "submit", "confirm",
            "resubmit", "image", "smoke", "rollback", "railway"}
PCs == {"idle"} \cup Running \cup Finals

Job == [mode: {"deploy", "rollback", "promote"}, env: Envs, build: BOOLEAN,
        version: Versions \cup {Null}]
LegKinds == {"runtimeConfig", "manifest", "version"}

(* A broadcast: its write, what the chain did with it, and the history     *)
(* mark that its wait ended on the guess that it was dropped.              *)
Tx == [write: Write, status: {"pending", "landed", "rejected"},
       guessed: BOOLEAN]

TypeOK ==
  /\ KVTypeOK
  /\ pc \in [Trains -> PCs]
  /\ job \in [Trains -> Job \cup {Null}]
  /\ plan \in [Trains -> Write \cup {Null}]
  /\ verified \in [Trains -> SUBSET LegKinds]
  /\ retried \in [Trains -> BOOLEAN]
  /\ recovering \in [Trains -> BOOLEAN]
  /\ txs \in [Trains -> Seq(Tx)]
  /\ prior \in [Trains -> Config \cup {Null}]

(* The registry may already serve a config per environment, published      *)
(* before the platform had release manifests.                              *)
Init ==
  /\ configs \in [Envs -> {<<>>} \cup
                    {<<[base |-> b, rolledBackFrom |-> Null]>> : b \in Bases}]
  /\ tags = [e \in Envs |-> <<>>]
  /\ records = [e \in Envs |-> [v \in Versions |-> <<>>]]
  /\ pc = [t \in Trains |-> "idle"]
  /\ job = [t \in Trains |-> Null]
  /\ plan = [t \in Trains |-> Null]
  /\ verified = [t \in Trains |-> {}]
  /\ retried = [t \in Trains |-> FALSE]
  /\ recovering = [t \in Trains |-> FALSE]
  /\ txs = [t \in Trains |-> <<>>]
  /\ prior = [t \in Trains |-> Null]

-----------------------------------------------------------------------------
Active == {t \in Trains : pc[t] \in Running}
MayStart(t) == pc[t] = "idle" /\ Cardinality(Active) < MaxActive

ConfigWrite(e, c) == [env |-> e, config |-> c, version |-> Null,
                      record |-> Null, restore |-> Null]

(* The gateway of the session's own config: env does not enter into it.    *)
SessionEnv == "production"

Goto(t, l) == pc' = [pc EXCEPT ![t] = l]

(* The process ends, and what it kept in memory with it.                   *)
Exit(t, outcome) ==
  /\ Goto(t, outcome)
  /\ job' = [job EXCEPT ![t] = Null]
  /\ plan' = [plan EXCEPT ![t] = Null]
  /\ verified' = [verified EXCEPT ![t] = {}]
  /\ retried' = [retried EXCEPT ![t] = FALSE]
  /\ recovering' = [recovering EXCEPT ![t] = FALSE]
  /\ prior' = [prior EXCEPT ![t] = Null]

(* A refused or failed publish ends the invocation; during a recovery it   *)
(* leaves the red config in place.                                         *)
Abort(t) == Exit(t, "failed")

(* bos deploy with a build: preflight passed, the payload is the authored  *)
(* config with the pins of this build.                                     *)
StartDeploy(t) ==
  /\ MayStart(t)
  /\ \E e \in Envs, b \in Bases, v \in Versions \cup {Null} :
       /\ job' = [job EXCEPT ![t] = [mode |-> "deploy", env |-> e,
                                     build |-> TRUE, version |-> v]]
       /\ plan' = [plan EXCEPT ![t] =
                     ConfigWrite(e, [base |-> b, rolledBackFrom |-> Null])]
       /\ prior' = [prior EXCEPT ![t] = Latest(configs[e])]
  /\ Goto(t, "gates")
  /\ UNCHANGED <<kv, verified, retried, recovering, txs>>

(* bos deploy --no-build: the authored config over the published one that  *)
(* preflight read, whose rolledBackFrom survives the merge.  An            *)
(* unreachable registry refuses the publish.                               *)
StartConfigOnly(t) ==
  /\ MayStart(t)
  /\ \E e \in Envs, b \in Bases, v \in Versions \cup {Null} :
       LET published == Latest(configs[e])
           stamp == IF published = Null THEN Null
                    ELSE published.rolledBackFrom
       IN /\ job' = [job EXCEPT ![t] = [mode |-> "deploy", env |-> e,
                                        build |-> FALSE, version |-> v]]
          /\ plan' = [plan EXCEPT ![t] =
                        ConfigWrite(e, [base |-> b, rolledBackFrom |-> stamp])]
          /\ prior' = [prior EXCEPT ![t] = published]
  /\ Goto(t, "gates")
  /\ UNCHANGED <<kv, verified, retried, recovering, txs>>

-----------------------------------------------------------------------------
(* Rolling back.                                                           *)

BuildRollbackPayload(c, t) == [c EXCEPT !.rolledBackFrom = t]

(* resolvePointerRestore: entry [1] of the history read under the key the  *)
(* code passes, which is the relative one.                                 *)
ResolvePointerRestore ==
  {IF Len(h) > 1 THEN h[2] ELSE Null :
     h \in FetchConfigHistory(TagHistoryAt(ManifestTagRelKey))}

(* publishRollbackSnapshot composes the entries of a rollback to c; a      *)
(* promote republishes c verbatim.                                         *)
RollbackWrites(t, e, c, promote) ==
  {[ConfigWrite(e, IF promote THEN c ELSE BuildRollbackPayload(c, t))
      EXCEPT !.restore = tag] : tag \in ResolvePointerRestore}

(* bos rollback --version / --previous and bos promote --version: pick a   *)
(* history entry; a rollback refuses the one that is live, as far as its   *)
(* read of the live config answered.                                       *)
StartRollback(t) ==
  /\ MayStart(t)
  /\ \E e \in Envs, mode \in {"rollback", "promote"} :
     \E history \in FetchConfigHistory(configs[SessionEnv]) :
     \E i \in 1 .. Len(history) :
       /\ mode = "rollback" => \E live \in FetchRegistryKey(configs[SessionEnv]) :
                                 history[i] # live
       /\ job' = [job EXCEPT ![t] = [mode |-> mode, env |-> e,
                                     build |-> FALSE, version |-> Null]]
       /\ \E w \in RollbackWrites(t, e, history[i], mode = "promote") :
            plan' = [plan EXCEPT ![t] = w]
       /\ prior' = [prior EXCEPT ![t] = Latest(configs[e])]
  /\ Goto(t, "gates")
  /\ UNCHANGED <<kv, verified, retried, recovering, txs>>

(* Mutant of PreviousSnapshot: the page is read oldest-first.              *)
PreviousSnapshotOldest(history) ==
  IF Len(history) > 1 THEN history[Len(history)] ELSE Null

(* The entry the smoke protocol rolls back to, history[1] of a             *)
(* newest-first page.                                                      *)
PreviousSnapshot(history) == IF Len(history) > 1 THEN history[2] ELSE Null

(* The smoke failure protocol: read the publish history of the session's   *)
(* gateway and publish its second entry through the train again.           *)
RollbackToPreviousSnapshot(t) ==
  /\ pc[t] = "rollback"
  /\ \E history \in FetchConfigHistory(configs[SessionEnv]) :
     LET previous == PreviousSnapshot(history) IN
       IF previous = Null
       THEN Abort(t)
       ELSE /\ \E w \in RollbackWrites(t, job[t].env, previous, FALSE) :
                 plan' = [plan EXCEPT ![t] = w]
            /\ recovering' = [recovering EXCEPT ![t] = TRUE]
            /\ retried' = [retried EXCEPT ![t] = FALSE]
            /\ Goto(t, "gates")
            /\ UNCHANGED <<job, verified, prior>>
  /\ UNCHANGED <<kv, txs>>

-----------------------------------------------------------------------------
(* Publishing.                                                             *)

(* Preflight, boot check, pin verification and composition gate.  Only a   *)
(* production build goes on to the release classifier; a rollback never    *)
(* builds.                                                                 *)
Gates(t) ==
  /\ pc[t] = "gates"
  /\ \/ Abort(t)
     \/ /\ Goto(t, IF /\ job[t].env = "production"
                      /\ job[t].build
                      /\ ~recovering[t]
                   THEN "classify" ELSE "publish")
        /\ UNCHANGED memory
  /\ UNCHANGED <<kv, txs>>

(* Mutant of ManifestOwed: any difference owes a release.                  *)
ManifestOwedDiffers(pointer, version) ==
  /\ version # Null
  /\ pointer = Null \/ pointer.version # version

(* computeOwedWork with the tag alone: no tag, or a tag whose version      *)
(* trails the repo's.                                                      *)
ManifestOwed(pointer, version) ==
  /\ version # Null
  /\ pointer = Null \/ pointer.version < version

(* Mutants of ComposeRecord: the floor is always the release's own         *)
(* version; the floor has no default when no tag was read.                 *)
ComposeRecordOwnFloor(t, pointer) ==
  [base |-> plan[t].config.base, floor |-> FromCutover(job[t].version)]

ComposeRecordNoDefault(t, pointer) ==
  [base |-> plan[t].config.base,
   floor |-> IF pointer = Null THEN Null ELSE FromCutover(pointer.version)]

(* The manifest this deploy composes.  Its compat floor is the version the *)
(* tag served, or its own when none was read, but never one below the      *)
(* cutover release.                                                        *)
ComposeRecord(t, pointer) ==
  [base |-> plan[t].config.base,
   floor |-> FromCutover(IF pointer = Null THEN job[t].version
                         ELSE pointer.version)]

(* The release classifier reads the tag; the truth gate or the compat      *)
(* window may refuse.                                                      *)
Classify(t) ==
  /\ pc[t] = "classify"
  /\ \/ Abort(t)
     \/ /\ \E pointer \in FetchRegistryKey(tags[job[t].env]) :
             IF ManifestOwed(pointer, job[t].version)
             THEN /\ plan' = [plan EXCEPT
                       ![t].version = job[t].version,
                       ![t].record = ComposeRecord(t, pointer)]
                  /\ Goto(t, "record")
             ELSE Goto(t, "publish") /\ UNCHANGED plan
        /\ UNCHANGED <<job, verified, retried, recovering, prior>>
  /\ UNCHANGED <<kv, txs>>

(* The immutability check: the record must be absent or identical.         *)
RecordFree(existing, record) == existing = Null \/ existing = record

CheckRecord(t) ==
  /\ pc[t] = "record"
  /\ \E existing \in FetchRegistryKey(records[plan[t].env][plan[t].version]) :
       IF RecordFree(existing, plan[t].record)
       THEN Goto(t, "publish") /\ UNCHANGED memory
       ELSE Abort(t)
  /\ UNCHANGED <<kv, txs>>

(* Where an invocation goes once its publish counts: a deploy to its       *)
(* post-publish legs, with the entries it is told of; a rollback to its    *)
(* end.                                                                    *)
AfterPublish(t, entries) ==
  IF recovering[t] THEN Exit(t, "rolledBack")
  ELSE IF job[t].mode # "deploy" THEN Exit(t, "published")
  ELSE /\ Goto(t, "image")
       /\ plan' = [plan EXCEPT ![t] = entries]
       /\ verified' = [verified EXCEPT ![t] = {}]
       /\ UNCHANGED <<job, retried, recovering, prior>>

(* isConfigAlreadyPublished: an identical live config skips the            *)
(* transaction, release leg and all, and the caller is told of no release. *)
SkipPublished(t) ==
  /\ pc[t] = "publish"
  /\ Latest(configs[plan[t].env]) = plan[t].config
  /\ AfterPublish(t, [plan[t] EXCEPT !.version = Null, !.record = Null])
  /\ UNCHANGED <<kv, txs>>

(* A different config is live, or the read failed.                         *)
NotPublished(t) ==
  /\ pc[t] = "publish"
  /\ ReadsMayFail \/ Latest(configs[plan[t].env]) # plan[t].config
  /\ Goto(t, "submit")
  /\ UNCHANGED <<kv, memory, txs>>

Broadcast(t) ==
  txs' = [txs EXCEPT ![t] =
            Append(@, [write |-> plan[t], status |-> "pending",
                       guessed |-> FALSE])]

(* The signer throws, before or after the broadcast left the machine.      *)
SubmitFails(t) == (Broadcast(t) \/ UNCHANGED txs) /\ Abort(t)

(* submitOnce.                                                             *)
Submit(t) ==
  /\ pc[t] = "submit"
  /\ \/ Broadcast(t) /\ Goto(t, "confirm") /\ UNCHANGED memory
     \/ SubmitFails(t)
  /\ UNCHANGED kv

-----------------------------------------------------------------------------
(* The confirmation machine.                                               *)

Legs(w) == IF w.version = Null THEN {"runtimeConfig"} ELSE LegKinds

(* Whether the registry serves the value a leg expects.                    *)
LegServed(w, leg) ==
  CASE leg = "runtimeConfig" -> Latest(configs[w.env]) = w.config
    [] leg = "manifest" -> Latest(tags[w.env]) = TagEntry(w)
    [] leg = "version" -> Latest(records[w.env][w.version]) = w.record

(* One read-back that matches; a leg stays verified once it is.            *)
VerifyLeg(t) ==
  /\ pc[t] = "confirm"
  /\ \E leg \in Legs(plan[t]) \ verified[t] :
       /\ LegServed(plan[t], leg)
       /\ verified' = [verified EXCEPT ![t] = @ \cup {leg}]
  /\ UNCHANGED <<kv, pc, job, plan, retried, recovering, txs, prior>>

(* Mutant of AllVerified: the first leg that verifies is enough.           *)
AnyVerified(t) == verified[t] # {}

AllVerified(t) == verified[t] = Legs(plan[t])

Confirmed(t) ==
  /\ pc[t] = "confirm"
  /\ AllVerified(t)
  /\ AfterPublish(t, plan[t])
  /\ UNCHANGED <<kv, txs>>

(* Mutant of TxTerminal: a failed execution reads as a rejection, though   *)
(* on the codeless registry account it is how every publish succeeds.      *)
TxTerminalBlind(tx, verdict) == TRUE

(* The verdicts that end a wait: "invalid", the chain refused the          *)
(* transaction, and "unknown", no node has seen it for the whole grace     *)
(* period.  The second is a guess: the transaction may still be underway,  *)
(* and on a slow chain may even be in a block.                             *)
TxTerminal(tx, verdict) ==
  \/ tx.status # "landed"
  \/ LateLanding /\ verdict = "unknown"

(* What is known of a transaction after a terminal verdict.  That the      *)
(* chain refused it shows in no step before the probe which says so.       *)
Judged(tx, verdict) ==
  IF verdict = "unknown" THEN [tx EXCEPT !.guessed = TRUE]
  ELSE [tx EXCEPT !.status = IF @ = "pending" THEN "rejected" ELSE @]

(* The status probe of a direct broadcast, after a read-back that missed,  *)
(* ends the wait; the first time the train goes on to resubmit.            *)
TerminalTx(t) ==
  /\ pc[t] = "confirm"
  /\ t \in KeySigners
  /\ ~AllVerified(t)
  /\ \E verdict \in {"invalid", "unknown"} :
       /\ TxTerminal(txs[t][Len(txs[t])], verdict)
       /\ txs' = [txs EXCEPT ![t][Len(txs[t])] = Judged(@, verdict)]
  /\ IF retried[t]
     THEN Abort(t)
     ELSE /\ Goto(t, "resubmit")
          /\ verified' = [verified EXCEPT ![t] = {}]
          /\ UNCHANGED <<job, plan, retried, recovering, prior>>
  /\ UNCHANGED kv

(* The identical bytes once more, signed afresh, and a wait from the       *)
(* start.  The first broadcast is not looked at again.                     *)
Resubmit(t) ==
  /\ pc[t] = "resubmit"
  /\ \/ /\ Broadcast(t)
        /\ Goto(t, "confirm")
        /\ retried' = [retried EXCEPT ![t] = TRUE]
        /\ UNCHANGED <<job, plan, verified, recovering, prior>>
     \/ SubmitFails(t)
  /\ UNCHANGED kv

(* Mutant of ConfirmTimeout: the deadline guards the resubmission only.    *)
ConfirmTimeoutAfterRetry(t) ==
  /\ pc[t] = "confirm"
  /\ ~AllVerified(t)
  /\ retried[t]
  /\ Abort(t)
  /\ UNCHANGED <<kv, txs>>

(* The deadline passes with a leg unverified.                              *)
ConfirmTimeout(t) ==
  /\ pc[t] = "confirm"
  /\ ~AllVerified(t)
  /\ Abort(t)
  /\ UNCHANGED <<kv, txs>>

-----------------------------------------------------------------------------
(* The post-publish legs: image, smoke, Railway.                           *)

(* The image is built, pinned or skipped; a failed build ends the          *)
(* invocation with the config published.  Smoke is opt-in.                 *)
ImageLeg(t) ==
  /\ pc[t] = "image"
  /\ \/ Exit(t, "published")
     \/ \E l \in {"smoke", "railway"} : Goto(t, l) /\ UNCHANGED memory
  /\ UNCHANGED <<kv, txs>>

(* On a release the tag must serve the version just published, read        *)
(* through the session's gateway, before the image boots.                  *)
SmokeLeg(t) ==
  /\ pc[t] = "smoke"
  /\ \E pointer \in FetchRegistryKey(tags[SessionEnv]) :
       \/ Goto(t, "rollback")
       \/ /\ plan[t].version # Null =>
               pointer # Null /\ pointer.version = plan[t].version
          /\ Goto(t, "railway")
  /\ UNCHANGED <<kv, memory, txs>>

(* The service redeploys, is skipped, or fails: the config stays.          *)
RailwayLeg(t) ==
  /\ pc[t] = "railway"
  /\ Exit(t, "published")
  /\ UNCHANGED <<kv, txs>>

-----------------------------------------------------------------------------
(* The chain and the operator.                                             *)

(* A transaction lands; the nonces of the earlier ones of this key are     *)
(* spent.  One the chain rejects or drops is one that never lands.         *)
Land(t) ==
  /\ \E i \in 1 .. Len(txs[t]) :
       /\ txs[t][i].status = "pending"
       /\ LateLanding \/ (pc[t] = "confirm" /\ i = Len(txs[t]))
       /\ Apply(txs[t][i].write)
       /\ txs' = [txs EXCEPT ![t] =
            [j \in 1 .. Len(txs[t]) |->
               [txs[t][j] EXCEPT !.status =
                  IF j = i THEN "landed"
                  ELSE IF j < i /\ @ = "pending" THEN "rejected" ELSE @]]]
  /\ UNCHANGED <<pc, memory>>

(* The CLI process dies (a cancelled workflow, a closed terminal).         *)
Kill(t) ==
  /\ pc[t] \in Running
  /\ Exit(t, "failed")
  /\ UNCHANGED <<kv, txs>>

Step(t) ==
  \/ Gates(t) \/ Classify(t) \/ CheckRecord(t)
  \/ SkipPublished(t) \/ NotPublished(t) \/ Submit(t)
  \/ VerifyLeg(t) \/ Confirmed(t) \/ TerminalTx(t) \/ Resubmit(t)
  \/ ConfirmTimeout(t)
  \/ ImageLeg(t) \/ SmokeLeg(t) \/ RailwayLeg(t)
  \/ RollbackToPreviousSnapshot(t)

Start(t) == StartDeploy(t) \/ StartConfigOnly(t) \/ StartRollback(t)

Next == \E t \in Trains : Start(t) \/ Step(t) \/ Land(t) \/ Kill(t)

Spec == Init /\ [][Next]_vars

(* A running CLI process takes its next step: every await carries a        *)
(* deadline of its own.  Nothing is assumed of the chain or of operators.  *)
FairSpec == Spec /\ \A t \in Trains : WF_vars(Step(t))

-----------------------------------------------------------------------------
(* Properties.                                                             *)

(* The release pointer always resolves: the record the tag names exists    *)
(* and is the one its digest pins, whatever trains race, die or land late  *)
(* (train.ts: the record and the tag flip ride one atomic write).          *)
TagNamesRecord ==
  \A e \in Envs : tags[e] # <<>> =>
    LET tag == Latest(tags[e]) IN Latest(records[e][tag.version]) = tag.digest

Written(w) ==
  /\ w.config \in Range(configs[w.env])
  /\ w.version # Null =>
       /\ TagEntry(w) \in Range(tags[w.env])
       /\ w.record \in Range(records[w.env][w.version])

(* A publish counts only when every value it meant to write is in the      *)
(* registry: a timeout, a rejected broadcast or a partly verified release  *)
(* is never reported as published (confirm.ts).                            *)
ReadBackSound ==
  [][\A t \in Trains :
       pc[t] = "confirm" /\ pc'[t] \in {"image", "published", "rolledBack"}
       => Written(plan[t])]_vars

(* A publish is applied twice only on a wrong guess: never after the chain *)
(* refused the first broadcast, only when the wait was cut short because   *)
(* no node had seen it yet, and never a third time.  A first broadcast     *)
(* may land before, during or after the resubmission (confirm.ts,          *)
(* terminalTx; train.ts, resubmitting the identical bytes).                *)
AppliedOnce ==
  \A t \in Trains :
    \A i, j \in 1 .. Len(txs[t]) :
      /\ i < j
      /\ txs[t][i].status = "landed" /\ txs[t][j].status = "landed"
      /\ txs[t][i].write = txs[t][j].write
      => j = i + 1 /\ txs[t][i].guessed

(* A deploy from an older checkout never moves the release pointer back    *)
(* (owed.ts: only a tag that trails the repo owes a release).              *)
TagOnlyForward ==
  [][\A e \in Envs : tags[e] # <<>> /\ tags'[e] # tags[e] =>
       Latest(tags[e]).version < Latest(tags[e])'.version]_vars

(* Releases chain: each record's compat floor is the version the pointer   *)
(* served before it, so a child of the previous release still resolves,    *)
(* unless that release is older than the cutover: then it is the cutover   *)
(* (platform-manifest.ts, composePlatformManifestPublishEntry).            *)
FloorsChain ==
  \A e \in Envs : \A i \in 2 .. Len(tags[e]) :
    tags[e][i].digest.floor = FromCutover(tags[e][i - 1].version)

RollsBack(t) == pc[t] # "rolledBack" /\ pc'[t] = "rolledBack"

(* The invocation broadcast a publish of its own before its recovery.      *)
BroadcastOwn(t) ==
  \E i \in 1 .. Len(txs[t]) : txs[t][i].write.config.rolledBackFrom # t

(* A red boot gate puts back what was live: after the recovery of a train  *)
(* that published, the environment serves the content it served before the *)
(* train started (rollback-flow.ts, rollbackToPreviousSnapshot).           *)
RedRestoresPrior ==
  [][\A t \in Trains : RollsBack(t) /\ BroadcastOwn(t) =>
       /\ prior[t] # Null
       /\ Latest(configs[job[t].env]).base = prior[t].base]_vars

(* Every invocation ends: deadlines and the single resubmission bound each *)
(* wait, and a recovery is not recovered from.                             *)
Terminates == \A t \in Trains : pc[t] \in Running ~> pc[t] \in Finals

-----------------------------------------------------------------------------
(* The registry implements its promise.                                    *)

Promise == INSTANCE PlatformRegistry WITH
  live <- [e \in Envs |-> Latest(configs[e])],
  pointer <- [e \in Envs |-> Latest(tags[e])],
  record <- [e \in Envs |-> [v \in Versions |-> Latest(records[e][v])]]

(* Every step of every train keeps the registry's promise to its readers:  *)
(* it is a publish, a whole release, or nothing a reader can see.          *)
KeepsPromise == Promise!Spec
=============================================================================
