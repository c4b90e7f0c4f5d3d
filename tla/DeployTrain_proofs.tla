-------------------------- MODULE DeployTrain_proofs --------------------------
(***************************************************************************)
(* Proofs about the deploy train, for every set of environments, versions, *)
(* contents and trains.                                                    *)
(*                                                                         *)
(* First part: type correctness, the release pointer always names its      *)
(* record, and the registry implements PlatformRegistry.  The inductive    *)
(* invariant is Inv: beyond TypeOK it says that what a running train is    *)
(* about to write, and what any train has ever broadcast, is a whole write *)
(* (WriteSound): a release carries its record, and no write moves the tag  *)
(* alone.                                                                  *)
(*                                                                         *)
(* Second part: what the trains' own protocol guarantees.  Every step is   *)
(* one of a few effects on one train (Effect, Starts, Land; NextEffects),  *)
(* and each invariant of a train is kept by every effect of its own and by *)
(* the steps of others:                                                    *)
(*   ReadBack    what a leg verified is in the history                     *)
(*   Sending     what was broadcast, and with whose stamp                  *)
(*   Once        a write is broadcast again once, and after a verdict      *)
(*   Releasing   a composed release follows the pointer until it lands     *)
(*   Restoring   where the config that was live before the train is now    *)
(* The first three hold whatever trains race; the last two when production *)
(* deploys take turns (ProductionSerial) over a registry that is Reliable. *)
(* Rank, at the end, bounds the steps of an invocation.                    *)
(***************************************************************************)
EXTENDS DeployTrain, SequenceTheorems, FiniteSetTheorems, TLAPS

(* A release carries its record; nothing else touches the tag.             *)
WriteSound(w) ==
  /\ w \in Write
  /\ w.version # Null => w.record # Null
  /\ w.restore = Null

(* The memory of the trains: a running one knows its job and its writes.   *)
MemoryOK ==
  /\ pc \in [Trains -> PCs]
  /\ job \in [Trains -> Job \cup {Null}]
  /\ plan \in [Trains -> Write \cup {Null}]
  /\ verified \in [Trains -> SUBSET LegKinds]
  /\ retried \in [Trains -> BOOLEAN]
  /\ recovering \in [Trains -> BOOLEAN]
  /\ prior \in [Trains -> Config \cup {Null}]
  /\ \A t \in Trains : pc[t] \in Running => job[t] \in Job /\ WriteSound(plan[t])

(* What was broadcast.                                                     *)
TxsOK ==
  /\ txs \in [Trains -> Seq(Tx)]
  /\ \A t \in Trains : \A i \in 1 .. Len(txs[t]) : WriteSound(txs[t][i].write)

Inv == KVTypeOK /\ TagNamesRecord /\ MemoryOK /\ TxsOK

-----------------------------------------------------------------------------
(* Lemmas about the registry's operators.                                  *)

(* The latest value of a history is one of its values, or Null.            *)
LEMMA LatestType ==
  ASSUME NEW S, NEW h \in Seq(S)
  PROVE  /\ Latest(h) \in S \cup {Null}
         /\ h # <<>> => Latest(h) \in S
  BY DEF Latest

(* Appending makes a value the latest one.                                 *)
LEMMA LatestAppend ==
  ASSUME NEW S, NEW h \in Seq(S), NEW x \in S
  PROVE  /\ Append(h, x) \in Seq(S)
         /\ Append(h, x) # <<>>
         /\ Latest(Append(h, x)) = x
  BY DEF Latest

(* Appending to one history of a family of them.                           *)
LEMMA AppendOne ==
  ASSUME NEW D, NEW S, NEW f \in [D -> Seq(S)], NEW d \in D, NEW x \in S,
         NEW g, g = [f EXCEPT ![d] = Append(f[d], x)]
  PROVE  g \in [D -> Seq(S)]
<1>1. Append(f[d], x) \in Seq(S)
  BY LatestAppend
<1>2. QED
  BY <1>1

(* A page of history rows holds values of the history.                     *)
LEMMA HistoryType ==
  ASSUME NEW S, NEW h \in Seq(S), NEW rows \in FetchConfigHistory(h)
  PROVE  rows \in Seq(S)
<1>1. Reverse(h) \in Seq(S)
  BY DEF Reverse
<1>2. rows = Reverse(h) \/ rows = <<>>
  BY Zenon DEF FetchConfigHistory
<1>3. QED
  BY <1>1, <1>2, EmptySeq

(* The relative tag key is no environment's wire key: the pointer restore  *)
(* of a rollback never finds a tag.                                        *)
LEMMA NoPointerRestore == ResolvePointerRestore = {Null}
<1>1. \A e \in Envs : ManifestTagRelKey # ManifestKey(e)
  BY DEF ManifestTagRelKey, ManifestKey
<1>2. TagHistoryAt(ManifestTagRelKey) = <<>>
  BY <1>1 DEF TagHistoryAt
<1>3. \A h \in FetchConfigHistory(<<>>) : ~(Len(h) > 1)
  BY DEF FetchConfigHistory, Reverse
<1>4. FetchConfigHistory(<<>>) # {}
  BY DEF FetchConfigHistory
<1>5. QED
  BY <1>2, <1>3, <1>4 DEF ResolvePointerRestore

(* The entries of a plain publish are sound.                               *)
LEMMA ConfigWriteSound ==
  ASSUME NEW e \in Envs, NEW c \in Config
  PROVE  WriteSound(ConfigWrite(e, c))
  BY DEF WriteSound, ConfigWrite, Write

(* The entries of a rollback or a promote are sound.                       *)
LEMMA RollbackWritesSound ==
  ASSUME NEW t \in Trains, NEW e \in Envs, NEW c \in Config,
         NEW promote \in BOOLEAN, NEW w \in RollbackWrites(t, e, c, promote)
  PROVE  WriteSound(w)
<1>1. BuildRollbackPayload(c, t) \in Config
  BY DEF BuildRollbackPayload, Config
<1>2. PICK d \in Config : w = [ConfigWrite(e, d) EXCEPT !.restore = Null]
  BY <1>1, NoPointerRestore DEF RollbackWrites
<1>3. [ConfigWrite(e, d) EXCEPT !.restore = Null] = ConfigWrite(e, d)
  BY DEF ConfigWrite
<1>4. QED
  BY <1>2, <1>3, ConfigWriteSound

-----------------------------------------------------------------------------
(* One transaction landing.                                                *)

(* The tag entry of a sound write is a tag exactly when it is a release,   *)
(* and then it names the record the write carries.                         *)
LEMMA TagEntryType ==
  ASSUME NEW w, WriteSound(w)
  PROVE  /\ w.version = Null => TagEntry(w) = Null
         /\ w.version # Null => /\ w.version \in Versions
                               /\ w.record \in Record
                               /\ TagEntry(w) \in Tag
                               /\ TagEntry(w).version = w.version
                               /\ TagEntry(w).digest = w.record
                               /\ TagEntry(w) # Null
<1>1. CASE w.version = Null
  BY <1>1 DEF WriteSound, TagEntry
<1>2. CASE w.version # Null
  <2>1. w.version \in Versions /\ w.record \in Record
    BY <1>2 DEF WriteSound, Write
  <2>2. TagEntry(w) = [version |-> w.version, digest |-> w.record]
    BY <1>2 DEF TagEntry
  <2>3. QED
    BY <1>2, <2>1, <2>2, NullAssumption DEF Tag
<1>3. QED
  BY <1>1, <1>2

(* The records of an environment with one more.                            *)
AddRecord(w) ==
  [records[w.env] EXCEPT ![w.version] = Append(records[w.env][w.version], w.record)]

(* What a sound write does to the registry, by cases.                      *)
LEMMA ApplyCases ==
  ASSUME NEW w, WriteSound(w), Apply(w)
  PROVE  /\ w.env \in Envs
         /\ w.config \in Config
         /\ configs' = [configs EXCEPT ![w.env] = Append(configs[w.env], w.config)]
         /\ w.version = Null => tags' = tags /\ records' = records
         /\ w.version # Null =>
              /\ tags' = [tags EXCEPT ![w.env] = Append(tags[w.env], TagEntry(w))]
              /\ records' = [records EXCEPT ![w.env] = AddRecord(w)]
<1>1. w.env \in Envs /\ w.config \in Config
  BY DEF WriteSound, Write
<1>2. w.version = Null => tags' = tags /\ records' = records
  BY TagEntryType DEF Apply
<1>3. ASSUME w.version # Null
      PROVE  /\ tags' = [tags EXCEPT ![w.env] = Append(tags[w.env], TagEntry(w))]
             /\ records' = [records EXCEPT ![w.env] = AddRecord(w)]
  <2>1. TagEntry(w) # Null
    BY <1>3, TagEntryType
  <2>2. QED
    BY <1>3, <2>1 DEF Apply, AddRecord
<1>4. configs' = [configs EXCEPT ![w.env] = Append(configs[w.env], w.config)]
  BY DEF Apply
<1>5. QED
  BY <1>1, <1>2, <1>3, <1>4

(* Landing a sound write keeps the registry's types.                       *)
LEMMA ApplyType ==
  ASSUME KVTypeOK, NEW w, WriteSound(w), Apply(w)
  PROVE  KVTypeOK'
<1>1. w.env \in Envs /\ w.config \in Config
  BY ApplyCases
<1>2. configs' \in [Envs -> Seq(Config)]
  <2>1. configs' = [configs EXCEPT ![w.env] = Append(configs[w.env], w.config)]
    BY ApplyCases
  <2>2. QED
    BY <1>1, <2>1, AppendOne DEF KVTypeOK
<1>3. CASE w.version = Null
  <2>1. tags' = tags /\ records' = records
    BY <1>3, ApplyCases
  <2>2. QED
    BY <1>2, <2>1 DEF KVTypeOK
<1>4. CASE w.version # Null
  <2>1. w.version \in Versions /\ w.record \in Record /\ TagEntry(w) \in Tag
    BY <1>4, TagEntryType
  <2>2. /\ tags' = [tags EXCEPT ![w.env] = Append(tags[w.env], TagEntry(w))]
        /\ records' = [records EXCEPT ![w.env] = AddRecord(w)]
    BY <1>4, ApplyCases
  <2>3. tags' \in [Envs -> Seq(Tag)]
    BY <1>1, <2>1, <2>2, AppendOne DEF KVTypeOK
  <2>4. records[w.env] \in [Versions -> Seq(Record)]
    BY <1>1 DEF KVTypeOK
  <2>5. AddRecord(w) \in [Versions -> Seq(Record)]
    BY <2>1, <2>4, AppendOne DEF AddRecord
  <2>6. records' \in [Envs -> [Versions -> Seq(Record)]]
    BY <1>1, <2>2, <2>5 DEF KVTypeOK
  <2>7. QED
    BY <1>2, <2>3, <2>6 DEF KVTypeOK
<1>5. QED
  BY <1>3, <1>4

(* What a reader of an environment sees before and after.                  *)
LEMMA ApplyLatest ==
  ASSUME KVTypeOK, NEW w, WriteSound(w), Apply(w)
  PROVE  /\ \A e \in Envs :
              /\ Latest(configs'[e]) = IF e = w.env THEN w.config
                                       ELSE Latest(configs[e])
              /\ Latest(tags'[e]) = IF e = w.env /\ w.version # Null
                                    THEN TagEntry(w) ELSE Latest(tags[e])
              /\ \A v \in Versions :
                   Latest(records'[e][v]) =
                     IF e = w.env /\ v = w.version THEN w.record
                     ELSE Latest(records[e][v])
<1>1. /\ w.env \in Envs /\ w.config \in Config
      /\ configs' = [configs EXCEPT ![w.env] = Append(configs[w.env], w.config)]
  BY ApplyCases
<1>2. \A e \in Envs : Latest(configs'[e]) = IF e = w.env THEN w.config
                                            ELSE Latest(configs[e])
  <2> TAKE e \in Envs
  <2>1. configs[e] \in Seq(Config)
    BY DEF KVTypeOK
  <2>2. configs'[e] = IF e = w.env THEN Append(configs[e], w.config)
                      ELSE configs[e]
    BY <1>1 DEF KVTypeOK
  <2>3. Latest(Append(configs[e], w.config)) = w.config
    BY <1>1, <2>1, LatestAppend
  <2>4. QED
    BY <2>2, <2>3
<1>3. CASE w.version = Null
  <2>1. tags' = tags /\ records' = records
    BY <1>3, ApplyCases
  <2>2. QED
    BY <1>2, <1>3, <2>1, NullAssumption
<1>4. CASE w.version # Null
  <2>1. w.version \in Versions /\ w.record \in Record /\ TagEntry(w) \in Tag
    BY <1>4, TagEntryType
  <2>2. /\ tags' = [tags EXCEPT ![w.env] = Append(tags[w.env], TagEntry(w))]
        /\ records' = [records EXCEPT ![w.env] = AddRecord(w)]
    BY <1>4, ApplyCases
  <2>3. \A e \in Envs : Latest(tags'[e]) = IF e = w.env THEN TagEntry(w)
                                           ELSE Latest(tags[e])
    <3> TAKE e \in Envs
    <3>1. tags[e] \in Seq(Tag)
      BY DEF KVTypeOK
    <3>2. tags'[e] = IF e = w.env THEN Append(tags[e], TagEntry(w)) ELSE tags[e]
      BY <2>2 DEF KVTypeOK
    <3>3. Latest(Append(tags[e], TagEntry(w))) = TagEntry(w)
      BY <2>1, <3>1, LatestAppend
    <3>4. QED
      BY <3>2, <3>3
  <2>4. ASSUME NEW e \in Envs, NEW v \in Versions
        PROVE  Latest(records'[e][v]) =
                 IF e = w.env /\ v = w.version THEN w.record
                 ELSE Latest(records[e][v])
    <3>1. CASE e = w.env
      <4>1. records[e][v] \in Seq(Record)
        BY DEF KVTypeOK
      <4>2. records'[e][v] = IF v = w.version
                             THEN Append(records[e][v], w.record)
                             ELSE records[e][v]
        BY <2>1, <2>2, <3>1 DEF KVTypeOK, AddRecord
      <4>3. Latest(Append(records[e][v], w.record)) = w.record
        BY <2>1, <4>1, LatestAppend
      <4>4. QED
        BY <3>1, <4>2, <4>3
    <3>2. CASE e # w.env
      <4>1. records'[e] = records[e]
        BY <2>2, <3>2 DEF KVTypeOK
      <4>2. QED
        BY <3>2, <4>1
    <3>3. QED
      BY <3>1, <3>2
  <2>5. QED
    BY <1>2, <1>4, <2>3, <2>4
<1>5. QED
  BY <1>3, <1>4

(* Landing a sound write keeps the pointer on its record: a plain publish  *)
(* touches neither, a release replaces both.                               *)
LEMMA ApplyTagNamesRecord ==
  ASSUME KVTypeOK, TagNamesRecord, NEW w, WriteSound(w), Apply(w)
  PROVE  TagNamesRecord'
<1>1. CASE w.version = Null
  BY <1>1, ApplyCases DEF TagNamesRecord
<1>2. CASE w.version # Null
  <2> SUFFICES ASSUME NEW e \in Envs, tags'[e] # <<>>
               PROVE  Latest(records'[e][Latest(tags'[e]).version])
                        = Latest(tags'[e]).digest
    BY DEF TagNamesRecord
  <2>1. CASE e = w.env
    <3>1. /\ w.version \in Versions
          /\ TagEntry(w).version = w.version
          /\ TagEntry(w).digest = w.record
      BY <1>2, TagEntryType
    <3>2. Latest(tags'[e]) = TagEntry(w)
      BY <1>2, <2>1, ApplyLatest
    <3>3. Latest(records'[e][w.version]) = w.record
      BY <2>1, <3>1, ApplyLatest
    <3>4. QED
      BY <3>1, <3>2, <3>3
  <2>2. CASE e # w.env
    <3>1. tags'[e] = tags[e] /\ tags[e] \in Seq(Tag)
      BY <1>2, <2>2, ApplyCases DEF KVTypeOK
    <3>2. Latest(tags[e]) \in Tag
      BY <3>1, LatestType
    <3>3. Latest(tags[e]).version \in Versions
      BY <3>2 DEF Tag
    <3>4. QED
      BY <2>2, <3>1, <3>3, ApplyLatest DEF TagNamesRecord
  <2>3. QED
    BY <2>1, <2>2
<1>3. QED
  BY <1>1, <1>2

-----------------------------------------------------------------------------
(* The memory of the trains.                                               *)

(* An invocation that ends forgets everything.                             *)
LEMMA ExitMemory ==
  ASSUME MemoryOK, NEW t \in Trains, NEW l \in Finals, Exit(t, l)
  PROVE  MemoryOK'
<1>1. l \in PCs /\ l \notin Running
  BY DEF PCs, Finals, Running
<1>2. QED
  BY <1>1 DEF MemoryOK, Exit, Goto

LEMMA AbortMemory ==
  ASSUME MemoryOK, NEW t \in Trains, Abort(t)
  PROVE  MemoryOK'
  BY ExitMemory DEF Abort, Finals

(* A step that only moves on keeps a running train's memory.               *)
LEMMA GotoMemory ==
  ASSUME MemoryOK, NEW t \in Trains, pc[t] \in Running,
         NEW l \in Running, Goto(t, l), UNCHANGED memory
  PROVE  MemoryOK'
  BY DEF MemoryOK, Goto, memory, PCs

(* Where a publish that counts leads.                                      *)
LEMMA AfterPublishMemory ==
  ASSUME MemoryOK, NEW t \in Trains, pc[t] \in Running,
         NEW w, WriteSound(w), AfterPublish(t, w)
  PROVE  MemoryOK'
<1>1. CASE recovering[t] \/ job[t].mode # "deploy"
  BY <1>1, ExitMemory DEF AfterPublish, Finals
<1>2. CASE ~(recovering[t] \/ job[t].mode # "deploy")
  <2>1. w \in Write
    BY DEF WriteSound
  <2>2. "image" \in Running /\ Running \subseteq PCs
    BY DEF Running, PCs
  <2>3. QED
    BY <1>2, <2>1, <2>2 DEF AfterPublish, MemoryOK, Goto
<1>3. QED
  BY <1>1, <1>2

(* The entries a skipped publish reports stay sound.                       *)
LEMMA SkippedSound ==
  ASSUME NEW w, WriteSound(w)
  PROVE  WriteSound([w EXCEPT !.version = Null, !.record = Null])
  BY DEF WriteSound, Write

(* A train that starts with a job and sound entries.                       *)
LEMMA StartMemory ==
  ASSUME MemoryOK, NEW t \in Trains, NEW j \in Job, NEW w, WriteSound(w),
         NEW c \in Config \cup {Null},
         job' = [job EXCEPT ![t] = j], plan' = [plan EXCEPT ![t] = w],
         prior' = [prior EXCEPT ![t] = c], Goto(t, "gates"),
         UNCHANGED <<verified, retried, recovering>>
  PROVE  MemoryOK'
<1>1. w \in Write
  BY DEF WriteSound
<1>2. "gates" \in Running /\ Running \subseteq PCs
  BY DEF Running, PCs
<1>3. QED
  BY <1>1, <1>2 DEF MemoryOK, Goto

(* A broadcast adds a sound write to the transactions.                     *)
LEMMA BroadcastTxs ==
  ASSUME TxsOK, NEW t \in Trains, WriteSound(plan[t]), Broadcast(t)
  PROVE  TxsOK'
<1> DEFINE tx == [write |-> plan[t], status |-> "pending", guessed |-> FALSE]
<1>1. tx \in Tx /\ WriteSound(tx.write)
  BY DEF WriteSound, Tx
<1>2. txs[t] \in Seq(Tx)
  BY DEF TxsOK
<1>3. txs' = [txs EXCEPT ![t] = Append(txs[t], tx)]
  BY DEF Broadcast
<1> HIDE DEF tx
<1>4. txs' \in [Trains -> Seq(Tx)]
  BY <1>1, <1>2, <1>3 DEF TxsOK
<1>5. \A i \in 1 .. Len(txs'[t]) : WriteSound(txs'[t][i].write)
  BY <1>1, <1>2, <1>3 DEF TxsOK
<1>6. QED
  BY <1>3, <1>4, <1>5 DEF TxsOK

LEMMA SubmitFailsStep ==
  ASSUME MemoryOK, TxsOK, NEW t \in Trains, pc[t] \in Running, SubmitFails(t)
  PROVE  MemoryOK' /\ TxsOK'
<1>1. MemoryOK'
  BY AbortMemory DEF SubmitFails
<1>2. WriteSound(plan[t])
  BY DEF MemoryOK
<1>3. TxsOK'
  BY <1>2, BroadcastTxs DEF SubmitFails, TxsOK
<1>4. QED
  BY <1>1, <1>3

-----------------------------------------------------------------------------
(* The steps of a train: none touches the registry.                        *)

(* A step that leaves the registry and the transactions alone keeps what   *)
(* is known of them.                                                       *)
LEMMA Frame ==
  ASSUME KVTypeOK, TagNamesRecord, UNCHANGED kv
  PROVE  KVTypeOK' /\ TagNamesRecord'
  BY DEF kv, KVTypeOK, TagNamesRecord

LEMMA StartStep ==
  ASSUME KVTypeOK, MemoryOK, NEW t \in Trains, Start(t)
  PROVE  MemoryOK' /\ UNCHANGED <<kv, txs>>
<1>1. \A e \in Envs : configs[e] \in Seq(Config)
  BY DEF KVTypeOK
<1>2. \A e \in Envs : Latest(configs[e]) \in Config \cup {Null}
  BY <1>1, LatestType
<1>3. CASE StartDeploy(t)
  <2>1. PICK e \in Envs, b \in Bases, v \in Versions \cup {Null} :
          /\ job' = [job EXCEPT ![t] = [mode |-> "deploy", env |-> e,
                                        build |-> TRUE, version |-> v]]
          /\ plan' = [plan EXCEPT ![t] =
                        ConfigWrite(e, [base |-> b, rolledBackFrom |-> Null])]
          /\ prior' = [prior EXCEPT ![t] = Latest(configs[e])]
    BY <1>3 DEF StartDeploy
  <2>2. [mode |-> "deploy", env |-> e, build |-> TRUE, version |-> v] \in Job
    BY DEF Job
  <2>3. [base |-> b, rolledBackFrom |-> Null] \in Config
    BY DEF Config
  <2>4. Goto(t, "gates") /\ UNCHANGED <<kv, verified, retried, recovering, txs>>
    BY <1>3 DEF StartDeploy
  <2>5. WriteSound(ConfigWrite(e, [base |-> b, rolledBackFrom |-> Null]))
    BY <2>3, ConfigWriteSound
  <2>6. QED
    BY <1>2, <2>1, <2>2, <2>4, <2>5, StartMemory
<1>4. CASE StartConfigOnly(t)
  <2> DEFINE stamp(e) == IF Latest(configs[e]) = Null THEN Null
                         ELSE Latest(configs[e]).rolledBackFrom
  <2>1. PICK e \in Envs, b \in Bases, v \in Versions \cup {Null} :
          /\ job' = [job EXCEPT ![t] = [mode |-> "deploy", env |-> e,
                                        build |-> FALSE, version |-> v]]
          /\ plan' = [plan EXCEPT ![t] =
                        ConfigWrite(e, [base |-> b, rolledBackFrom |-> stamp(e)])]
          /\ prior' = [prior EXCEPT ![t] = Latest(configs[e])]
    BY <1>4 DEF StartConfigOnly
  <2>2. [mode |-> "deploy", env |-> e, build |-> FALSE, version |-> v] \in Job
    BY DEF Job
  <2>3. [base |-> b, rolledBackFrom |-> stamp(e)] \in Config
    BY <1>2 DEF Config
  <2>4. Goto(t, "gates") /\ UNCHANGED <<kv, verified, retried, recovering, txs>>
    BY <1>4 DEF StartConfigOnly
  <2>5. WriteSound(ConfigWrite(e, [base |-> b, rolledBackFrom |-> stamp(e)]))
    BY <2>3, ConfigWriteSound
  <2>6. QED
    BY <1>2, <2>1, <2>2, <2>4, <2>5, StartMemory
<1>5. CASE StartRollback(t)
  <2>0. PICK e \in Envs, mode \in {"rollback", "promote"},
             history \in FetchConfigHistory(configs[SessionEnv]) :
          \E i \in 1 .. Len(history) :
            /\ job' = [job EXCEPT ![t] = [mode |-> mode, env |-> e,
                                          build |-> FALSE, version |-> Null]]
            /\ \E w \in RollbackWrites(t, e, history[i], mode = "promote") :
                 plan' = [plan EXCEPT ![t] = w]
            /\ prior' = [prior EXCEPT ![t] = Latest(configs[e])]
    BY <1>5 DEF StartRollback
  <2>1. PICK i \in 1 .. Len(history) :
          /\ job' = [job EXCEPT ![t] = [mode |-> mode, env |-> e,
                                        build |-> FALSE, version |-> Null]]
          /\ \E w \in RollbackWrites(t, e, history[i], mode = "promote") :
               plan' = [plan EXCEPT ![t] = w]
          /\ prior' = [prior EXCEPT ![t] = Latest(configs[e])]
    BY <2>0
  <2>2. PICK w \in RollbackWrites(t, e, history[i], mode = "promote") :
          plan' = [plan EXCEPT ![t] = w]
    BY <2>1
  <2>3. history \in Seq(Config)
    BY <1>1, HistoryType, EnvsAssumption DEF SessionEnv
  <2>4. history[i] \in Config
    BY <2>3
  <2>5. WriteSound(w)
    BY <2>4, RollbackWritesSound
  <2>6. [mode |-> mode, env |-> e, build |-> FALSE, version |-> Null] \in Job
    BY DEF Job
  <2>7. Goto(t, "gates") /\ UNCHANGED <<kv, verified, retried, recovering, txs>>
    BY <1>5 DEF StartRollback
  <2>8. QED
    BY <1>2, <2>1, <2>2, <2>5, <2>6, <2>7, StartMemory
<1>6. QED
  BY <1>3, <1>4, <1>5 DEF Start

(* Reads that find no release leave the write as it is; the classifier     *)
(* that finds one completes it with its record.                            *)
LEMMA ClassifyStep ==
  ASSUME KVTypeOK, MemoryOK, NEW t \in Trains, Classify(t)
  PROVE  MemoryOK'
<1>1. pc[t] \in Running /\ job[t] \in Job /\ WriteSound(plan[t])
  BY DEF Classify, MemoryOK, Running
<1>2. CASE Abort(t)
  BY <1>2, AbortMemory
<1>3. ASSUME NEW pointer \in FetchRegistryKey(tags[job[t].env]),
             ManifestOwed(pointer, job[t].version),
             plan' = [plan EXCEPT ![t].version = job[t].version,
                                  ![t].record = ComposeRecord(t, pointer)],
             Goto(t, "record"),
             UNCHANGED <<job, verified, retried, recovering, prior>>
      PROVE  MemoryOK'
  <2>1. tags[job[t].env] \in Seq(Tag)
    BY <1>1 DEF KVTypeOK, Job
  <2>2. pointer \in Tag \cup {Null}
    <3>1. Latest(tags[job[t].env]) \in Tag \cup {Null}
      BY <2>1, LatestType
    <3>2. QED
      BY <1>3, <3>1, ReadsAssumption DEF FetchRegistryKey
  <2>3. job[t].version \in Versions
    BY <1>1, <1>3 DEF Job, ManifestOwed
  <2>4. ComposeRecord(t, pointer) \in Record
    <3>1. plan[t].config.base \in Bases
      BY <1>1 DEF WriteSound, Write, Config
    <3>2. pointer # Null => pointer.version \in Versions
      BY <2>2 DEF Tag
    <3>3. \A v \in Versions : FromCutover(v) \in Versions \cup {Cutover}
      BY DEF FromCutover
    <3>4. QED
      BY <2>3, <3>1, <3>2, <3>3 DEF ComposeRecord, Record
  <2> DEFINE w == [plan[t] EXCEPT !.version = job[t].version,
                                  !.record = ComposeRecord(t, pointer)]
  <2>5. WriteSound(w)
    BY <1>1, <2>3, <2>4, NullAssumption DEF WriteSound, Write
  <2>6. plan' = [plan EXCEPT ![t] = w]
    BY <1>1, <1>3
  <2>7. w \in Write /\ "record" \in Running /\ Running \subseteq PCs
    BY <2>5 DEF WriteSound, Running, PCs
  <2> HIDE DEF w
  <2>8. QED
    BY <1>1, <1>3, <2>5, <2>6, <2>7 DEF MemoryOK, Goto
<1>4. ASSUME Goto(t, "publish"), UNCHANGED memory
      PROVE  MemoryOK'
  BY <1>1, <1>4, GotoMemory DEF Running
<1>5. QED
  BY <1>2, <1>3, <1>4 DEF Classify, memory

LEMMA RollbackStep ==
  ASSUME KVTypeOK, MemoryOK, NEW t \in Trains, RollbackToPreviousSnapshot(t)
  PROVE  MemoryOK'
<1>1. pc[t] \in Running /\ job[t] \in Job
  BY DEF RollbackToPreviousSnapshot, MemoryOK, Running
<1>2. PICK history \in FetchConfigHistory(configs[SessionEnv]) :
        IF PreviousSnapshot(history) = Null
        THEN Abort(t)
        ELSE /\ \E w \in RollbackWrites(t, job[t].env,
                                        PreviousSnapshot(history), FALSE) :
                  plan' = [plan EXCEPT ![t] = w]
             /\ recovering' = [recovering EXCEPT ![t] = TRUE]
             /\ retried' = [retried EXCEPT ![t] = FALSE]
             /\ Goto(t, "gates")
             /\ UNCHANGED <<job, verified, prior>>
  BY DEF RollbackToPreviousSnapshot
<1>3. CASE PreviousSnapshot(history) = Null
  BY <1>2, <1>3, AbortMemory
<1>4. CASE PreviousSnapshot(history) # Null
  <2>1. PICK w \in RollbackWrites(t, job[t].env, PreviousSnapshot(history), FALSE) :
          plan' = [plan EXCEPT ![t] = w]
    BY <1>2, <1>4
  <2>2. configs[SessionEnv] \in Seq(Config)
    BY EnvsAssumption DEF KVTypeOK, SessionEnv
  <2>3. history \in Seq(Config)
    BY <2>2, HistoryType
  <2>4. PreviousSnapshot(history) \in Config
    BY <1>4, <2>3 DEF PreviousSnapshot
  <2>5. job[t].env \in Envs
    BY <1>1 DEF Job
  <2>6. WriteSound(w)
    BY <2>1, <2>4, <2>5, RollbackWritesSound
  <2>7. w \in Write /\ "gates" \in Running /\ Running \subseteq PCs
    BY <2>6 DEF WriteSound, Running, PCs
  <2>8. QED
    BY <1>1, <1>2, <1>4, <2>1, <2>6, <2>7 DEF MemoryOK, Goto
<1>5. QED
  BY <1>3, <1>4

(* The confirmation machine.                                               *)
LEMMA VerifyLegStep ==
  ASSUME MemoryOK, NEW t \in Trains, VerifyLeg(t)
  PROVE  MemoryOK'
<1>1. PICK leg \in Legs(plan[t]) : verified' = [verified EXCEPT ![t] = @ \cup {leg}]
  BY DEF VerifyLeg
<1>2. leg \in LegKinds
  BY <1>1 DEF Legs, LegKinds
<1>3. verified' \in [Trains -> SUBSET LegKinds]
  BY <1>1, <1>2 DEF MemoryOK
<1>4. QED
  BY <1>3 DEF MemoryOK, VerifyLeg

(* The last broadcast of a train, judged by its probe: the marks change,   *)
(* what was broadcast does not.                                            *)
JudgesLast(t, verdict) ==
  /\ TxTerminal(txs[t][Len(txs[t])], verdict)
  /\ txs' = [txs EXCEPT ![t] =
       [txs[t] EXCEPT ![Len(txs[t])] = Judged(txs[t][Len(txs[t])], verdict)]]

LEMMA JudgedTxs ==
  ASSUME TxsOK, NEW t \in Trains, NEW verdict \in {"invalid", "unknown"},
         JudgesLast(t, verdict)
  PROVE  /\ TxsOK'
         /\ Len(txs[t]) \in Nat /\ Len(txs'[t]) = Len(txs[t])
         /\ \A j \in 1 .. Len(txs[t]) :
              /\ txs'[t][j].write = txs[t][j].write
              /\ j # Len(txs[t]) => txs'[t][j] = txs[t][j]
         /\ Len(txs[t]) # 0 =>
              txs'[t][Len(txs[t])] = Judged(txs[t][Len(txs[t])], verdict)
<1> DEFINE n == Len(txs[t])
           new == Judged(txs[t][n], verdict)
           all == [txs[t] EXCEPT ![n] = new]
<1>1. txs[t] \in Seq(Tx) /\ n \in Nat
  <2>1. txs[t] \in Seq(Tx)
    BY DEF TxsOK
  <2>2. QED
    BY <2>1, LenProperties
<1>2. n # 0 => new \in Tx /\ new.write = txs[t][n].write
  <2> SUFFICES ASSUME n # 0 PROVE new \in Tx /\ new.write = txs[t][n].write
    OBVIOUS
  <2>1. n \in 1 .. n
    BY <1>1
  <2>2. txs[t][n] \in Tx
    BY <1>1, <2>1, ElementOfSeq
  <2>3. QED
    BY <2>2 DEF Judged, Tx
<1>3. txs' = [txs EXCEPT ![t] = all]
  BY DEF JudgesLast
<1> HIDE DEF new
<1>4. /\ all \in Seq(Tx) /\ Len(all) = n
      /\ \A j \in 1 .. n : all[j] = IF j = n THEN new ELSE txs[t][j]
  <2>1. CASE n = 0
    <3>1. txs[t] = <<>>
      BY <1>1, <2>1, EmptySeq
    <3>2. all = txs[t]
      BY <3>1
    <3> HIDE DEF all
    <3>3. QED
      BY <1>1, <2>1, <3>2
  <2>2. CASE n # 0
    <3>1. n \in 1 .. n /\ new \in Tx
      BY <1>1, <1>2, <2>2
    <3>2. QED
      BY <1>1, <3>1, ExceptSeq
  <2>3. QED
    BY <2>1, <2>2
<1> HIDE DEF all
<1>5. txs'[t] = all /\ \A u \in Trains : u # t => txs'[u] = txs[u]
  BY <1>3 DEF TxsOK
<1>6. \A j \in 1 .. n : txs'[t][j].write = txs[t][j].write
  BY <1>1, <1>2, <1>4, <1>5
<1>7. TxsOK'
  <2>1. txs' \in [Trains -> Seq(Tx)]
    BY <1>3, <1>4 DEF TxsOK
  <2>2. ASSUME NEW u \in Trains, NEW j \in 1 .. Len(txs'[u])
        PROVE  WriteSound(txs'[u][j].write)
    BY <1>4, <1>5, <1>6 DEF TxsOK
  <2>3. QED
    BY <2>1, <2>2 DEF TxsOK
<1>8. n # 0 => n \in 1 .. n
  BY <1>1
<1>9. QED
  BY <1>1, <1>4, <1>5, <1>6, <1>7, <1>8 DEF new

(* The verdict of a wait.                                                  *)
LEMMA TerminalJudges ==
  ASSUME TxsOK, NEW t \in Trains, TerminalTx(t)
  PROVE  \E verdict \in {"invalid", "unknown"} : JudgesLast(t, verdict)
<1>1. PICK verdict \in {"invalid", "unknown"} :
        /\ TxTerminal(txs[t][Len(txs[t])], verdict)
        /\ txs' = [txs EXCEPT ![t][Len(txs[t])] = Judged(@, verdict)]
  BY DEF TerminalTx
<1>2. txs' = [txs EXCEPT ![t] =
        [txs[t] EXCEPT ![Len(txs[t])] = Judged(txs[t][Len(txs[t])], verdict)]]
  BY <1>1
<1>3. QED
  BY <1>1, <1>2 DEF JudgesLast

LEMMA TerminalTxStep ==
  ASSUME MemoryOK, TxsOK, NEW t \in Trains, TerminalTx(t)
  PROVE  MemoryOK' /\ TxsOK'
<1>1. pc[t] \in Running /\ "resubmit" \in Running
  BY DEF TerminalTx, Running
<1>2. TxsOK'
  BY TerminalJudges, JudgedTxs
<1>3. CASE Abort(t)
  BY <1>2, <1>3, AbortMemory
<1>4. CASE /\ Goto(t, "resubmit")
           /\ verified' = [verified EXCEPT ![t] = {}]
           /\ UNCHANGED <<job, plan, retried, recovering, prior>>
  <2>1. "resubmit" \in PCs
    BY <1>1 DEF PCs
  <2>2. MemoryOK'
    BY <1>1, <1>4, <2>1 DEF MemoryOK, Goto
  <2>3. QED
    BY <1>2, <2>2
<1>5. QED
  BY <1>3, <1>4 DEF TerminalTx

LEMMA ResubmitStep ==
  ASSUME MemoryOK, TxsOK, NEW t \in Trains, Resubmit(t)
  PROVE  MemoryOK' /\ TxsOK'
<1>1. pc[t] \in Running /\ "confirm" \in Running /\ Running \subseteq PCs
  BY DEF Resubmit, Running, PCs
<1>2. WriteSound(plan[t])
  BY <1>1 DEF MemoryOK
<1>3. CASE /\ Broadcast(t)
           /\ Goto(t, "confirm")
           /\ retried' = [retried EXCEPT ![t] = TRUE]
           /\ UNCHANGED <<job, plan, verified, recovering, prior>>
  <2>1. MemoryOK'
    BY <1>1, <1>3 DEF MemoryOK, Goto
  <2>2. QED
    BY <1>2, <1>3, <2>1, BroadcastTxs
<1>4. CASE SubmitFails(t)
  BY <1>1, <1>4, SubmitFailsStep
<1>5. QED
  BY <1>3, <1>4 DEF Resubmit

(* The remaining steps of a train.                                         *)
LEMMA StepMemory ==
  ASSUME KVTypeOK, MemoryOK, TxsOK, NEW t \in Trains, Step(t)
  PROVE  MemoryOK' /\ TxsOK' /\ UNCHANGED kv
<1>1. CASE Gates(t)
  <2>1. pc[t] \in Running
    BY <1>1 DEF Gates, Running
  <2>2. CASE Abort(t)
    BY <1>1, <2>2, AbortMemory DEF Gates, TxsOK
  <2>3. ASSUME NEW l \in {"classify", "publish"}, Goto(t, l), UNCHANGED memory
        PROVE  MemoryOK'
    BY <2>1, <2>3, GotoMemory DEF Running
  <2>4. QED
    BY <1>1, <2>2, <2>3 DEF Gates, TxsOK
<1>2. CASE Classify(t)
  BY <1>2, ClassifyStep DEF Classify, TxsOK
<1>3. CASE CheckRecord(t)
  <2>1. pc[t] \in Running /\ "publish" \in Running
    BY <1>3 DEF CheckRecord, Running
  <2>2. QED
    BY <1>3, <2>1, GotoMemory, AbortMemory DEF CheckRecord, TxsOK
<1>4. CASE SkipPublished(t)
  <2>1. pc[t] \in Running
    BY <1>4 DEF SkipPublished, Running
  <2>2. WriteSound([plan[t] EXCEPT !.version = Null, !.record = Null])
    BY <2>1, SkippedSound DEF MemoryOK
  <2>3. QED
    BY <1>4, <2>1, <2>2, AfterPublishMemory DEF SkipPublished, TxsOK
<1>5. CASE NotPublished(t)
  <2>1. pc[t] \in Running /\ "submit" \in Running
    BY <1>5 DEF NotPublished, Running
  <2>2. QED
    BY <1>5, <2>1, GotoMemory DEF NotPublished, TxsOK
<1>6. CASE Submit(t)
  <2>1. pc[t] \in Running /\ "confirm" \in Running
    BY <1>6 DEF Submit, Running
  <2>2. WriteSound(plan[t])
    BY <2>1 DEF MemoryOK
  <2>3. QED
    BY <1>6, <2>1, <2>2, GotoMemory, BroadcastTxs, SubmitFailsStep DEF Submit
<1>7. CASE VerifyLeg(t)
  BY <1>7, VerifyLegStep DEF VerifyLeg, TxsOK
<1>8. CASE Confirmed(t)
  <2>1. pc[t] \in Running
    BY <1>8 DEF Confirmed, Running
  <2>2. QED
    BY <1>8, <2>1, AfterPublishMemory DEF Confirmed, MemoryOK, TxsOK
<1>9. CASE TerminalTx(t)
  BY <1>9, TerminalTxStep DEF TerminalTx
<1>10. CASE ConfirmTimeout(t)
  BY <1>10, AbortMemory DEF ConfirmTimeout, TxsOK
<1>11. CASE ImageLeg(t)
  <2>1. pc[t] \in Running /\ {"smoke", "railway"} \subseteq Running
    BY <1>11 DEF ImageLeg, Running
  <2>2. CASE Exit(t, "published")
    BY <1>11, <2>2, ExitMemory DEF ImageLeg, TxsOK, Finals
  <2>3. CASE \E l \in {"smoke", "railway"} : Goto(t, l) /\ UNCHANGED memory
    BY <1>11, <2>1, <2>3, GotoMemory DEF ImageLeg, TxsOK
  <2>4. QED
    BY <1>11, <2>2, <2>3 DEF ImageLeg
<1>12. CASE SmokeLeg(t)
  <2>1. pc[t] \in Running /\ {"rollback", "railway"} \subseteq Running
    BY <1>12 DEF SmokeLeg, Running
  <2>2. QED
    BY <1>12, <2>1, GotoMemory DEF SmokeLeg, TxsOK
<1>13. CASE RailwayLeg(t)
  BY <1>13, ExitMemory DEF RailwayLeg, TxsOK, Finals
<1>14. CASE RollbackToPreviousSnapshot(t)
  BY <1>14, RollbackStep DEF RollbackToPreviousSnapshot, TxsOK
<1>15. CASE Resubmit(t)
  BY <1>15, ResubmitStep DEF Resubmit
<1>16. QED
  BY <1>1, <1>2, <1>3, <1>4, <1>5, <1>6, <1>7, <1>8, <1>9, <1>10, <1>11,
     <1>12, <1>13, <1>14, <1>15 DEF Step

(* A transaction that lands is a sound write; the statuses around it are   *)
(* all that changes of what was broadcast.                                 *)
LEMMA LandStep ==
  ASSUME MemoryOK, TxsOK, NEW t \in Trains, Land(t)
  PROVE  /\ \E w : WriteSound(w) /\ Apply(w)
         /\ MemoryOK' /\ TxsOK'
<1>1. PICK i \in 1 .. Len(txs[t]) :
        /\ Apply(txs[t][i].write)
        /\ txs' = [txs EXCEPT ![t] =
             [j \in 1 .. Len(txs[t]) |->
                [txs[t][j] EXCEPT !.status =
                   IF j = i THEN "landed"
                   ELSE IF j < i /\ @ = "pending" THEN "rejected" ELSE @]]]
  BY DEF Land
<1>2. WriteSound(txs[t][i].write)
  BY DEF TxsOK
<1>3. MemoryOK'
  BY DEF Land, memory, MemoryOK
<1> DEFINE new == [j \in 1 .. Len(txs[t]) |->
                     [txs[t][j] EXCEPT !.status =
                        IF j = i THEN "landed"
                        ELSE IF j < i /\ @ = "pending" THEN "rejected" ELSE @]]
<1>4. ASSUME NEW j \in 1 .. Len(txs[t])
      PROVE  new[j] \in Tx /\ new[j].write = txs[t][j].write
  <2>1. txs[t][j] \in Tx
    BY DEF TxsOK
  <2>2. QED
    BY <2>1 DEF Tx
<1>5. Len(txs[t]) \in Nat
  BY DEF TxsOK
<1>6. txs' = [txs EXCEPT ![t] = new]
  BY <1>1
<1>7. DOMAIN new = 1 .. Len(txs[t])
  OBVIOUS
<1> HIDE DEF new
<1>8. new \in Seq(Tx) /\ Len(new) = Len(txs[t])
  <2>1. new = [j \in 1 .. Len(txs[t]) |-> new[j]]
    BY DEF new
  <2>2. QED
    BY <1>4, <1>5, <1>7, <2>1
<1>9. TxsOK'
  <2>1. txs' \in [Trains -> Seq(Tx)]
    BY <1>6, <1>8 DEF TxsOK
  <2>2. ASSUME NEW u \in Trains, NEW j \in 1 .. Len(txs'[u])
        PROVE  WriteSound(txs'[u][j].write)
    BY <1>4, <1>6, <1>8 DEF TxsOK
  <2>3. QED
    BY <2>1, <2>2 DEF TxsOK
<1>10. QED
  BY <1>1, <1>2, <1>3, <1>9

LEMMA KillStep ==
  ASSUME MemoryOK, TxsOK, NEW t \in Trains, Kill(t)
  PROVE  MemoryOK' /\ TxsOK' /\ UNCHANGED kv
  BY ExitMemory DEF Kill, TxsOK, Finals

-----------------------------------------------------------------------------
(* Theorems.                                                               *)

LEMMA InitInv == Init => Inv
<1> SUFFICES ASSUME Init PROVE Inv
  OBVIOUS
<1>1. KVTypeOK
  <2>1. \A b \in Bases : <<[base |-> b, rolledBackFrom |-> Null]>> \in Seq(Config)
    BY DEF Config
  <2>2. <<>> \in Seq(Config) /\ <<>> \in Seq(Tag) /\ <<>> \in Seq(Record)
    BY EmptySeq
  <2>3. configs \in [Envs -> Seq(Config)]
    BY <2>1, <2>2 DEF Init
  <2>4. QED
    BY <2>2, <2>3 DEF Init, KVTypeOK
<1>2. TagNamesRecord
  BY DEF Init, TagNamesRecord
<1>3. MemoryOK
  BY DEF Init, MemoryOK, PCs, Running
<1>4. TxsOK
  BY EmptySeq DEF Init, TxsOK
<1>5. QED
  BY <1>1, <1>2, <1>3, <1>4 DEF Inv

(* A step writes the registry only by landing a sound transaction.         *)
LEMMA NextSteps ==
  ASSUME Inv, Next
  PROVE  /\ UNCHANGED kv \/ \E w : WriteSound(w) /\ Apply(w)
         /\ MemoryOK' /\ TxsOK'
<1> USE DEF Inv
<1>1. PICK t \in Trains : Start(t) \/ Step(t) \/ Land(t) \/ Kill(t)
  BY DEF Next
<1>2. CASE Start(t)
  BY <1>2, StartStep DEF TxsOK
<1>3. CASE Step(t)
  BY <1>3, StepMemory
<1>4. CASE Land(t)
  BY <1>4, LandStep
<1>5. CASE Kill(t)
  BY <1>5, KillStep
<1>6. QED
  BY <1>1, <1>2, <1>3, <1>4, <1>5

LEMMA NextInv == Inv /\ [Next]_vars => Inv'
<1> SUFFICES ASSUME Inv, [Next]_vars PROVE Inv'
  OBVIOUS
<1>1. CASE Next
  <2>1. MemoryOK' /\ TxsOK'
    BY <1>1, NextSteps
  <2>2. CASE UNCHANGED kv
    BY <2>1, <2>2, Frame DEF Inv
  <2>3. CASE \E w : WriteSound(w) /\ Apply(w)
    BY <2>1, <2>3, ApplyType, ApplyTagNamesRecord DEF Inv
  <2>4. QED
    BY <1>1, <2>2, <2>3, NextSteps
<1>2. CASE UNCHANGED vars
  BY <1>2 DEF vars, kv, memory, Inv, KVTypeOK, TagNamesRecord, MemoryOK, TxsOK
<1>3. QED
  BY <1>1, <1>2

(* What every reachable state satisfies.                                   *)
THEOREM Invariance == Spec => []Inv
  BY InitInv, NextInv, PTL DEF Spec

(* Type correctness, whatever races, fails, dies or lands late.            *)
THEOREM TypeCorrect == Spec => []TypeOK
<1>1. Inv => TypeOK
  BY DEF Inv, MemoryOK, TxsOK, TypeOK
<1>2. QED
  BY <1>1, Invariance, PTL

(* The release pointer always names a record that is there and has its     *)
(* digest, for any number of trains, environments and versions             *)
(* (train.ts: record and tag flip ride one atomic write).                  *)
THEOREM PointerNamesRecord == Spec => []TagNamesRecord
<1>1. Inv => TagNamesRecord
  BY DEF Inv
<1>2. QED
  BY <1>1, Invariance, PTL

(* The initial registry is one PlatformRegistry may start with.            *)
LEMMA PromiseInit == Init => Promise!Init
<1> SUFFICES ASSUME Init PROVE Promise!Init
  OBVIOUS
<1>1. KVTypeOK
  BY InitInv DEF Inv
<1>2. \A e \in Envs : Latest(configs[e]) \in Config \cup {Null}
  BY <1>1, LatestType DEF KVTypeOK
<1>3. QED
  BY <1>2 DEF Init, Promise!Init, Latest

(* A sound write that lands is a Publish or a Release of its environment.  *)
LEMMA PromiseStep ==
  ASSUME KVTypeOK, NEW w, WriteSound(w), Apply(w)
  PROVE  Promise!Next
<1>1. w.env \in Envs /\ w.config \in Config
  BY ApplyCases
<1>2. [e \in Envs |-> Latest(configs'[e])]
        = [[e \in Envs |-> Latest(configs[e])] EXCEPT ![w.env] = w.config]
  BY ApplyLatest
<1>3. CASE w.version = Null
  <2>1. UNCHANGED <<tags, records>>
    BY <1>3, ApplyCases
  <2>2. Promise!Publish(w.env)
    BY <1>1, <1>2, <2>1 DEF Promise!Publish
  <2>3. QED
    BY <1>1, <2>2 DEF Promise!Next
<1>4. CASE w.version # Null
  <2>1. /\ w.version \in Versions
        /\ w.record \in Record
    BY <1>4, TagEntryType
  <2>2. TagEntry(w) = [version |-> w.version, digest |-> w.record]
    BY <1>4 DEF TagEntry
  <2>3. [e \in Envs |-> Latest(tags'[e])]
          = [[e \in Envs |-> Latest(tags[e])] EXCEPT
               ![w.env] = [version |-> w.version, digest |-> w.record]]
    BY <1>4, <2>2, ApplyLatest
  <2>4. [e \in Envs |-> [v \in Versions |-> Latest(records'[e][v])]]
          = [[e \in Envs |-> [v \in Versions |-> Latest(records[e][v])]] EXCEPT
               ![w.env][w.version] = w.record]
    <3>1. ASSUME NEW e \in Envs
          PROVE  [v \in Versions |-> Latest(records'[e][v])]
                   = IF e = w.env
                     THEN [[v \in Versions |-> Latest(records[e][v])] EXCEPT
                             ![w.version] = w.record]
                     ELSE [v \in Versions |-> Latest(records[e][v])]
      BY <2>1, ApplyLatest
    <3>2. QED
      BY <1>1, <3>1
  <2>5. Promise!Release(w.env)
    <3> DEFINE Shown(c, v, r) ==
          /\ [e \in Envs |-> Latest(configs'[e])]
               = [[e \in Envs |-> Latest(configs[e])] EXCEPT ![w.env] = c]
          /\ [e \in Envs |-> [u \in Versions |-> Latest(records'[e][u])]]
               = [[e \in Envs |-> [u \in Versions |-> Latest(records[e][u])]]
                    EXCEPT ![w.env][v] = r]
          /\ [e \in Envs |-> Latest(tags'[e])]
               = [[e \in Envs |-> Latest(tags[e])] EXCEPT
                    ![w.env] = [version |-> v, digest |-> r]]
    <3>1. Shown(w.config, w.version, w.record)
      BY <1>2, <2>3, <2>4, Zenon
    <3>2. SUFFICES \E c \in Config, v \in Versions, r \in Record : Shown(c, v, r)
      BY Zenon DEF Promise!Release
    <3> HIDE DEF Shown
    <3>3. QED
      BY <1>1, <2>1, <3>1, Zenon
  <2>6. QED
    BY <1>1, <2>5 DEF Promise!Next
<1>5. QED
  BY <1>3, <1>4

(* The registry under any mix of trains implements PlatformRegistry: every *)
(* step is a publish, a whole release, or invisible to readers.            *)
THEOREM RegistryKeepsPromise == Spec => KeepsPromise
<1>1. Init => Promise!Init
  BY PromiseInit
<1>2. Inv /\ [Next]_vars => [Promise!Next]_Promise!vars
  <2> SUFFICES ASSUME Inv, [Next]_vars PROVE [Promise!Next]_Promise!vars
    OBVIOUS
  <2>1. CASE UNCHANGED kv
    BY <2>1 DEF kv, Promise!vars
  <2>2. CASE \E w : WriteSound(w) /\ Apply(w)
    BY <2>2, PromiseStep DEF Inv
  <2>3. CASE UNCHANGED vars
    BY <2>1, <2>3 DEF vars
  <2>4. QED
    BY <2>1, <2>2, <2>3, NextSteps
<1>3. QED
  BY <1>1, <1>2, Invariance, PTL DEF Spec, KeepsPromise, Promise!Spec

-----------------------------------------------------------------------------
(* What a step does to the train that takes it.  The actions are grouped   *)
(* by their effect on one train, so that an invariant of a train is kept   *)
(* by checking each effect once.                                           *)

BeforeSubmit == {"gates", "classify", "record", "publish", "submit"}
PostPublish == {"image", "smoke", "rollback", "railway"}

SameTxs(t) == txs'[t] = txs[t]
SendsPlan(t) ==
  txs'[t] = Append(txs[t], [write |-> plan[t], status |-> "pending",
                            guessed |-> FALSE])

(* What a train keeps when it only moves on.                               *)
Remembers(t) ==
  /\ job'[t] = job[t] /\ plan'[t] = plan[t] /\ verified'[t] = verified[t]
  /\ recovering'[t] = recovering[t] /\ prior'[t] = prior[t]
  /\ retried'[t] = retried[t]

Forgets(t) == verified'[t] = {} /\ recovering'[t] = FALSE

(* The publish counts: it is live already, or every leg was read back.     *)
Counts(t) ==
  \/ pc[t] = "publish" /\ Latest(configs[plan[t].env]) = plan[t].config
  \/ pc[t] = "confirm" /\ AllVerified(t)

(* It moves between two awaits.                                            *)
Moves(t) ==
  /\ Remembers(t) /\ SameTxs(t)
  /\ \/ pc[t] = "gates" /\ pc'[t] = "publish"
     \/ pc[t] = "gates" /\ pc'[t] = "classify" /\ job[t].env = SessionEnv
     \/ pc[t] = "classify" /\ pc'[t] = "publish"
     \/ pc[t] = "record" /\ pc'[t] = "publish"
     \/ /\ pc[t] = "publish" /\ pc'[t] = "submit"
        /\ ReadsMayFail \/ Latest(configs[plan[t].env]) # plan[t].config
     \/ pc[t] = "image" /\ pc'[t] \in {"smoke", "railway"}
     \/ pc[t] = "smoke" /\ pc'[t] \in {"rollback", "railway"}

(* It composes a release.                                                  *)
Composes(t) ==
  /\ pc[t] = "classify" /\ pc'[t] = "record"
  /\ job'[t] = job[t] /\ verified'[t] = verified[t]
  /\ recovering'[t] = recovering[t] /\ prior'[t] = prior[t] /\ SameTxs(t)
  /\ \E pointer \in FetchRegistryKey(tags[job[t].env]) :
       /\ ManifestOwed(pointer, job[t].version)
       /\ plan'[t] = [plan[t] EXCEPT !.version = job[t].version,
                                     !.record = ComposeRecord(t, pointer)]

(* It broadcasts what it planned, first or again.                          *)
Submits(t) ==
  /\ pc[t] = "submit" /\ pc'[t] = "confirm"
  /\ Remembers(t) /\ SendsPlan(t)

Resends(t) ==
  /\ pc[t] = "resubmit" /\ pc'[t] = "confirm" /\ retried'[t] = TRUE
  /\ job'[t] = job[t] /\ plan'[t] = plan[t] /\ verified'[t] = verified[t]
  /\ recovering'[t] = recovering[t] /\ prior'[t] = prior[t] /\ SendsPlan(t)

(* It gives its first broadcast up.                                        *)
GivesUp(t) ==
  /\ pc[t] = "confirm" /\ pc'[t] = "resubmit" /\ ~retried[t] /\ ~retried'[t]
  /\ job'[t] = job[t] /\ plan'[t] = plan[t] /\ verified'[t] = {}
  /\ recovering'[t] = recovering[t] /\ prior'[t] = prior[t]
  /\ \E verdict \in {"invalid", "unknown"} : JudgesLast(t, verdict)

(* It reads a leg back.                                                    *)
Verifies(t) ==
  /\ pc[t] = "confirm" /\ pc'[t] = "confirm"
  /\ job'[t] = job[t] /\ plan'[t] = plan[t] /\ retried'[t] = retried[t]
  /\ recovering'[t] = recovering[t] /\ prior'[t] = prior[t] /\ SameTxs(t)
  /\ \E leg \in Legs(plan[t]) :
       LegServed(plan[t], leg) /\ verified'[t] = verified[t] \cup {leg}

(* Its publish counts and it goes on to its legs.                          *)
Reports(t) ==
  /\ Counts(t) /\ pc'[t] = "image"
  /\ ~recovering[t] /\ job[t].mode = "deploy"
  /\ job'[t] = job[t] /\ verified'[t] = {} /\ recovering'[t] = FALSE
  /\ prior'[t] = prior[t] /\ SameTxs(t)
  /\ plan'[t] \in {plan[t], [plan[t] EXCEPT !.version = Null, !.record = Null]}

(* Its publish counts, or its legs are done, and it ends.                  *)
Succeeds(t) ==
  /\ Forgets(t) /\ SameTxs(t)
  /\ \/ Counts(t) /\ recovering[t] /\ pc'[t] = "rolledBack"
     \/ Counts(t) /\ ~recovering[t] /\ pc'[t] = "published"
     \/ pc[t] \in {"image", "railway"} /\ pc'[t] = "published"

(* It fails, maybe after a broadcast nobody will wait for.                 *)
Fails(t) ==
  /\ Forgets(t) /\ pc[t] \in Running /\ pc'[t] = "failed"
  /\ \/ SameTxs(t)
     \/ pc[t] \in {"submit", "resubmit"} /\ SendsPlan(t)
     \/ /\ pc[t] = "confirm"
        /\ \E verdict \in {"invalid", "unknown"} : JudgesLast(t, verdict)

(* It turns to the previous snapshot.                                      *)
Recovers(t) ==
  /\ pc[t] = "rollback" /\ pc'[t] = "gates"
  /\ job'[t] = job[t] /\ verified'[t] = verified[t] /\ recovering'[t] = TRUE
  /\ prior'[t] = prior[t] /\ SameTxs(t)
  /\ \E history \in FetchConfigHistory(configs[SessionEnv]) :
       /\ PreviousSnapshot(history) # Null
       /\ plan'[t] \in RollbackWrites(t, job[t].env, PreviousSnapshot(history),
                                      FALSE)

Effect(t) ==
  \/ Moves(t) \/ Composes(t) \/ Submits(t) \/ Resends(t) \/ GivesUp(t)
  \/ Verifies(t) \/ Reports(t) \/ Succeeds(t) \/ Fails(t) \/ Recovers(t)

LEMMA ExitEffect ==
  ASSUME MemoryOK, NEW t \in Trains, NEW l, Exit(t, l)
  PROVE  pc'[t] = l /\ Forgets(t)
  BY DEF MemoryOK, Exit, Goto, Forgets

LEMMA MoveEffect ==
  ASSUME MemoryOK, NEW t \in Trains, NEW l, Goto(t, l), UNCHANGED memory
  PROVE  pc'[t] = l /\ Remembers(t)
  BY DEF MemoryOK, Goto, memory, Remembers

LEMMA BroadcastEffect ==
  ASSUME TxsOK, NEW t \in Trains, Broadcast(t)
  PROVE  SendsPlan(t)
  BY DEF TxsOK, Broadcast, SendsPlan

LEMMA AfterPublishEffect ==
  ASSUME MemoryOK, NEW t \in Trains, NEW w, AfterPublish(t, w), Counts(t),
         w \in {plan[t], [plan[t] EXCEPT !.version = Null, !.record = Null]},
         UNCHANGED txs
  PROVE  Reports(t) \/ Succeeds(t)
<1>1. recovering[t] \in BOOLEAN
  BY DEF MemoryOK
<1>2. CASE recovering[t]
  BY <1>2, ExitEffect DEF AfterPublish, Succeeds, SameTxs
<1>3. CASE ~recovering[t] /\ job[t].mode # "deploy"
  BY <1>3, ExitEffect DEF AfterPublish, Succeeds, SameTxs
<1>4. CASE ~recovering[t] /\ job[t].mode = "deploy"
  <2>1. /\ Goto(t, "image")
        /\ plan' = [plan EXCEPT ![t] = w]
        /\ verified' = [verified EXCEPT ![t] = {}]
        /\ UNCHANGED <<job, retried, recovering, prior>>
    BY <1>4 DEF AfterPublish
  <2>2. /\ pc'[t] = "image" /\ plan'[t] = w /\ verified'[t] = {}
        /\ job'[t] = job[t] /\ recovering'[t] = FALSE /\ prior'[t] = prior[t]
    BY <1>1, <1>4, <2>1 DEF Goto, MemoryOK
  <2>3. QED
    BY <1>4, <2>2 DEF Reports, SameTxs
<1>5. QED
  BY <1>2, <1>3, <1>4

LEMMA ClassifyEffect ==
  ASSUME MemoryOK, TxsOK, NEW t \in Trains, Classify(t)
  PROVE  Effect(t)
<1>1. pc[t] \in Running
  BY DEF Classify, Running
<1>2. CASE Abort(t)
  BY <1>1, <1>2, ExitEffect DEF Abort, Classify, Fails, SameTxs, Effect
<1>3. ASSUME NEW pointer \in FetchRegistryKey(tags[job[t].env]),
             ManifestOwed(pointer, job[t].version),
             plan' = [plan EXCEPT ![t].version = job[t].version,
                                  ![t].record = ComposeRecord(t, pointer)],
             Goto(t, "record"),
             UNCHANGED <<job, verified, retried, recovering, prior>>
      PROVE  Composes(t)
  <2>1. plan'[t] = [plan[t] EXCEPT !.version = job[t].version,
                                   !.record = ComposeRecord(t, pointer)]
    BY <1>3 DEF MemoryOK
  <2>2. pc'[t] = "record" /\ SameTxs(t) /\ pc[t] = "classify"
    BY <1>3 DEF MemoryOK, Goto, Classify, SameTxs
  <2>3. QED
    BY <1>3, <2>1, <2>2 DEF Composes
<1>4. ASSUME Goto(t, "publish"), UNCHANGED memory
      PROVE  Moves(t)
  BY <1>4, MoveEffect DEF Classify, Moves, SameTxs
<1>5. QED
  BY <1>2, <1>3, <1>4 DEF Classify, memory, Effect

LEMMA TerminalEffect ==
  ASSUME MemoryOK, TxsOK, NEW t \in Trains, TerminalTx(t)
  PROVE  Effect(t)
<1>1. pc[t] = "confirm" /\ pc[t] \in Running
  BY DEF TerminalTx, Running
<1>2. \E verdict \in {"invalid", "unknown"} : JudgesLast(t, verdict)
  BY TerminalJudges
<1>3. CASE Abort(t)
  <2>1. Fails(t)
    BY <1>1, <1>2, <1>3, ExitEffect DEF Abort, Fails
  <2>2. QED
    BY <2>1 DEF Effect
<1>4. CASE /\ ~retried[t] /\ Goto(t, "resubmit")
           /\ verified' = [verified EXCEPT ![t] = {}]
           /\ UNCHANGED <<job, plan, retried, recovering, prior>>
  <2>1. verified'[t] = {} /\ pc'[t] = "resubmit"
    BY <1>4 DEF MemoryOK, Goto
  <2>2. GivesUp(t)
    BY <1>1, <1>2, <1>4, <2>1 DEF GivesUp
  <2>3. QED
    BY <2>2 DEF Effect
<1>5. QED
  BY <1>3, <1>4 DEF TerminalTx

LEMMA ResubmitEffect ==
  ASSUME MemoryOK, TxsOK, NEW t \in Trains, Resubmit(t)
  PROVE  Effect(t)
<1>1. pc[t] = "resubmit" /\ pc[t] \in Running
  BY DEF Resubmit, Running
<1>2. CASE SubmitFails(t)
  <2>1. pc'[t] = "failed" /\ Forgets(t)
    BY <1>2, ExitEffect DEF SubmitFails, Abort
  <2>2. SendsPlan(t) \/ SameTxs(t)
    BY <1>2, BroadcastEffect DEF SubmitFails, SameTxs
  <2>3. QED
    BY <1>1, <2>1, <2>2 DEF Fails, Effect
<1>3. CASE /\ Broadcast(t) /\ Goto(t, "confirm")
           /\ retried' = [retried EXCEPT ![t] = TRUE]
           /\ UNCHANGED <<job, plan, verified, recovering, prior>>
  <2>1. SendsPlan(t)
    BY <1>3, BroadcastEffect
  <2>2. retried'[t] = TRUE /\ pc'[t] = "confirm"
    BY <1>3 DEF MemoryOK, Goto
  <2>3. QED
    BY <1>1, <1>3, <2>1, <2>2 DEF Resends, Effect
<1>4. QED
  BY <1>2, <1>3 DEF Resubmit

LEMMA RecoverEffect ==
  ASSUME MemoryOK, NEW t \in Trains, RollbackToPreviousSnapshot(t)
  PROVE  Effect(t)
<1>1. pc[t] = "rollback" /\ pc[t] \in Running /\ SameTxs(t)
  BY DEF RollbackToPreviousSnapshot, Running, SameTxs
<1>2. PICK history \in FetchConfigHistory(configs[SessionEnv]) :
        IF PreviousSnapshot(history) = Null
        THEN Abort(t)
        ELSE /\ \E w \in RollbackWrites(t, job[t].env,
                                        PreviousSnapshot(history), FALSE) :
                  plan' = [plan EXCEPT ![t] = w]
             /\ recovering' = [recovering EXCEPT ![t] = TRUE]
             /\ retried' = [retried EXCEPT ![t] = FALSE]
             /\ Goto(t, "gates")
             /\ UNCHANGED <<job, verified, prior>>
  BY DEF RollbackToPreviousSnapshot
<1>3. CASE PreviousSnapshot(history) = Null
  BY <1>1, <1>2, <1>3, ExitEffect DEF Abort, Fails, Effect
<1>4. CASE PreviousSnapshot(history) # Null
  <2>1. PICK w \in RollbackWrites(t, job[t].env, PreviousSnapshot(history), FALSE) :
          plan' = [plan EXCEPT ![t] = w]
    BY <1>2, <1>4
  <2>2. plan'[t] = w /\ recovering'[t] = TRUE /\ pc'[t] = "gates"
    BY <1>2, <1>4, <2>1 DEF MemoryOK, Goto
  <2>3. UNCHANGED <<job, verified, prior>>
    BY <1>2, <1>4
  <2>4. Recovers(t)
    BY <1>1, <1>4, <2>1, <2>2, <2>3 DEF Recovers
  <2>5. QED
    BY <2>4 DEF Effect
<1>5. QED
  BY <1>3, <1>4

(* Every step of a train has one of the effects.                           *)
LEMMA StepEffect ==
  ASSUME MemoryOK, TxsOK, NEW t \in Trains, Step(t)
  PROVE  Effect(t)
<1>1. CASE Gates(t)
  <2>1. pc[t] = "gates" /\ pc[t] \in Running /\ SameTxs(t)
    BY <1>1 DEF Gates, Running, SameTxs
  <2>2. CASE Abort(t)
    BY <2>1, <2>2, ExitEffect DEF Abort, Fails, Effect
  <2>3. ASSUME NEW l \in {"classify", "publish"}, Goto(t, l), UNCHANGED memory,
               l = "classify" => job[t].env = "production"
        PROVE  Moves(t)
    BY <2>1, <2>3, MoveEffect DEF Moves, SessionEnv
  <2>4. QED
    BY <1>1, <2>2, <2>3 DEF Gates, Effect
<1>2. CASE Classify(t)
  BY <1>2, ClassifyEffect
<1>3. CASE CheckRecord(t)
  <2>1. pc[t] = "record" /\ pc[t] \in Running /\ SameTxs(t)
    BY <1>3 DEF CheckRecord, Running, SameTxs
  <2>2. CASE Abort(t)
    BY <2>1, <2>2, ExitEffect DEF Abort, Fails, Effect
  <2>3. CASE Goto(t, "publish") /\ UNCHANGED memory
    BY <2>1, <2>3, MoveEffect DEF Moves, Effect
  <2>4. QED
    BY <1>3, <2>2, <2>3 DEF CheckRecord
<1>4. CASE SkipPublished(t)
  BY <1>4, AfterPublishEffect DEF SkipPublished, Counts, Effect
<1>5. CASE NotPublished(t)
  BY <1>5, MoveEffect DEF NotPublished, Moves, SameTxs, Effect
<1>6. CASE Submit(t)
  <2>1. pc[t] = "submit" /\ pc[t] \in Running
    BY <1>6 DEF Submit, Running
  <2>2. CASE Broadcast(t) /\ Goto(t, "confirm") /\ UNCHANGED memory
    BY <2>1, <2>2, MoveEffect, BroadcastEffect DEF Submits, Effect
  <2>3. CASE SubmitFails(t)
    <3>1. pc'[t] = "failed" /\ Forgets(t)
      BY <2>3, ExitEffect DEF SubmitFails, Abort
    <3>2. SendsPlan(t) \/ SameTxs(t)
      BY <2>3, BroadcastEffect DEF SubmitFails, SameTxs
    <3>3. QED
      BY <2>1, <3>1, <3>2 DEF Fails, Effect
  <2>4. QED
    BY <1>6, <2>2, <2>3 DEF Submit
<1>7. CASE VerifyLeg(t)
  <2>1. PICK leg \in Legs(plan[t]) :
          /\ LegServed(plan[t], leg)
          /\ verified' = [verified EXCEPT ![t] = @ \cup {leg}]
    BY <1>7 DEF VerifyLeg
  <2>2. verified'[t] = verified[t] \cup {leg}
    BY <2>1 DEF MemoryOK
  <2>3. Verifies(t)
    BY <1>7, <2>1, <2>2 DEF VerifyLeg, Verifies, SameTxs
  <2>4. QED
    BY <2>3 DEF Effect
<1>8. CASE Confirmed(t)
  BY <1>8, AfterPublishEffect DEF Confirmed, Counts, Effect
<1>9. CASE TerminalTx(t)
  BY <1>9, TerminalEffect
<1>10. CASE ConfirmTimeout(t)
  BY <1>10, ExitEffect DEF ConfirmTimeout, Abort, Fails, SameTxs, Running, Effect
<1>11. CASE ImageLeg(t)
  <2>1. pc[t] = "image" /\ SameTxs(t)
    BY <1>11 DEF ImageLeg, SameTxs
  <2>2. CASE Exit(t, "published")
    BY <2>1, <2>2, ExitEffect DEF Succeeds, Effect
  <2>3. CASE \E l \in {"smoke", "railway"} : Goto(t, l) /\ UNCHANGED memory
    BY <2>1, <2>3, MoveEffect DEF Moves, Effect
  <2>4. QED
    BY <1>11, <2>2, <2>3 DEF ImageLeg
<1>12. CASE SmokeLeg(t)
  <2>1. pc[t] = "smoke" /\ SameTxs(t) /\ UNCHANGED memory
    BY <1>12 DEF SmokeLeg, SameTxs
  <2>2. PICK l \in {"rollback", "railway"} : Goto(t, l)
    BY <1>12 DEF SmokeLeg
  <2>3. QED
    BY <2>1, <2>2, MoveEffect DEF Moves, Effect
<1>13. CASE RailwayLeg(t)
  BY <1>13, ExitEffect DEF RailwayLeg, Succeeds, SameTxs, Effect
<1>14. CASE RollbackToPreviousSnapshot(t)
  BY <1>14, RecoverEffect
<1>15. CASE Resubmit(t)
  BY <1>15, ResubmitEffect
<1>16. QED
  BY <1>1, <1>2, <1>3, <1>4, <1>5, <1>6, <1>7, <1>8, <1>9, <1>10, <1>11,
     <1>12, <1>13, <1>14, <1>15 DEF Step

(* A step touches the memory and the transactions of its own train only.   *)
LEMMA OthersUntouched ==
  ASSUME MemoryOK, TxsOK, NEW t \in Trains, NEW u \in Trains, u # t,
         Start(t) \/ Step(t) \/ Land(t) \/ Kill(t)
  PROVE  pc'[u] = pc[u] /\ Remembers(u) /\ SameTxs(u)
<1> USE DEF MemoryOK, TxsOK, Remembers, SameTxs
<1>1. CASE Start(t)
  BY <1>1 DEF Start, StartDeploy, StartConfigOnly, StartRollback, Goto
<1>2. \A l : Exit(t, l) => pc'[u] = pc[u] /\ Remembers(u)
  BY DEF Exit, Goto
<1>3. \A l : Goto(t, l) /\ UNCHANGED memory => pc'[u] = pc[u] /\ Remembers(u)
  BY DEF memory, Goto
<1>4. Broadcast(t) => SameTxs(u)
  BY DEF Broadcast
<1>5. \A w : AfterPublish(t, w) => pc'[u] = pc[u] /\ Remembers(u)
  BY <1>2 DEF AfterPublish, Goto
<1>6. CASE Step(t)
  <2>1. CASE Gates(t) \/ CheckRecord(t) \/ NotPublished(t) \/ Submit(t)
             \/ ConfirmTimeout(t) \/ ImageLeg(t) \/ SmokeLeg(t) \/ RailwayLeg(t)
    BY <2>1, <1>2, <1>3, <1>4, Zenon
       DEF Gates, CheckRecord, NotPublished, Submit, SubmitFails, Abort,
           ConfirmTimeout, ImageLeg, SmokeLeg, RailwayLeg
  <2>2. CASE SkipPublished(t) \/ Confirmed(t)
    BY <2>2, <1>5 DEF SkipPublished, Confirmed
  <2>3. CASE Classify(t)
    BY <2>3, <1>2, <1>3 DEF Classify, Abort, Goto, memory
  <2>4. CASE VerifyLeg(t)
    BY <2>4 DEF VerifyLeg
  <2>5. CASE TerminalTx(t)
    <3>1. SameTxs(u)
      BY <2>5, TerminalJudges DEF JudgesLast
    <3>2. CASE Abort(t)
      BY <3>1, <3>2, <1>2 DEF Abort
    <3>3. CASE Goto(t, "resubmit")
               /\ verified' = [verified EXCEPT ![t] = {}]
               /\ UNCHANGED <<job, plan, retried, recovering, prior>>
      BY <3>1, <3>3 DEF Goto
    <3>4. QED
      BY <2>5, <3>2, <3>3 DEF TerminalTx
  <2>8. CASE Resubmit(t)
    <3>1. CASE SubmitFails(t)
      BY <3>1, <1>2, <1>4 DEF SubmitFails, Abort
    <3>2. CASE Broadcast(t) /\ Goto(t, "confirm")
               /\ retried' = [retried EXCEPT ![t] = TRUE]
               /\ UNCHANGED <<job, plan, verified, recovering, prior>>
      BY <3>2, <1>4 DEF Goto
    <3>3. QED
      BY <2>8, <3>1, <3>2 DEF Resubmit
  <2>6. CASE RollbackToPreviousSnapshot(t)
    <3>1. SameTxs(u)
      BY <2>6 DEF RollbackToPreviousSnapshot
    <3>2. CASE Abort(t)
      BY <3>1, <3>2, <1>2 DEF Abort
    <3>3. ASSUME NEW w, plan' = [plan EXCEPT ![t] = w],
                 recovering' = [recovering EXCEPT ![t] = TRUE],
                 retried' = [retried EXCEPT ![t] = FALSE],
                 Goto(t, "gates"), UNCHANGED <<job, verified, prior>>
          PROVE  pc'[u] = pc[u] /\ Remembers(u)
      BY <3>3 DEF Goto
    <3>4. QED
      BY <2>6, <3>1, <3>2, <3>3, Zenon DEF RollbackToPreviousSnapshot
  <2>7. QED
    BY <1>6, <2>1, <2>2, <2>3, <2>4, <2>5, <2>6, <2>8 DEF Step
<1>7. CASE Land(t)
  BY <1>7 DEF Land, memory
<1>8. CASE Kill(t)
  BY <1>8, <1>2 DEF Kill
<1>9. QED
  BY <1>1, <1>6, <1>7, <1>8

(* The stamp of a config in some history, or none.                         *)
OldStamp(s) ==
  \/ s = Null
  \/ \E e \in Envs : \E i \in 1 .. Len(configs[e]) :
       s = configs[e][i].rolledBackFrom

(* An invocation starts: what it plans writes no release yet, and carries  *)
(* a stamp of its own only when it rolls back.                             *)
Starts(t) ==
  /\ MayStart(t) /\ pc'[t] = "gates"
  /\ verified'[t] = verified[t] /\ recovering'[t] = recovering[t] /\ SameTxs(t)
  /\ job'[t].env \in Envs /\ plan'[t].env = job'[t].env
  /\ plan'[t].version = Null
  /\ prior'[t] = Latest(configs[job'[t].env])
  /\ \/ OldStamp(plan'[t].config.rolledBackFrom)
     \/ job'[t].mode # "deploy" /\ plan'[t].config.rolledBackFrom = t

(* A row of a page is a value of the history.                              *)
LEMMA PageRows ==
  ASSUME NEW S, NEW h \in Seq(S), NEW rows \in FetchConfigHistory(h),
         NEW i \in 1 .. Len(rows)
  PROVE  \E j \in 1 .. Len(h) : rows[i] = h[j]
<1>1. rows = Reverse(h) \/ rows = <<>>
  BY Zenon DEF FetchConfigHistory
<1>2. Len(<<>>) = 0
  OBVIOUS
<1>3. rows = Reverse(h)
  BY <1>1, <1>2
<1>4. Len(rows) = Len(h) /\ rows[i] = h[(Len(h) - i) + 1]
  BY <1>3 DEF Reverse
<1>5. QED
  BY <1>4

(* The entries of a rollback or promote, without a tag to restore.         *)
LEMMA RollbackEntry ==
  ASSUME NEW t \in Trains, NEW e \in Envs, NEW c \in Config,
         NEW promote \in BOOLEAN, NEW w \in RollbackWrites(t, e, c, promote)
  PROVE  /\ w.env = e /\ w.version = Null
         /\ w.config = IF promote THEN c ELSE BuildRollbackPayload(c, t)
         /\ w.config.base = c.base
         /\ w.config.rolledBackFrom = IF promote THEN c.rolledBackFrom ELSE t
<1> DEFINE d == IF promote THEN c ELSE BuildRollbackPayload(c, t)
<1>1. w = [ConfigWrite(e, d) EXCEPT !.restore = Null]
  BY NoPointerRestore DEF RollbackWrites
<1>2. w.env = e /\ w.version = Null /\ w.config = d
  BY <1>1 DEF ConfigWrite
<1>3. d.base = c.base
      /\ d.rolledBackFrom = IF promote THEN c.rolledBackFrom ELSE t
  BY DEF BuildRollbackPayload, Config
<1>4. QED
  BY <1>2, <1>3

LEMMA StartEffect ==
  ASSUME KVTypeOK, MemoryOK, NEW t \in Trains, Start(t)
  PROVE  Starts(t)
<1>1. \A e \in Envs : configs[e] \in Seq(Config)
  BY DEF KVTypeOK
<1>2. CASE StartDeploy(t)
  <2>1. PICK e \in Envs, b \in Bases, v \in Versions \cup {Null} :
          /\ job' = [job EXCEPT ![t] = [mode |-> "deploy", env |-> e,
                                        build |-> TRUE, version |-> v]]
          /\ plan' = [plan EXCEPT ![t] =
                        ConfigWrite(e, [base |-> b, rolledBackFrom |-> Null])]
          /\ prior' = [prior EXCEPT ![t] = Latest(configs[e])]
    BY <1>2 DEF StartDeploy
  <2>2. /\ job'[t].env = e
        /\ plan'[t] = ConfigWrite(e, [base |-> b, rolledBackFrom |-> Null])
        /\ prior'[t] = Latest(configs[e])
    BY <2>1 DEF MemoryOK
  <2>3. /\ plan'[t].env = e /\ plan'[t].version = Null
        /\ plan'[t].config.rolledBackFrom = Null
    BY <2>2 DEF ConfigWrite
  <2>4. MayStart(t) /\ pc'[t] = "gates" /\ SameTxs(t)
    BY <1>2 DEF StartDeploy, MemoryOK, Goto, SameTxs
  <2>5. QED
    BY <1>2, <2>2, <2>3, <2>4 DEF StartDeploy, Starts, OldStamp
<1>3. CASE StartConfigOnly(t)
  <2> DEFINE stamp(e) == IF Latest(configs[e]) = Null THEN Null
                         ELSE Latest(configs[e]).rolledBackFrom
  <2>1. PICK e \in Envs, b \in Bases, v \in Versions \cup {Null} :
          /\ job' = [job EXCEPT ![t] = [mode |-> "deploy", env |-> e,
                                        build |-> FALSE, version |-> v]]
          /\ plan' = [plan EXCEPT ![t] =
                        ConfigWrite(e, [base |-> b, rolledBackFrom |-> stamp(e)])]
          /\ prior' = [prior EXCEPT ![t] = Latest(configs[e])]
    BY <1>3 DEF StartConfigOnly
  <2>2. OldStamp(stamp(e))
    <3>1. CASE Latest(configs[e]) = Null
      BY <3>1 DEF OldStamp
    <3>2. CASE Latest(configs[e]) # Null
      <4>1. Len(configs[e]) \in 1 .. Len(configs[e])
        BY <1>1, <3>2 DEF Latest
      <4>2. stamp(e) = configs[e][Len(configs[e])].rolledBackFrom
        BY <3>2 DEF Latest
      <4>3. QED
        BY <4>1, <4>2 DEF OldStamp
    <3>3. QED
      BY <3>1, <3>2
  <2> HIDE DEF stamp
  <2>3. /\ job'[t].env = e
        /\ plan'[t] = ConfigWrite(e, [base |-> b, rolledBackFrom |-> stamp(e)])
        /\ prior'[t] = Latest(configs[e])
    BY <2>1 DEF MemoryOK
  <2>4. /\ plan'[t].env = e /\ plan'[t].version = Null
        /\ plan'[t].config.rolledBackFrom = stamp(e)
    BY <2>3 DEF ConfigWrite
  <2>5. MayStart(t) /\ pc'[t] = "gates" /\ SameTxs(t)
    BY <1>3 DEF StartConfigOnly, MemoryOK, Goto, SameTxs
  <2>6. QED
    BY <1>3, <2>2, <2>3, <2>4, <2>5 DEF StartConfigOnly, Starts
<1>4. CASE StartRollback(t)
  <2>0. PICK e \in Envs, mode \in {"rollback", "promote"},
             history \in FetchConfigHistory(configs[SessionEnv]) :
          \E i \in 1 .. Len(history) :
            /\ job' = [job EXCEPT ![t] = [mode |-> mode, env |-> e,
                                          build |-> FALSE, version |-> Null]]
            /\ \E w \in RollbackWrites(t, e, history[i], mode = "promote") :
                 plan' = [plan EXCEPT ![t] = w]
            /\ prior' = [prior EXCEPT ![t] = Latest(configs[e])]
    BY <1>4 DEF StartRollback
  <2>1. PICK i \in 1 .. Len(history) :
          /\ job' = [job EXCEPT ![t] = [mode |-> mode, env |-> e,
                                        build |-> FALSE, version |-> Null]]
          /\ \E w \in RollbackWrites(t, e, history[i], mode = "promote") :
               plan' = [plan EXCEPT ![t] = w]
          /\ prior' = [prior EXCEPT ![t] = Latest(configs[e])]
    BY <2>0
  <2>2. PICK w \in RollbackWrites(t, e, history[i], mode = "promote") :
          plan' = [plan EXCEPT ![t] = w]
    BY <2>1
  <2>3. SessionEnv \in Envs
    BY EnvsAssumption DEF SessionEnv
  <2>4. PICK j \in 1 .. Len(configs[SessionEnv]) :
          history[i] = configs[SessionEnv][j]
    BY <1>1, <2>3, PageRows
  <2>5. history[i] \in Config
    BY <1>1, <2>3, <2>4
  <2>6. /\ w.env = e /\ w.version = Null
        /\ w.config.rolledBackFrom = IF mode = "promote"
                                     THEN history[i].rolledBackFrom ELSE t
    <3> DEFINE promote == mode = "promote"
    <3>1. promote \in BOOLEAN /\ w \in RollbackWrites(t, e, history[i], promote)
      OBVIOUS
    <3> HIDE DEF promote
    <3>2. /\ w.env = e /\ w.version = Null
          /\ w.config.rolledBackFrom = IF promote THEN history[i].rolledBackFrom
                                       ELSE t
      BY <2>5, <3>1, RollbackEntry
    <3>3. QED
      BY <3>2 DEF promote
  <2>7. mode = "promote" => OldStamp(w.config.rolledBackFrom)
    BY <2>3, <2>4, <2>6 DEF OldStamp
  <2>8. /\ job'[t].env = e /\ job'[t].mode = mode /\ plan'[t] = w
        /\ prior'[t] = Latest(configs[e])
    BY <2>1, <2>2 DEF MemoryOK
  <2>9. MayStart(t) /\ pc'[t] = "gates" /\ SameTxs(t)
    BY <1>4 DEF StartRollback, MemoryOK, Goto, SameTxs
  <2>10. QED
    BY <1>4, <2>6, <2>7, <2>8, <2>9 DEF StartRollback, Starts
<1>5. QED
  BY <1>2, <1>3, <1>4 DEF Start

(* A killed process fails without a word.                                  *)
LEMMA KillEffect ==
  ASSUME MemoryOK, NEW t \in Trains, Kill(t)
  PROVE  Fails(t)
  BY ExitEffect DEF Kill, Fails, SameTxs

-----------------------------------------------------------------------------
(* A publish counts only when it is in the registry.                       *)

(* What a leg expects is among what was ever written.                      *)
LegWritten(w, leg) ==
  /\ leg = "runtimeConfig" => w.config \in Range(configs[w.env])
  /\ leg = "manifest" => TagEntry(w) \in Range(tags[w.env])
  /\ leg = "version" => w.record \in Range(records[w.env][w.version])

(* Only a confirming train has verified legs, and what it verified is in   *)
(* the registry's history, even if another train has since published.      *)
ReadBack(t) ==
  /\ pc[t] # "confirm" => verified[t] = {}
  /\ \A leg \in verified[t] : leg \in Legs(plan[t]) /\ LegWritten(plan[t], leg)

LEMMA RangeAppend ==
  ASSUME NEW S, NEW h \in Seq(S), NEW x \in S
  PROVE  Range(h) \subseteq Range(Append(h, x))
<1>1. \A i \in 1 .. Len(h) : i \in 1 .. Len(Append(h, x)) /\ Append(h, x)[i] = h[i]
  BY AppendProperties
<1>2. DOMAIN h = 1 .. Len(h) /\ DOMAIN Append(h, x) = 1 .. Len(Append(h, x))
  BY AppendProperties, LenProperties
<1>3. QED
  BY <1>1, <1>2 DEF Range

LEMMA LatestInRange ==
  ASSUME NEW S, NEW h \in Seq(S), NEW x, Latest(h) = x, x # Null
  PROVE  x \in Range(h)
<1>1. Len(h) \in DOMAIN h /\ x = h[Len(h)]
  BY DEF Latest
<1>2. QED
  BY <1>1 DEF Range

(* Histories only grow.                                                    *)
LEMMA HistoriesGrow ==
  ASSUME KVTypeOK, UNCHANGED kv \/ \E w : WriteSound(w) /\ Apply(w)
  PROVE  /\ \A e \in Envs : /\ Range(configs[e]) \subseteq Range(configs'[e])
                            /\ Range(tags[e]) \subseteq Range(tags'[e])
         /\ \A e \in Envs : \A v \in Versions :
              Range(records[e][v]) \subseteq Range(records'[e][v])
<1>1. CASE UNCHANGED kv
  BY <1>1 DEF kv
<1>2. ASSUME NEW w, WriteSound(w), Apply(w), NEW e \in Envs
      PROVE  /\ Range(configs[e]) \subseteq Range(configs'[e])
             /\ Range(tags[e]) \subseteq Range(tags'[e])
             /\ \A v \in Versions :
                  Range(records[e][v]) \subseteq Range(records'[e][v])
  <2>1. /\ w.env \in Envs /\ w.config \in Config
        /\ configs' = [configs EXCEPT ![w.env] = Append(configs[w.env], w.config)]
        /\ w.version = Null => tags' = tags /\ records' = records
        /\ w.version # Null =>
             /\ tags' = [tags EXCEPT ![w.env] = Append(tags[w.env], TagEntry(w))]
             /\ records' = [records EXCEPT ![w.env] = AddRecord(w)]
    BY <1>2, ApplyCases
  <2>2. w.version # Null => /\ w.version \in Versions /\ w.record \in Record
                            /\ TagEntry(w) \in Tag
    BY <1>2, TagEntryType
  <2>3. /\ configs[e] \in Seq(Config) /\ tags[e] \in Seq(Tag)
        /\ \A v \in Versions : records[e][v] \in Seq(Record)
    BY DEF KVTypeOK
  <2>4. configs'[e] = IF e = w.env THEN Append(configs[e], w.config) ELSE configs[e]
    BY <2>1 DEF KVTypeOK
  <2>5. Range(configs[e]) \subseteq Range(configs'[e])
    BY <2>1, <2>3, <2>4, RangeAppend
  <2>6. CASE w.version = Null
    BY <2>1, <2>5, <2>6
  <2>7. CASE w.version # Null
    <3>1. tags'[e] = IF e = w.env THEN Append(tags[e], TagEntry(w)) ELSE tags[e]
      BY <2>1, <2>7 DEF KVTypeOK
    <3>2. Range(tags[e]) \subseteq Range(tags'[e])
      BY <2>2, <2>3, <2>7, <3>1, RangeAppend
    <3>3. ASSUME NEW v \in Versions
          PROVE  Range(records[e][v]) \subseteq Range(records'[e][v])
      <4>1. records'[e][v] = IF e = w.env /\ v = w.version
                             THEN Append(records[e][v], w.record)
                             ELSE records[e][v]
        <5>1. CASE e = w.env
          <6>1. records'[e] = AddRecord(w) /\ records[e] \in [Versions -> Seq(Record)]
            BY <2>1, <2>7, <5>1 DEF KVTypeOK
          <6>2. QED
            BY <5>1, <6>1 DEF AddRecord
        <5>2. CASE e # w.env
          <6>1. records'[e] = records[e]
            BY <2>1, <2>7, <5>2 DEF KVTypeOK
          <6>2. QED
            BY <5>2, <6>1
        <5>3. QED
          BY <5>1, <5>2
      <4>2. QED
        BY <2>2, <2>3, <2>7, <4>1, RangeAppend
    <3>4. QED
      BY <2>5, <3>2, <3>3
  <2>8. QED
    BY <2>6, <2>7
<1>3. QED
  BY <1>1, <1>2

(* The values of a leg's write are values, so serving one is having it.    *)
LEMMA ServedIsWritten ==
  ASSUME KVTypeOK, NEW w, WriteSound(w), NEW leg \in Legs(w), LegServed(w, leg)
  PROVE  LegWritten(w, leg)
<1>1. w.env \in Envs /\ w.config \in Config /\ w.config # Null
  BY NullAssumption DEF WriteSound, Write
<1>2. CASE leg = "runtimeConfig"
  <2>1. configs[w.env] \in Seq(Config) /\ Latest(configs[w.env]) = w.config
    BY <1>1, <1>2 DEF KVTypeOK, LegServed
  <2>2. QED
    BY <1>1, <1>2, <2>1, LatestInRange DEF LegWritten
<1>3. CASE leg = "manifest"
  <2>1. w.version # Null
    BY <1>3 DEF Legs
  <2>2. tags[w.env] \in Seq(Tag) /\ Latest(tags[w.env]) = TagEntry(w)
    BY <1>1, <1>3 DEF KVTypeOK, LegServed
  <2>3. QED
    BY <1>3, <2>1, <2>2, TagEntryType, LatestInRange DEF LegWritten
<1>4. CASE leg = "version"
  <2>1. w.version # Null
    BY <1>4 DEF Legs
  <2>2. w.version \in Versions /\ w.record \in Record /\ w.record # Null
    BY <2>1, TagEntryType, NullAssumption
  <2>3. /\ records[w.env][w.version] \in Seq(Record)
        /\ Latest(records[w.env][w.version]) = w.record
    BY <1>1, <1>4, <2>2 DEF KVTypeOK, LegServed
  <2>4. QED
    BY <1>4, <2>2, <2>3, LatestInRange DEF LegWritten
<1>5. QED
  BY <1>2, <1>3, <1>4 DEF Legs, LegKinds

(* What is written stays written, also when other trains publish over it.  *)
LEMMA WrittenStays ==
  ASSUME KVTypeOK, UNCHANGED kv \/ \E w : WriteSound(w) /\ Apply(w),
         NEW w, WriteSound(w), NEW leg, LegWritten(w, leg),
         leg \in Legs(w)
  PROVE  LegWritten(w, leg)'
<1>1. w.env \in Envs
  BY DEF WriteSound, Write
<1>2. leg = "version" => w.version \in Versions
  BY TagEntryType DEF Legs
<1>3. QED
  BY <1>1, <1>2, HistoriesGrow DEF LegWritten, TagEntry

(* What a train that stays put has verified stays true.                    *)
LEMMA ReadBackStays ==
  ASSUME KVTypeOK, MemoryOK, UNCHANGED kv \/ \E w : WriteSound(w) /\ Apply(w),
         NEW u \in Trains, ReadBack(u), pc'[u] = pc[u], Remembers(u)
  PROVE  ReadBack(u)'
<1>1. CASE pc[u] # "confirm"
  BY <1>1 DEF ReadBack, Remembers
<1>2. CASE pc[u] = "confirm"
  <2>1. WriteSound(plan[u])
    BY <1>2 DEF MemoryOK, Running
  <2>2. ASSUME NEW leg \in verified[u] PROVE LegWritten(plan[u], leg)'
    <3>1. LegWritten(plan[u], leg) /\ leg \in Legs(plan[u])
      BY DEF ReadBack
    <3> DEFINE w == plan[u]
    <3>2. plan'[u] = w
      BY DEF Remembers
    <3>3. \A x : WriteSound(x) /\ LegWritten(x, leg) /\ leg \in Legs(x)
                 => /\ leg = "runtimeConfig" => x.config \in Range(configs'[x.env])
                    /\ leg = "manifest" => TagEntry(x) \in Range(tags'[x.env])
                    /\ leg = "version" =>
                         x.record \in Range(records'[x.env][x.version])
      BY WrittenStays DEF LegWritten, TagEntry
    <3>4. QED
      BY <2>1, <3>1, <3>2, <3>3 DEF LegWritten, TagEntry
  <2>3. QED
    BY <1>2, <2>2 DEF ReadBack, Remembers, Legs
<1>3. QED
  BY <1>1, <1>2

(* A train's own step adds only what it has just seen served.              *)
LEMMA ReadBackStep ==
  ASSUME KVTypeOK, MemoryOK, UNCHANGED kv, NEW t \in Trains, ReadBack(t),
         Effect(t) \/ Starts(t)
  PROVE  ReadBack(t)'
<1>1. CASE Verifies(t)
  <2>1. PICK leg \in Legs(plan[t]) :
          LegServed(plan[t], leg) /\ verified'[t] = verified[t] \cup {leg}
    BY <1>1 DEF Verifies
  <2>2. WriteSound(plan[t])
    BY <1>1 DEF Verifies, MemoryOK, Running
  <2>3. LegWritten(plan[t], leg)
    BY <2>1, <2>2, ServedIsWritten
  <2>4. \A l \in verified'[t] : l \in Legs(plan[t]) /\ LegWritten(plan[t], l)
    BY <2>1, <2>3 DEF ReadBack
  <2>5. pc'[t] = "confirm" /\ plan'[t] = plan[t]
    BY <1>1 DEF Verifies
  <2>6. QED
    BY <2>4, <2>5 DEF ReadBack, LegWritten, TagEntry, Legs, kv
<1>2. CASE Starts(t)
  BY <1>2 DEF Starts, MayStart, ReadBack
<1>3. CASE Moves(t) \/ Composes(t) \/ Submits(t) \/ Resends(t) \/ Recovers(t)
  <2>1. verified[t] = {} /\ verified'[t] = {}
    BY <1>3 DEF ReadBack, Moves, Composes, Submits, Resends, Recovers, Remembers
  <2>2. QED
    BY <2>1 DEF ReadBack
<1>4. CASE GivesUp(t) \/ Reports(t) \/ Succeeds(t) \/ Fails(t)
  BY <1>4 DEF GivesUp, Reports, Succeeds, Fails, Forgets, ReadBack
<1>5. QED
  BY <1>1, <1>2, <1>3, <1>4 DEF Effect

AllReadBack == \A t \in Trains : ReadBack(t)

(* What a step of the system is, by its effect.                            *)
LEMMA NextEffects ==
  ASSUME Inv, Next
  PROVE  \E t \in Trains :
           /\ \/ Starts(t) /\ UNCHANGED kv
              \/ Effect(t) /\ UNCHANGED kv
              \/ Land(t)
           /\ \A u \in Trains \ {t} : pc'[u] = pc[u] /\ Remembers(u) /\ SameTxs(u)
<1> USE DEF Inv
<1>1. PICK t \in Trains : Start(t) \/ Step(t) \/ Land(t) \/ Kill(t)
  BY DEF Next
<1>2. \A u \in Trains \ {t} : pc'[u] = pc[u] /\ Remembers(u) /\ SameTxs(u)
  BY <1>1, OthersUntouched
<1>3. CASE Start(t)
  BY <1>2, <1>3, StartEffect, StartStep DEF kv
<1>4. CASE Step(t)
  BY <1>2, <1>4, StepEffect, StepMemory
<1>5. CASE Kill(t)
  <2>1. Effect(t)
    BY <1>5, KillEffect DEF Effect
  <2>2. UNCHANGED kv
    BY <1>5 DEF Kill
  <2>3. QED
    BY <1>2, <2>1, <2>2
<1>6. CASE Land(t)
  BY <1>2, <1>6
<1>7. QED
  BY <1>1, <1>3, <1>4, <1>5, <1>6

(* A landing leaves the memory of every train alone.                       *)
LEMMA LandRemembers ==
  ASSUME NEW t \in Trains, Land(t), NEW u \in Trains
  PROVE  pc'[u] = pc[u] /\ Remembers(u)
  BY DEF Land, memory, Remembers

LEMMA ReadBackNext == Inv /\ AllReadBack /\ [Next]_vars => AllReadBack'
<1> SUFFICES ASSUME Inv, AllReadBack, [Next]_vars PROVE AllReadBack'
  OBVIOUS
<1> USE DEF Inv
<1>1. CASE UNCHANGED vars
  <2>1. UNCHANGED kv /\ UNCHANGED <<pc, plan, verified>>
    BY <1>1 DEF vars, memory
  <2>2. QED
    BY <2>1 DEF AllReadBack, ReadBack, LegWritten, TagEntry, Legs, kv
<1>2. CASE Next
  <2>1. PICK t \in Trains :
          /\ \/ Starts(t) /\ UNCHANGED kv
             \/ Effect(t) /\ UNCHANGED kv
             \/ Land(t)
          /\ \A u \in Trains \ {t} : pc'[u] = pc[u] /\ Remembers(u) /\ SameTxs(u)
    BY <1>2, NextEffects
  <2>2. UNCHANGED kv \/ \E w : WriteSound(w) /\ Apply(w)
    BY <1>2, NextSteps
  <2>3. ASSUME NEW u \in Trains, u # t PROVE ReadBack(u)'
    BY <2>1, <2>2, <2>3, ReadBackStays DEF AllReadBack
  <2>4. ReadBack(t)'
    <3>1. CASE Land(t)
      BY <2>2, <3>1, LandRemembers, ReadBackStays DEF AllReadBack
    <3>2. CASE (Starts(t) \/ Effect(t)) /\ UNCHANGED kv
      BY <3>2, ReadBackStep DEF AllReadBack
    <3>3. QED
      BY <2>1, <3>1, <3>2
  <2>5. QED
    BY <2>3, <2>4 DEF AllReadBack
<1>3. QED
  BY <1>1, <1>2

LEMMA ReadBackInvariance == Spec => []AllReadBack
<1>1. Init => AllReadBack
  BY DEF Init, AllReadBack, ReadBack
<1>2. QED
  BY <1>1, Invariance, ReadBackNext, PTL DEF Spec

(* A publish counts only when every value it meant to write is in the      *)
(* registry, for any number of trains, with failing reads, late landings   *)
(* and kills (confirm.ts: each expected leg is read back on its own).      *)
THEOREM CountedIsWritten == Spec => ReadBackSound
<1> DEFINE Sound == \A t \in Trains :
      pc[t] = "confirm" /\ pc'[t] \in {"image", "published", "rolledBack"}
        => Written(plan[t])
<1>1. Inv /\ AllReadBack /\ [Next]_vars => [Sound]_vars
  <2> SUFFICES ASSUME Inv, AllReadBack, Next, NEW t \in Trains, pc[t] = "confirm",
                      pc'[t] \in {"image", "published", "rolledBack"}
               PROVE  Written(plan[t])
    OBVIOUS
  <2>1. PICK u \in Trains :
          /\ Starts(u) \/ Effect(u) \/ Land(u)
          /\ \A x \in Trains \ {u} : pc'[x] = pc[x]
    BY NextEffects
  <2>2. u = t /\ ~Land(t)
    BY <2>1, LandRemembers
  <2>3. AllVerified(t)
    BY <2>1, <2>2
       DEF Starts, MayStart, Effect, Moves, Composes, Submits, Resends, GivesUp, Verifies,
           Reports, Succeeds, Fails, Recovers, Counts
  <2>4. \A leg \in Legs(plan[t]) : LegWritten(plan[t], leg)
    BY <2>3 DEF AllReadBack, ReadBack, AllVerified
  <2>5. plan[t].config \in Range(configs[plan[t].env])
    BY <2>4 DEF Legs, LegKinds, LegWritten
  <2>6. plan[t].version # Null =>
          /\ TagEntry(plan[t]) \in Range(tags[plan[t].env])
          /\ plan[t].record \in Range(records[plan[t].env][plan[t].version])
    BY <2>4 DEF Legs, LegKinds, LegWritten
  <2>7. QED
    BY <2>5, <2>6 DEF Written
<1>2. QED
  BY <1>1, Invariance, ReadBackInvariance, PTL DEF Spec, ReadBackSound

-----------------------------------------------------------------------------
(* No write is applied twice.                                              *)

(* A landing, by what it does to the transactions of its train.            *)
Lands(t, i) ==
  /\ i \in 1 .. Len(txs[t]) /\ txs[t][i].status = "pending"
  /\ LateLanding \/ (pc[t] = "confirm" /\ i = Len(txs[t]))
  /\ Apply(txs[t][i].write)
  /\ Len(txs'[t]) = Len(txs[t])
  /\ \A j \in 1 .. Len(txs[t]) :
       /\ txs'[t][j].write = txs[t][j].write
       /\ txs'[t][j].guessed = txs[t][j].guessed
       /\ txs'[t][j].status =
            IF j = i THEN "landed"
            ELSE IF j < i /\ txs[t][j].status = "pending" THEN "rejected"
            ELSE txs[t][j].status

LEMMA LandEffect ==
  ASSUME TxsOK, NEW t \in Trains, Land(t)
  PROVE  \E i \in 1 .. Len(txs[t]) : Lands(t, i)
<1>1. PICK i \in 1 .. Len(txs[t]) :
        /\ txs[t][i].status = "pending"
        /\ LateLanding \/ (pc[t] = "confirm" /\ i = Len(txs[t]))
        /\ Apply(txs[t][i].write)
        /\ txs' = [txs EXCEPT ![t] =
             [j \in 1 .. Len(txs[t]) |->
                [txs[t][j] EXCEPT !.status =
                   IF j = i THEN "landed"
                   ELSE IF j < i /\ @ = "pending" THEN "rejected" ELSE @]]]
  BY DEF Land
<1> DEFINE stat(j) == IF j = i THEN "landed"
                      ELSE IF j < i /\ txs[t][j].status = "pending"
                           THEN "rejected" ELSE txs[t][j].status
           new == [j \in 1 .. Len(txs[t]) |-> [txs[t][j] EXCEPT !.status = stat(j)]]
<1>2. txs'[t] = new
  BY <1>1 DEF TxsOK
<1>3. Len(txs[t]) \in Nat /\ DOMAIN new = 1 .. Len(txs[t])
  BY DEF TxsOK
<1>4. Len(new) = Len(txs[t])
  BY <1>3
<1>5. ASSUME NEW j \in 1 .. Len(txs[t])
      PROVE  /\ new[j].write = txs[t][j].write /\ new[j].status = stat(j)
             /\ new[j].guessed = txs[t][j].guessed
  <2>1. txs[t][j] \in Tx
    BY DEF TxsOK
  <2>2. new[j] = [txs[t][j] EXCEPT !.status = stat(j)]
    OBVIOUS
  <2> HIDE DEF stat, new
  <2>3. QED
    BY <2>1, <2>2 DEF Tx
<1> HIDE DEF new
<1>6. Lands(t, i)
  BY <1>1, <1>2, <1>4, <1>5 DEF Lands
<1>7. QED
  BY <1>6

(* Landings and verdicts mark what was broadcast, and do not change it.    *)
Relabels(t) ==
  /\ Len(txs'[t]) = Len(txs[t])
  /\ \A j \in 1 .. Len(txs[t]) : txs'[t][j].write = txs[t][j].write

LEMMA RelabelKeeps ==
  ASSUME TxsOK, NEW t \in Trains, Relabels(t)
  PROVE  /\ Len(txs[t]) \in Nat
         /\ txs'[t] = <<>> <=> txs[t] = <<>>
         /\ txs[t] # <<>> =>
              txs'[t][Len(txs'[t])].write = txs[t][Len(txs[t])].write
         /\ \A s : (\A i \in 1 .. Len(txs'[t]) :
                      txs'[t][i].write.config.rolledBackFrom # s)
                  <=> (\A i \in 1 .. Len(txs[t]) :
                         txs[t][i].write.config.rolledBackFrom # s)
<1>1. txs[t] \in Seq(Tx)
  BY DEF TxsOK
<1>2. Len(txs[t]) \in Nat /\ (Len(txs[t]) = 0 <=> txs[t] = <<>>)
  BY <1>1, LenProperties, EmptySeq
<1>3. CASE txs[t] = <<>>
  <2>1. Len(txs'[t]) = 0
    BY <1>2, <1>3 DEF Relabels
  <2>2. txs'[t] = <<>>
    BY <1>3, <2>1 DEF Relabels
  <2>3. QED
    BY <1>2, <1>3, <2>2
<1>4. CASE txs[t] # <<>>
  <2>1. Len(txs[t]) \in 1 .. Len(txs[t])
    BY <1>2, <1>4
  <2>2. Len(<<>>) = 0
    OBVIOUS
  <2>3. txs'[t] # <<>>
    BY <1>2, <1>4, <2>2 DEF Relabels
  <2>4. QED
    BY <1>2, <1>4, <2>1, <2>3 DEF Relabels
<1>5. QED
  BY <1>3, <1>4

LEMMA MarksRelabel ==
  ASSUME TxsOK, NEW t \in Trains,
         \/ \E i \in 1 .. Len(txs[t]) : Lands(t, i)
         \/ \E verdict \in {"invalid", "unknown"} : JudgesLast(t, verdict)
  PROVE  Relabels(t)
  BY JudgedTxs DEF Lands, Relabels

(* What a broadcast adds.                                                  *)
LEMMA SentTxs ==
  ASSUME TxsOK, NEW t \in Trains, WriteSound(plan[t]), SendsPlan(t)
  PROVE  /\ Len(txs[t]) \in Nat /\ Len(txs'[t]) = Len(txs[t]) + 1
         /\ txs'[t] # <<>>
         /\ \A i \in 1 .. Len(txs[t]) : txs'[t][i] = txs[t][i]
         /\ txs'[t][Len(txs[t]) + 1].write = plan[t]
         /\ txs'[t][Len(txs[t]) + 1].status = "pending"
<1> DEFINE tx == [write |-> plan[t], status |-> "pending", guessed |-> FALSE]
<1>1. tx \in Tx /\ tx.write = plan[t] /\ tx.status = "pending"
  BY DEF WriteSound, Tx
<1>2. txs[t] \in Seq(Tx) /\ txs'[t] = Append(txs[t], tx)
  BY DEF TxsOK, SendsPlan
<1> HIDE DEF tx
<1>3. QED
  BY <1>1, <1>2, AppendProperties, LenProperties

(* The invocations that have run, whose stamps may be met.                 *)
Stamps == {u \in Trains : pc[u] # "idle"} \cup {Null}

(* Nobody carries the stamp of an invocation that has not started.         *)
StampsStarted ==
  /\ \A e \in Envs : \A i \in 1 .. Len(configs[e]) :
       configs[e][i].rolledBackFrom \in Stamps
  /\ \A t \in Trains : pc[t] \in Running => plan[t].config.rolledBackFrom \in Stamps
  /\ \A t \in Trains : \A i \in 1 .. Len(txs[t]) :
       txs[t][i].write.config.rolledBackFrom \in Stamps

(* Nothing t broadcast carries its own stamp.                              *)
Unstamped(t) ==
  \A i \in 1 .. Len(txs[t]) : txs[t][i].write.config.rolledBackFrom # t

(* How an invocation broadcasts: nothing before its first submit; a        *)
(* publish of its own without its stamp, a recovery with it, and only      *)
(* after the publish; what it confirms is what it broadcast last.          *)
Sending(t) ==
  /\ pc[t] = "idle" => txs[t] = <<>>
  /\ recovering[t] => /\ pc[t] \in Running
                      /\ plan[t].config.rolledBackFrom = t
  /\ pc[t] \in Running /\ ~recovering[t] /\ job[t].mode = "deploy"
       => plan[t].config.rolledBackFrom # t /\ Unstamped(t)
  /\ pc[t] \in BeforeSubmit =>
       IF recovering[t] THEN Unstamped(t) ELSE txs[t] = <<>>
  /\ pc[t] \in PostPublish => job[t].mode = "deploy" /\ ~recovering[t]
  /\ pc[t] \in {"confirm", "resubmit"} =>
       /\ txs[t] # <<>>
       /\ txs[t][Len(txs[t])].write = plan[t]
  /\ pc[t] \in Running => plan[t].env = job[t].env

AllSending == \A t \in Trains : Sending(t)

LEMMA StampsGrow ==
  ASSUME Inv, Next
  PROVE  Stamps \subseteq Stamps'
<1>1. PICK t \in Trains :
        /\ Starts(t) \/ Effect(t) \/ Land(t)
        /\ \A u \in Trains \ {t} : pc'[u] = pc[u]
  BY NextEffects
<1>2. pc[t] # "idle" => pc'[t] # "idle"
  BY <1>1, LandRemembers
     DEF Starts, Effect, Moves, Composes, Submits, Resends, GivesUp, Verifies, Reports,
         Succeeds, Fails, Recovers
<1>3. QED
  BY <1>1, <1>2 DEF Stamps

(* A recovery plans the content of the previous snapshot, with the stamp   *)
(* of the train that recovers.                                             *)
LEMMA RecoverPlan ==
  ASSUME KVTypeOK, MemoryOK, NEW t \in Trains, Recovers(t)
  PROVE  /\ plan'[t].env = job[t].env /\ plan'[t].version = Null
         /\ plan'[t].config.rolledBackFrom = t
         /\ \E history \in FetchConfigHistory(configs[SessionEnv]) :
              /\ PreviousSnapshot(history) # Null
              /\ plan'[t].config.base = PreviousSnapshot(history).base
<1>1. PICK history \in FetchConfigHistory(configs[SessionEnv]) :
        /\ PreviousSnapshot(history) # Null
        /\ plan'[t] \in RollbackWrites(t, job[t].env, PreviousSnapshot(history),
                                       FALSE)
  BY DEF Recovers
<1> DEFINE c == PreviousSnapshot(history)
           d == BuildRollbackPayload(c, t)
<1>2. c \in Config
  <2>1. configs[SessionEnv] \in Seq(Config)
    BY EnvsAssumption DEF KVTypeOK, SessionEnv
  <2>2. history \in Seq(Config)
    BY <2>1, HistoryType
  <2>3. QED
    BY <1>1, <2>2 DEF PreviousSnapshot
<1>3. plan'[t] = [ConfigWrite(job[t].env, d) EXCEPT !.restore = Null]
  BY <1>1, NoPointerRestore DEF RollbackWrites
<1>4. d.base = c.base /\ d.rolledBackFrom = t
  BY <1>2 DEF BuildRollbackPayload, Config
<1> HIDE DEF d
<1>5. plan'[t].env = job[t].env /\ plan'[t].version = Null /\ plan'[t].config = d
  BY <1>3 DEF ConfigWrite
<1>6. QED
  BY <1>1, <1>4, <1>5

(* Adding or dropping the release leg leaves config and environment alone. *)
LEMMA ReleaseLegOnly ==
  ASSUME NEW w \in Write, NEW v, NEW r
  PROVE  /\ [w EXCEPT !.version = v, !.record = r].config = w.config
         /\ [w EXCEPT !.version = v, !.record = r].env = w.env
         /\ [w EXCEPT !.version = v, !.record = r].version = v
         /\ [w EXCEPT !.version = v, !.record = r].record = r
  BY DEF Write

LEMMA SameTarget ==
  ASSUME MemoryOK, NEW t \in Trains, Composes(t) \/ Reports(t)
  PROVE  /\ pc[t] \in Running /\ plan[t] \in Write
         /\ plan'[t].config = plan[t].config /\ plan'[t].env = plan[t].env
<1>1. pc[t] \in Running
  BY DEF Composes, Reports, Counts, Running
<1>2. plan[t] \in Write
  BY <1>1 DEF MemoryOK, WriteSound
<1>3. CASE Composes(t)
  <2>1. PICK pointer : plan'[t] = [plan[t] EXCEPT !.version = job[t].version,
                                     !.record = ComposeRecord(t, pointer)]
    BY <1>3 DEF Composes
  <2>2. QED
    BY <1>1, <1>2, <2>1, ReleaseLegOnly
<1>4. CASE Reports(t)
  <2>1. \/ plan'[t] = plan[t]
        \/ plan'[t] = [plan[t] EXCEPT !.version = Null, !.record = Null]
    BY <1>4, Zenon DEF Reports
  <2> DEFINE w == [plan[t] EXCEPT !.version = Null, !.record = Null]
  <2>2. w.config = plan[t].config /\ w.env = plan[t].env
    BY <1>2, ReleaseLegOnly
  <2> HIDE DEF w
  <2>3. plan'[t] = plan[t] \/ plan'[t] = w
    BY <2>1 DEF w
  <2>4. QED
    BY <1>1, <1>2, <2>2, <2>3
<1>5. QED
  BY <1>3, <1>4

(* What is planned next is stamped by somebody who runs.                   *)
LEMMA PlanStamped ==
  ASSUME KVTypeOK, MemoryOK, StampsStarted, NEW t \in Trains,
         Starts(t) \/ Effect(t), pc'[t] \in Running, Stamps \subseteq Stamps'
  PROVE  plan'[t].config.rolledBackFrom \in Stamps'
<1>1. CASE Starts(t)
  <2>1. t \in Stamps'
    BY <1>1 DEF Starts, Stamps
  <2>2. OldStamp(plan'[t].config.rolledBackFrom) =>
          plan'[t].config.rolledBackFrom \in Stamps
    BY DEF OldStamp, StampsStarted, Stamps
  <2>3. QED
    BY <1>1, <2>1, <2>2 DEF Starts
<1>2. CASE Recovers(t)
  <2>1. plan'[t].config.rolledBackFrom = t
    BY <1>2, RecoverPlan
  <2>2. t \in Stamps'
    BY <1>2 DEF Recovers, Stamps
  <2>3. QED
    BY <2>1, <2>2
<1>3. CASE Succeeds(t) \/ Fails(t)
  BY <1>3 DEF Succeeds, Fails, Running
<1>4. CASE Moves(t) \/ Submits(t) \/ Resends(t) \/ GivesUp(t) \/ Verifies(t)
  <2>1. plan'[t] = plan[t] /\ pc[t] \in Running
    BY <1>4 DEF Moves, Submits, Resends, GivesUp, Verifies, Remembers, Running
  <2>2. QED
    BY <2>1 DEF StampsStarted
<1>5. CASE Composes(t) \/ Reports(t)
  <2>1. pc[t] \in Running /\ plan'[t].config = plan[t].config
    BY <1>5, SameTarget
  <2>2. QED
    BY <2>1 DEF StampsStarted
<1>6. QED
  BY <1>1, <1>2, <1>3, <1>4, <1>5 DEF Effect

(* A train that broadcasts has a plan to broadcast.                        *)
LEMMA TxsGrow ==
  ASSUME MemoryOK, TxsOK, NEW t \in Trains, Starts(t) \/ Effect(t)
  PROVE  \/ SameTxs(t) \/ Relabels(t)
         \/ pc[t] \in Running /\ WriteSound(plan[t]) /\ SendsPlan(t)
<1>1. \/ SameTxs(t) \/ (pc[t] \in {"submit", "resubmit"} /\ SendsPlan(t))
      \/ \E verdict \in {"invalid", "unknown"} : JudgesLast(t, verdict)
  BY DEF Starts, Effect, Moves, Composes, Submits, Resends, GivesUp, Verifies, Reports,
         Succeeds, Fails, Recovers
<1>2. QED
  BY <1>1, MarksRelabel DEF MemoryOK, Running

LEMMA StampsNext ==
  ASSUME Inv, StampsStarted, [Next]_vars
  PROVE  StampsStarted'
<1> USE DEF Inv
<1>1. CASE UNCHANGED vars
  BY <1>1 DEF vars, memory, kv, StampsStarted, Stamps
<1>2. CASE Next
  <2>1. PICK t \in Trains :
          /\ \/ Starts(t) /\ UNCHANGED kv
             \/ Effect(t) /\ UNCHANGED kv
             \/ Land(t)
          /\ \A u \in Trains \ {t} : pc'[u] = pc[u] /\ Remembers(u) /\ SameTxs(u)
    BY <1>2, NextEffects
  <2>2. Stamps \subseteq Stamps'
    BY <1>2, StampsGrow
  <2>3. ASSUME NEW u \in Trains, pc'[u] \in Running
        PROVE  plan'[u].config.rolledBackFrom \in Stamps'
    <3>1. CASE u # t \/ Land(t)
      BY <2>1, <2>2, <2>3, <3>1, LandRemembers DEF StampsStarted, Remembers
    <3>2. CASE u = t /\ ~Land(t)
      BY <2>1, <2>2, <2>3, <3>2, PlanStamped
    <3>3. QED
      BY <3>1, <3>2
  <2>4. ASSUME NEW u \in Trains, NEW i \in 1 .. Len(txs'[u])
        PROVE  txs'[u][i].write.config.rolledBackFrom \in Stamps'
    <3>1. CASE SameTxs(u)
      BY <2>2, <3>1 DEF StampsStarted, SameTxs
    <3>2. CASE Relabels(u)
      BY <2>2, <3>2 DEF Relabels, StampsStarted
    <3>3. CASE pc[u] \in Running /\ WriteSound(plan[u]) /\ SendsPlan(u)
      <4>1. i \in 1 .. Len(txs[u]) \/ i = Len(txs[u]) + 1
        BY <3>3, SentTxs
      <4>2. QED
        BY <2>2, <3>3, <4>1, SentTxs DEF StampsStarted
    <3>4. QED
      BY <2>1, <3>1, <3>2, <3>3, TxsGrow, LandEffect, MarksRelabel
  <2>5. ASSUME NEW e \in Envs, NEW i \in 1 .. Len(configs'[e])
        PROVE  configs'[e][i].rolledBackFrom \in Stamps'
    <3>1. CASE UNCHANGED kv
      BY <2>2, <3>1 DEF kv, StampsStarted
    <3>2. CASE Land(t)
      <4>1. PICK k \in 1 .. Len(txs[t]) : Apply(txs[t][k].write)
        BY <3>2, LandEffect DEF Lands
      <4> DEFINE w == txs[t][k].write
      <4>2. WriteSound(w)
        BY DEF TxsOK
      <4>3. w.config.rolledBackFrom \in Stamps'
        BY <2>2 DEF StampsStarted
      <4>4. /\ w.config \in Config
            /\ configs' = [configs EXCEPT ![w.env] = Append(configs[w.env], w.config)]
        BY <4>1, <4>2, ApplyCases
      <4>5. configs[e] \in Seq(Config)
        BY DEF KVTypeOK
      <4> HIDE DEF w
      <4>6. configs'[e] = configs[e] \/ configs'[e] = Append(configs[e], w.config)
        BY <4>4 DEF KVTypeOK
      <4>7. configs'[e][i] = w.config
            \/ (i \in 1 .. Len(configs[e]) /\ configs'[e][i] = configs[e][i])
        <5>1. CASE configs'[e] = configs[e]
          BY <5>1
        <5>2. CASE configs'[e] = Append(configs[e], w.config)
          <6>1. /\ Len(configs[e]) \in Nat
                /\ Len(configs'[e]) = Len(configs[e]) + 1
                /\ \A j \in 1 .. Len(configs[e]) : configs'[e][j] = configs[e][j]
                /\ configs'[e][Len(configs[e]) + 1] = w.config
            BY <4>4, <4>5, <5>2, AppendProperties, LenProperties
          <6>2. QED
            BY <6>1
        <5>3. QED
          BY <4>6, <5>1, <5>2
      <4>8. QED
        BY <2>2, <4>3, <4>7 DEF StampsStarted
    <3>3. QED
      BY <2>1, <3>1, <3>2
  <2>6. QED
    BY <2>3, <2>4, <2>5 DEF StampsStarted
<1>3. QED
  BY <1>1, <1>2

(* Landing changes marks only.                                             *)
LEMMA SendingStays ==
  ASSUME TxsOK, NEW u \in Trains, Sending(u), pc'[u] = pc[u], Remembers(u),
         SameTxs(u) \/ Relabels(u)
  PROVE  Sending(u)'
<1>1. CASE SameTxs(u)
  BY <1>1 DEF Sending, Remembers, SameTxs, Unstamped, BeforeSubmit, PostPublish,
              Running
<1>2. CASE Relabels(u)
  <2>1. Unstamped(u)' <=> Unstamped(u)
    BY <1>2, RelabelKeeps DEF Unstamped
  <2>2. /\ txs'[u] = <<>> <=> txs[u] = <<>>
        /\ txs[u] # <<>> =>
              txs'[u][Len(txs'[u])].write = txs[u][Len(txs[u])].write
    BY <1>2, RelabelKeeps
  <2>3. QED
    BY <2>1, <2>2 DEF Sending, Remembers, BeforeSubmit, PostPublish, Running
<1>3. QED
  BY <1>1, <1>2

(* A start is of an invocation nobody has heard of.                        *)
LEMMA SendingStarts ==
  ASSUME KVTypeOK, StampsStarted, NEW t \in Trains, Sending(t), Starts(t)
  PROVE  Sending(t)'
<1>1. /\ pc[t] = "idle" /\ pc'[t] = "gates" /\ txs[t] = <<>> /\ txs'[t] = <<>>
      /\ ~recovering[t] /\ ~recovering'[t]
  BY DEF Starts, MayStart, Sending, SameTxs, Running
<1>2. job'[t].mode = "deploy" => plan'[t].config.rolledBackFrom # t
  <2>1. t \notin Stamps
    BY <1>1, NullAssumption DEF Stamps
  <2>2. OldStamp(plan'[t].config.rolledBackFrom) =>
          plan'[t].config.rolledBackFrom \in Stamps
    BY DEF OldStamp, StampsStarted, Stamps
  <2>3. QED
    BY <2>1, <2>2 DEF Starts
<1>3. Unstamped(t)'
  BY <1>1 DEF Unstamped
<1>4. plan'[t].env = job'[t].env
  BY DEF Starts
<1>5. QED
  BY <1>1, <1>2, <1>3, <1>4 DEF Sending, BeforeSubmit, PostPublish

(* What is broadcast carries the stamp of what is planned.                 *)
LEMMA UnstampedSends ==
  ASSUME TxsOK, NEW t \in Trains, WriteSound(plan[t]), SendsPlan(t),
         Unstamped(t), plan[t].config.rolledBackFrom # t
  PROVE  Unstamped(t)'
<1>1. ASSUME NEW i \in 1 .. Len(txs'[t])
      PROVE  txs'[t][i].write.config.rolledBackFrom # t
  <2>1. i \in 1 .. Len(txs[t]) \/ i = Len(txs[t]) + 1
    BY SentTxs
  <2>2. QED
    BY <2>1, SentTxs DEF Unstamped
<1>2. QED
  BY <1>1 DEF Unstamped

LEMMA SendingStep ==
  ASSUME KVTypeOK, MemoryOK, TxsOK, NEW t \in Trains, Sending(t), Effect(t)
  PROVE  Sending(t)'
<1>1. CASE Moves(t)
  BY <1>1 DEF Moves, Remembers, SameTxs, Sending, Unstamped, Running,
              BeforeSubmit, PostPublish
<1>2. CASE Composes(t)
  <2>1. /\ pc[t] = "classify" /\ pc'[t] = "record" /\ job'[t] = job[t]
        /\ recovering'[t] = recovering[t] /\ txs'[t] = txs[t]
    BY <1>2 DEF Composes, SameTxs
  <2>2. plan'[t].config = plan[t].config /\ plan'[t].env = plan[t].env
    BY <1>2, SameTarget
  <2>3. QED
    BY <2>1, <2>2 DEF Sending, Unstamped, Running, BeforeSubmit, PostPublish
<1>3. CASE Submits(t) \/ Resends(t)
  <2>1. /\ pc[t] \in {"submit", "resubmit"} /\ pc'[t] = "confirm" /\ SendsPlan(t)
        /\ job'[t] = job[t] /\ plan'[t] = plan[t] /\ recovering'[t] = recovering[t]
    BY <1>3 DEF Submits, Resends, Remembers
  <2>2. pc[t] \in Running /\ WriteSound(plan[t])
    BY <2>1 DEF MemoryOK, Running
  <2>3. txs'[t] # <<>> /\ txs'[t][Len(txs'[t])].write = plan[t]
    BY <2>1, <2>2, SentTxs
  <2>4. ~recovering[t] /\ job[t].mode = "deploy" =>
          plan[t].config.rolledBackFrom # t /\ Unstamped(t)'
    BY <2>1, <2>2, UnstampedSends DEF Sending
  <2>5. QED
    BY <2>1, <2>2, <2>3, <2>4 DEF Sending, Running, BeforeSubmit, PostPublish
<1>4. CASE Verifies(t)
  BY <1>4 DEF Verifies, SameTxs, Sending, Unstamped, Running, BeforeSubmit,
              PostPublish
<1>5. CASE Reports(t)
  <2>1. /\ pc[t] \in Running /\ pc'[t] = "image" /\ job'[t] = job[t]
        /\ ~recovering[t] /\ ~recovering'[t] /\ job[t].mode = "deploy"
        /\ txs'[t] = txs[t]
    BY <1>5, SameTarget DEF Reports, SameTxs
  <2>2. plan'[t].config = plan[t].config /\ plan'[t].env = plan[t].env
    BY <1>5, SameTarget
  <2>3. QED
    BY <2>1, <2>2 DEF Sending, Unstamped, Running, BeforeSubmit, PostPublish
<1>6. CASE Succeeds(t) \/ Fails(t)
  <2>1. pc'[t] \in Finals /\ ~recovering'[t]
    BY <1>6 DEF Succeeds, Fails, Forgets, Finals
  <2>2. QED
    BY <2>1 DEF Sending, Finals, Running, BeforeSubmit, PostPublish
<1>7. CASE Recovers(t)
  <2>1. /\ pc[t] = "rollback" /\ pc'[t] = "gates" /\ recovering'[t]
        /\ job'[t] = job[t] /\ txs'[t] = txs[t]
    BY <1>7 DEF Recovers, SameTxs
  <2>2. Unstamped(t)'
    BY <2>1 DEF Sending, Unstamped, PostPublish, Running
  <2>3. QED
    BY <1>7, <2>1, <2>2, RecoverPlan DEF Sending, Running, BeforeSubmit, PostPublish
<1>8. CASE GivesUp(t)
  <2>1. /\ pc[t] = "confirm" /\ pc'[t] = "resubmit" /\ job'[t] = job[t]
        /\ plan'[t] = plan[t] /\ recovering'[t] = recovering[t] /\ Relabels(t)
    BY <1>8, MarksRelabel DEF GivesUp
  <2>2. Unstamped(t)' <=> Unstamped(t)
    BY <2>1, RelabelKeeps DEF Unstamped
  <2>3. /\ txs'[t] = <<>> <=> txs[t] = <<>>
        /\ txs[t] # <<>> =>
              txs'[t][Len(txs'[t])].write = txs[t][Len(txs[t])].write
    BY <2>1, RelabelKeeps
  <2>4. QED
    BY <2>1, <2>2, <2>3 DEF Sending, BeforeSubmit, PostPublish, Running
<1>9. QED
  BY <1>1, <1>2, <1>3, <1>4, <1>5, <1>6, <1>7, <1>8 DEF Effect

SendingInv == StampsStarted /\ AllSending

LEMMA SendingNext == Inv /\ SendingInv /\ [Next]_vars => SendingInv'
<1> SUFFICES ASSUME Inv, SendingInv, [Next]_vars PROVE SendingInv'
  OBVIOUS
<1> USE DEF Inv, SendingInv
<1>1. StampsStarted'
  BY StampsNext
<1>2. CASE UNCHANGED vars
  <2>1. UNCHANGED <<pc, job, plan, recovering, txs>>
    BY <1>2 DEF vars, memory
  <2>2. QED
    BY <1>1, <2>1 DEF AllSending, Sending, Unstamped, BeforeSubmit, PostPublish
<1>3. CASE Next
  <2>1. PICK t \in Trains :
          /\ Starts(t) \/ Effect(t) \/ Land(t)
          /\ \A u \in Trains \ {t} : pc'[u] = pc[u] /\ Remembers(u) /\ SameTxs(u)
    BY <1>3, NextEffects
  <2>2. ASSUME NEW u \in Trains, u # t PROVE Sending(u)'
    BY <2>1, <2>2, SendingStays DEF AllSending
  <2>3. Sending(t)'
    <3>1. CASE Land(t)
      BY <3>1, LandEffect, MarksRelabel, LandRemembers, SendingStays DEF AllSending
    <3>2. CASE Starts(t)
      BY <3>2, SendingStarts DEF AllSending
    <3>3. CASE Effect(t)
      BY <3>3, SendingStep DEF AllSending
    <3>4. QED
      BY <2>1, <3>1, <3>2, <3>3
  <2>4. QED
    BY <1>1, <2>2, <2>3 DEF AllSending
<1>4. QED
  BY <1>2, <1>3

LEMMA SendingInit == Init => SendingInv
<1> SUFFICES ASSUME Init PROVE SendingInv
  OBVIOUS
<1>1. ASSUME NEW e \in Envs, NEW i \in 1 .. Len(configs[e])
      PROVE  configs[e][i].rolledBackFrom = Null
  BY DEF Init
<1>2. StampsStarted
  BY <1>1 DEF Init, StampsStarted, Stamps, Running
<1>3. AllSending
  BY DEF Init, AllSending, Sending, Unstamped, Running, BeforeSubmit, PostPublish
<1>4. QED
  BY <1>2, <1>3 DEF SendingInv

(* How invocations broadcast, whatever races.                              *)
LEMMA SendingInvariance == Spec => []SendingInv
  BY SendingInit, SendingNext, Invariance, PTL DEF Spec

(* What an invocation submits it has not broadcast before: its own publish *)
(* is its first, and its recovery is the first with its stamp.             *)
LEMMA SubmitsNew ==
  ASSUME NEW t \in Trains, Sending(t), pc[t] = "submit"
  PROVE  \A i \in 1 .. Len(txs[t]) : txs[t][i].write # plan[t]
  BY DEF Sending, Unstamped, BeforeSubmit

(* A broadcast its train gave up: the chain refused it, or so the train    *)
(* guessed.                                                                *)
GivenUp(tx) == tx.guessed \/ tx.status = "rejected"

(* Two broadcasts of one write follow each other, and the first was given  *)
(* up.                                                                     *)
InOrder(t) ==
  \A i, j \in 1 .. Len(txs[t]) :
    i < j /\ txs[t][i].write = txs[t][j].write => j = i + 1 /\ GivenUp(txs[t][i])

(* What t waits for and has not resubmitted it has broadcast once.         *)
FirstTry(t) ==
  pc[t] \in {"confirm", "resubmit"} /\ ~retried[t] =>
    \A i \in 1 .. Len(txs[t]) : i # Len(txs[t]) => txs[t][i].write # plan[t]

(* Only what was given up is resubmitted, and only once.                   *)
Resubmits(t) ==
  pc[t] = "resubmit" => ~retried[t] /\ GivenUp(txs[t][Len(txs[t])])

Once(t) == InOrder(t) /\ FirstTry(t) /\ Resubmits(t)

AllOnce == \A t \in Trains : Once(t)

(* Marks only add to what was given up.                                    *)
LEMMA OnceMarked ==
  ASSUME TxsOK, NEW u \in Trains, Once(u), Relabels(u),
         \A i \in 1 .. Len(txs[u]) : GivenUp(txs[u][i]) => GivenUp(txs'[u][i])
  PROVE  InOrder(u)'
<1> SUFFICES ASSUME NEW i \in 1 .. Len(txs'[u]), NEW j \in 1 .. Len(txs'[u]),
                    i < j, txs'[u][i].write = txs'[u][j].write
             PROVE  j = i + 1 /\ GivenUp(txs'[u][i])
  BY DEF InOrder, GivenUp
<1>1. i \in 1 .. Len(txs[u]) /\ j \in 1 .. Len(txs[u])
      /\ txs[u][i].write = txs[u][j].write
  BY DEF Relabels
<1>2. QED
  BY <1>1 DEF Once, InOrder

LEMMA LandsMarks ==
  ASSUME NEW u \in Trains, NEW k \in 1 .. Len(txs[u]), Lands(u, k),
         NEW i \in 1 .. Len(txs[u]), GivenUp(txs[u][i])
  PROVE  GivenUp(txs'[u][i])
  BY DEF Lands, GivenUp

LEMMA OnceStays ==
  ASSUME TxsOK, NEW u \in Trains, Once(u), Sending(u), pc'[u] = pc[u],
         Remembers(u), SameTxs(u) \/ \E i \in 1 .. Len(txs[u]) : Lands(u, i)
  PROVE  Once(u)'
<1>1. CASE SameTxs(u)
  BY <1>1 DEF Once, InOrder, FirstTry, Resubmits, GivenUp, SameTxs, Remembers
<1>2. ASSUME NEW k \in 1 .. Len(txs[u]), Lands(u, k)
      PROVE  Once(u)'
  <2>1. Relabels(u)
    BY <1>2, MarksRelabel
  <2>2. InOrder(u)'
    BY <1>2, <2>1, LandsMarks, OnceMarked
  <2>3. FirstTry(u)'
    BY <2>1 DEF Once, FirstTry, Relabels, Remembers
  <2>4. pc[u] = "resubmit" => GivenUp(txs'[u][Len(txs'[u])])
    <3>1. txs[u] # <<>> => Len(txs[u]) \in 1 .. Len(txs[u])
      <4>1. txs[u] \in Seq(Tx)
        BY DEF TxsOK
      <4>2. QED
        BY <4>1, LenProperties, EmptySeq
    <3>2. QED
      BY <1>2, <2>1, <3>1, LandsMarks DEF Once, Resubmits, Sending, Relabels
  <2>5. Resubmits(u)'
    BY <2>4 DEF Once, Resubmits, Remembers, GivenUp
  <2>6. QED
    BY <2>2, <2>3, <2>5 DEF Once
<1>3. QED
  BY <1>1, <1>2

(* A broadcast of something that at most the last one, given up, wrote.    *)
LEMMA OnceSends ==
  ASSUME TxsOK, NEW t \in Trains, WriteSound(plan[t]), SendsPlan(t),
         InOrder(t),
         \A i \in 1 .. Len(txs[t]) : txs[t][i].write = plan[t] =>
           i = Len(txs[t]) /\ GivenUp(txs[t][i])
  PROVE  InOrder(t)'
<1>1. /\ Len(txs[t]) \in Nat /\ Len(txs'[t]) = Len(txs[t]) + 1
      /\ \A i \in 1 .. Len(txs[t]) : txs'[t][i] = txs[t][i]
      /\ txs'[t][Len(txs[t]) + 1].write = plan[t]
  BY SentTxs
<1> SUFFICES ASSUME NEW i \in 1 .. Len(txs'[t]), NEW j \in 1 .. Len(txs'[t]),
                    i < j, txs'[t][i].write = txs'[t][j].write
             PROVE  j = i + 1 /\ GivenUp(txs'[t][i])
  BY DEF InOrder, GivenUp
<1>2. i \in 1 .. Len(txs[t]) /\ txs'[t][i] = txs[t][i]
  BY <1>1
<1>3. CASE j \in 1 .. Len(txs[t])
  <2>1. txs'[t][j] = txs[t][j]
    BY <1>1, <1>3
  <2>2. QED
    BY <1>2, <1>3, <2>1 DEF InOrder
<1>4. CASE j = Len(txs[t]) + 1
  <2>1. txs[t][i].write = plan[t]
    BY <1>1, <1>2, <1>4
  <2>2. QED
    BY <1>2, <1>4, <2>1
<1>5. QED
  BY <1>1, <1>3, <1>4

(* The last broadcast of a wait that gave it up.                           *)
LEMMA OnceJudged ==
  ASSUME TxsOK, NEW t \in Trains, Once(t), NEW verdict \in {"invalid", "unknown"},
         JudgesLast(t, verdict)
  PROVE  /\ InOrder(t)'
         /\ txs[t] # <<>> => GivenUp(txs'[t][Len(txs'[t])])
<1> DEFINE n == Len(txs[t])
<1>1. Relabels(t) /\ n \in Nat /\ Len(txs'[t]) = n
  BY JudgedTxs, MarksRelabel
<1>2. ASSUME n # 0 PROVE GivenUp(txs'[t][n])
  <2>1. n \in 1 .. n
    BY <1>1, <1>2
  <2>2. txs[t] \in Seq(Tx)
    BY DEF TxsOK
  <2>3. txs[t][n] \in Tx
    BY <2>1, <2>2, ElementOfSeq
  <2>4. txs'[t][n] = Judged(txs[t][n], verdict)
    BY <1>2, JudgedTxs
  <2>5. TxTerminal(txs[t][n], verdict)
    BY DEF JudgesLast
  <2> DEFINE tx == txs[t][n]
  <2> HIDE DEF tx
  <2>6. tx \in Tx /\ TxTerminal(tx, verdict)
    BY <2>3, <2>5 DEF tx
  <2>7. CASE verdict = "unknown"
    <3>1. Judged(tx, verdict) = [tx EXCEPT !.guessed = TRUE]
      BY <2>7 DEF Judged
    <3>2. Judged(tx, verdict).guessed
      BY <2>6, <3>1 DEF Tx
    <3>3. QED
      BY <2>4, <3>2 DEF GivenUp, tx
  <2>8. CASE verdict = "invalid"
    <3>1. tx.status \in {"pending", "rejected"}
      BY <2>6, <2>8 DEF TxTerminal, Tx
    <3>2. Judged(tx, verdict) = [tx EXCEPT !.status = "rejected"]
      BY <2>6, <2>8, <3>1 DEF Judged, Tx
    <3>3. Judged(tx, verdict).status = "rejected"
      BY <2>6, <3>2 DEF Tx
    <3>4. QED
      BY <2>4, <3>3 DEF GivenUp, tx
  <2>9. QED
    BY <2>7, <2>8
<1>3. ASSUME NEW i \in 1 .. n, GivenUp(txs[t][i]) PROVE GivenUp(txs'[t][i])
  <2>1. i # n => txs'[t][i] = txs[t][i]
    BY <1>3, JudgedTxs
  <2>2. n # 0
    BY <1>1, <1>3
  <2>3. QED
    BY <1>2, <1>3, <2>1, <2>2
<1>4. InOrder(t)'
  BY <1>1, <1>3, OnceMarked
<1>5. txs[t] # <<>> => n # 0
  <2>1. txs[t] \in Seq(Tx)
    BY DEF TxsOK
  <2>2. QED
    BY <2>1, EmptySeq
<1>6. QED
  BY <1>1, <1>2, <1>4, <1>5

LEMMA OnceStep ==
  ASSUME MemoryOK, TxsOK, NEW t \in Trains, Once(t), Sending(t),
         Starts(t) \/ Effect(t)
  PROVE  Once(t)'
<1>1. CASE SameTxs(t) /\ pc'[t] \notin {"confirm", "resubmit"}
  BY <1>1 DEF Once, InOrder, FirstTry, Resubmits, GivenUp, SameTxs
<1>2. CASE Verifies(t)
  BY <1>2 DEF Verifies, Once, InOrder, FirstTry, Resubmits, GivenUp, SameTxs
<1>3. CASE pc[t] = "submit" /\ SendsPlan(t)
           /\ (pc'[t] = "failed" \/ (pc'[t] = "confirm" /\ plan'[t] = plan[t]))
  <2>1. WriteSound(plan[t])
    BY <1>3 DEF MemoryOK, Running
  <2>2. \A i \in 1 .. Len(txs[t]) : txs[t][i].write # plan[t]
    BY <1>3, SubmitsNew
  <2>3. InOrder(t)'
    BY <1>3, <2>1, <2>2, OnceSends DEF Once
  <2>4. FirstTry(t)'
    <3> SUFFICES ASSUME plan'[t] = plan[t], NEW i \in 1 .. Len(txs'[t]),
                        i # Len(txs'[t])
                 PROVE  txs'[t][i].write # plan'[t]
      BY <1>3 DEF FirstTry
    <3>1. i \in 1 .. Len(txs[t]) /\ txs'[t][i] = txs[t][i]
      BY <1>3, <2>1, SentTxs
    <3>2. QED
      BY <2>2, <3>1
  <2>5. QED
    BY <1>3, <2>3, <2>4 DEF Once, Resubmits
<1>4. CASE pc[t] = "resubmit" /\ SendsPlan(t)
           /\ (pc'[t] = "failed" \/ (pc'[t] = "confirm" /\ retried'[t] = TRUE))
  <2>1. WriteSound(plan[t])
    BY <1>4 DEF MemoryOK, Running
  <2>2. \A i \in 1 .. Len(txs[t]) : txs[t][i].write = plan[t] =>
          i = Len(txs[t]) /\ GivenUp(txs[t][i])
    BY <1>4 DEF Once, FirstTry, Resubmits
  <2>3. InOrder(t)'
    BY <1>4, <2>1, <2>2, OnceSends DEF Once
  <2>4. QED
    BY <1>4, <2>3 DEF Once, FirstTry, Resubmits
<1>5. CASE GivesUp(t)
  <2>1. PICK verdict \in {"invalid", "unknown"} : JudgesLast(t, verdict)
    BY <1>5 DEF GivesUp
  <2>2. txs[t] # <<>> /\ Relabels(t)
    BY <1>5, MarksRelabel DEF GivesUp, Sending
  <2>3. InOrder(t)' /\ GivenUp(txs'[t][Len(txs'[t])])
    BY <2>1, <2>2, OnceJudged
  <2>4. FirstTry(t)'
    BY <1>5, <2>2 DEF GivesUp, Once, FirstTry, Relabels
  <2>5. QED
    BY <1>5, <2>3, <2>4 DEF GivesUp, Once, Resubmits, GivenUp
<1>6. CASE pc'[t] = "failed"
           /\ \E verdict \in {"invalid", "unknown"} : JudgesLast(t, verdict)
  <2>1. InOrder(t)'
    BY <1>6, OnceJudged
  <2>2. QED
    BY <1>6, <2>1 DEF Once, FirstTry, Resubmits
<1>7. QED
  BY <1>1, <1>2, <1>3, <1>4, <1>5, <1>6
     DEF Starts, Effect, Moves, Composes, Submits, Resends, Reports, Succeeds,
         Fails, Recovers, Remembers

LEMMA OnceNext == Inv /\ SendingInv /\ AllOnce /\ [Next]_vars => AllOnce'
<1> SUFFICES ASSUME Inv, SendingInv, AllOnce, [Next]_vars PROVE AllOnce'
  OBVIOUS
<1> USE DEF Inv, SendingInv
<1>1. CASE UNCHANGED vars
  <2>1. UNCHANGED <<pc, plan, retried, txs>>
    BY <1>1 DEF vars, memory
  <2>2. QED
    BY <2>1 DEF AllOnce, Once, InOrder, FirstTry, Resubmits, GivenUp
<1>2. CASE Next
  <2>1. PICK t \in Trains :
          /\ Starts(t) \/ Effect(t) \/ Land(t)
          /\ \A u \in Trains \ {t} : pc'[u] = pc[u] /\ Remembers(u) /\ SameTxs(u)
    BY <1>2, NextEffects
  <2>2. ASSUME NEW u \in Trains, u # t PROVE Once(u)'
    BY <2>1, <2>2, OnceStays DEF AllOnce, AllSending
  <2>3. Once(t)'
    <3>1. CASE Land(t)
      BY <3>1, LandEffect, LandRemembers, OnceStays DEF AllOnce, AllSending
    <3>2. CASE Starts(t) \/ Effect(t)
      BY <3>2, OnceStep DEF AllOnce, AllSending
    <3>3. QED
      BY <2>1, <3>1, <3>2
  <2>4. QED
    BY <2>2, <2>3 DEF AllOnce
<1>3. QED
  BY <1>1, <1>2

(* A publish is applied twice only on a wrong guess, whatever trains race  *)
(* and however late anything lands: never after the chain refused the      *)
(* first broadcast, and never a third time (confirm.ts, terminalTx;        *)
(* train.ts, resubmitting the identical bytes).                            *)
THEOREM NothingAppliedTwice == Spec => []AppliedOnce
<1>1. Init => AllOnce
  BY DEF Init, AllOnce, Once, InOrder, FirstTry, Resubmits
<1>2. Inv /\ AllOnce => AppliedOnce
  BY DEF AllOnce, Once, InOrder, GivenUp, AppliedOnce
<1>3. QED
  BY <1>1, <1>2, Invariance, SendingInvariance, OnceNext, PTL DEF Spec

-----------------------------------------------------------------------------
(* Releases chain when production deploys take turns.                      *)

(* Every read answers, and a transaction lands while somebody waits for it *)
(* or not at all.                                                          *)
Reliable == ~LateLanding /\ ~ReadsMayFail

(* Production is deployed to by one invocation at a time, whatever happens *)
(* elsewhere (deploy.yml queues its runs; staging runs beside them).       *)
OnProduction(t) == pc[t] \in Running /\ job[t].env = SessionEnv
ProductionSerial ==
  \A t, u \in Trains : OnProduction(t) /\ OnProduction(u) => t = u

OneRuns == \A t, u \in Trains : pc[t] \in Running /\ pc[u] \in Running => t = u

(* Whether the transaction the train confirms has landed.                  *)
Landed(t) == txs[t] # <<>> /\ txs[t][Len(txs[t])].status = "landed"

(* What it plans is still to come.                                         *)
BeforeLanding(t) ==
  \/ pc[t] \in BeforeSubmit \cup {"resubmit"}
  \/ pc[t] = "confirm" /\ ~Landed(t)

(* A release that goes forward from the pointer, with its floor there.     *)
ChainsOn(w) ==
  tags[w.env] # <<>> =>
    /\ Latest(tags[w.env]).version < w.version
    /\ w.record.floor = FromCutover(Latest(tags[w.env]).version)

(* Only production releases.  Until the release leg is composed there is   *)
(* none; from then until it lands the pointer stays where the classifier   *)
(* read it.                                                                *)
Releasing(t) ==
  /\ pc[t] = "classify" => OnProduction(t)
  /\ pc[t] \in {"gates", "classify"} => plan[t].version = Null
  /\ BeforeLanding(t) /\ plan[t].version # Null
       => OnProduction(t) /\ ChainsOn(plan[t])

AllReleasing == \A t \in Trains : Releasing(t)

(* Only a running invocation takes a step with an effect.                  *)
LEMMA EffectRuns ==
  ASSUME NEW t \in Trains, Effect(t)
  PROVE  pc[t] \in Running
  BY DEF Effect, Moves, Composes, Submits, Resends, GivesUp, Verifies, Reports, Succeeds,
         Fails, Recovers, Counts, Running

(* Allowing one invocation at all serialises production.                   *)
LEMMA OneRunsNext ==
  ASSUME MaxActive = 1, Inv, OneRuns, [Next]_vars
  PROVE  OneRuns'
<1>1. CASE UNCHANGED vars
  BY <1>1 DEF vars, OneRuns
<1>2. CASE Next
  <2>1. PICK t \in Trains :
          /\ Starts(t) \/ Effect(t) \/ Land(t)
          /\ \A u \in Trains \ {t} : pc'[u] = pc[u]
    BY <1>2, NextEffects
  <2>2. CASE Starts(t)
    <3>1. ASSUME NEW u \in Trains, pc[u] \in Running PROVE FALSE
      <4>1. Active = {u}
        BY <3>1 DEF Active, OneRuns
      <4>2. Cardinality(Active) = 1
        BY <4>1, FS_Singleton
      <4>3. QED
        BY <2>2, <4>2 DEF Starts, MayStart
    <3>2. QED
      BY <2>1, <3>1 DEF OneRuns
  <2>3. CASE Effect(t)
    BY <2>1, <2>3, EffectRuns DEF OneRuns
  <2>4. CASE Land(t)
    BY <2>1, <2>4, LandRemembers DEF OneRuns
  <2>5. QED
    BY <2>1, <2>2, <2>3, <2>4
<1>3. QED
  BY <1>1, <1>2

LEMMA OneAtATime ==
  ASSUME MaxActive = 1
  PROVE  Spec => []ProductionSerial
<1>1. Init => OneRuns
  BY DEF Init, OneRuns, Running
<1>2. Inv /\ OneRuns /\ [Next]_vars => OneRuns'
  BY OneRunsNext
<1>3. OneRuns => ProductionSerial
  BY DEF OneRuns, ProductionSerial, OnProduction
<1>4. QED
  BY <1>1, <1>2, <1>3, Invariance, PTL DEF Spec

(* What lands is what its train waits for.                                 *)
LEMMA AwaitedLands ==
  ASSUME ~LateLanding, MemoryOK, TxsOK, NEW t \in Trains, Sending(t), Land(t)
  PROVE  /\ pc[t] = "confirm" /\ BeforeLanding(t) /\ Landed(t)'
         /\ WriteSound(plan[t]) /\ Apply(plan[t])
<1>1. PICK i \in 1 .. Len(txs[t]) : Lands(t, i)
  BY LandEffect
<1>2. /\ pc[t] = "confirm" /\ i = Len(txs[t]) /\ txs[t][i].status = "pending"
      /\ txs[t][i].write = plan[t] /\ Apply(plan[t])
  BY <1>1 DEF Lands, Sending
<1>3. Len(txs'[t]) = i /\ txs'[t][i].status = "landed"
  BY <1>1, <1>2 DEF Lands
<1>4. txs'[t] # <<>>
  <2>1. Len(<<>>) = 0 /\ i # 0
    BY <1>1
  <2>2. QED
    BY <1>3, <2>1
<1>5. BeforeLanding(t) /\ Landed(t)'
  BY <1>2, <1>3, <1>4 DEF BeforeLanding, Landed
<1>6. WriteSound(plan[t])
  BY <1>2 DEF MemoryOK, Running
<1>7. QED
  BY <1>2, <1>5, <1>6

(* A transaction just broadcast has not landed.                            *)
LEMMA SentNotLanded ==
  ASSUME TxsOK, NEW t \in Trains, WriteSound(plan[t]), SendsPlan(t)
  PROVE  ~Landed(t)'
<1>1. txs'[t][Len(txs'[t])].status = "pending"
  BY SentTxs
<1>2. QED
  BY <1>1 DEF Landed

(* Only a write to its environment moves a train's pointer.                *)
LEMMA ReleasingStays ==
  ASSUME NEW u \in Trains, Releasing(u), tags'[plan[u].env] = tags[plan[u].env],
         pc'[u] = pc[u], job'[u] = job[u], plan'[u] = plan[u], txs'[u] = txs[u]
  PROVE  Releasing(u)'
  BY DEF Releasing, BeforeLanding, Landed, ChainsOn, OnProduction

(* The classifier composes a release on top of the pointer.                *)
LEMMA ComposesOnTop ==
  ASSUME ~ReadsMayFail, KVTypeOK, MemoryOK, NEW t \in Trains, Sending(t),
         Composes(t), UNCHANGED kv
  PROVE  ChainsOn(plan[t])'
<1> DEFINE e == job[t].env
           pointer == Latest(tags[e])
           v == job[t].version
           r == ComposeRecord(t, pointer)
<1>1. plan'[t] = [plan[t] EXCEPT !.version = v, !.record = r]
      /\ ManifestOwed(pointer, v)
  BY DEF Composes, FetchRegistryKey
<1>2. pc[t] \in Running /\ plan[t] \in Write /\ e \in Envs /\ plan[t].env = e
  BY DEF Composes, Running, MemoryOK, Job, WriteSound, Sending
<1>3. tags[e] \in Seq(Tag)
  BY <1>2 DEF KVTypeOK
<1>4. ASSUME tags[e] # <<>>
      PROVE  /\ pointer # Null /\ pointer.version < v
             /\ r.floor = FromCutover(pointer.version)
  <2>1. pointer # Null
    BY <1>3, <1>4, LatestType, NullAssumption
  <2>2. QED
    BY <1>1, <2>1 DEF ManifestOwed, ComposeRecord
<1> HIDE DEF r, v, pointer
<1>5. plan'[t].env = e /\ plan'[t].version = v /\ plan'[t].record = r
  BY <1>1, <1>2, ReleaseLegOnly
<1> HIDE DEF e
<1>6. QED
  BY <1>4, <1>5 DEF ChainsOn, kv, pointer

(* A wait that no landing overtakes is given up before anything landed.    *)
LEMMA GivenUpUnlanded ==
  ASSUME ~LateLanding, NEW t \in Trains, GivesUp(t)
  PROVE  ~Landed(t) /\ BeforeLanding(t)
  BY DEF GivesUp, JudgesLast, TxTerminal, Landed, BeforeLanding

LEMMA ReleasingStep ==
  ASSUME ~ReadsMayFail, ~LateLanding, KVTypeOK, MemoryOK, TxsOK, NEW t \in Trains,
         Sending(t), Releasing(t), Starts(t) \/ Effect(t), UNCHANGED kv
  PROVE  Releasing(t)'
<1>1. CASE Starts(t)
  BY <1>1 DEF Starts, Releasing
<1>2. CASE Moves(t) \/ Verifies(t)
  <2>1. plan'[t] = plan[t] /\ txs'[t] = txs[t] /\ job'[t] = job[t]
    BY <1>2 DEF Moves, Verifies, Remembers, SameTxs
  <2>2. BeforeLanding(t)' => BeforeLanding(t) /\ pc'[t] \in Running
    BY <1>2, <2>1 DEF Moves, Verifies, BeforeLanding, BeforeSubmit, Landed, Running
  <2>3. /\ pc'[t] \in {"gates", "classify"} => pc[t] \in {"gates", "classify"}
        /\ pc'[t] = "classify" => job[t].env = SessionEnv
    BY <1>2 DEF Moves, Verifies
  <2>4. QED
    BY <2>1, <2>2, <2>3 DEF Releasing, ChainsOn, OnProduction, Running, kv
<1>3. CASE Composes(t)
  <2>1. OnProduction(t)'
    BY <1>3 DEF Composes, Releasing, OnProduction, Running
  <2>2. QED
    BY <1>3, <2>1, ComposesOnTop DEF Composes, Releasing
<1>4. CASE Submits(t) \/ Resends(t) \/ GivesUp(t)
  <2>1. /\ plan'[t] = plan[t] /\ pc'[t] \in {"confirm", "resubmit"}
        /\ job'[t] = job[t]
    BY <1>4 DEF Submits, Resends, GivesUp, Remembers
  <2>2. BeforeLanding(t)
    BY <1>4, GivenUpUnlanded DEF Submits, Resends, BeforeLanding, BeforeSubmit
  <2>3. QED
    BY <2>1, <2>2 DEF Releasing, ChainsOn, OnProduction, Running, kv
<1>5. CASE Reports(t) \/ Succeeds(t) \/ Fails(t)
  BY <1>5 DEF Reports, Succeeds, Fails, Releasing, BeforeLanding, BeforeSubmit
<1>6. CASE Recovers(t)
  BY <1>6, RecoverPlan DEF Recovers, Releasing
<1>7. QED
  BY <1>1, <1>2, <1>3, <1>4, <1>5, <1>6 DEF Effect

(* A landing leaves the registry of other environments alone.              *)
LEMMA LandsAtHome ==
  ASSUME ~LateLanding, ProductionSerial, KVTypeOK, MemoryOK, TxsOK, AllSending,
         NEW t \in Trains, Land(t), NEW u \in Trains, u # t, OnProduction(u)
  PROVE  configs'[SessionEnv] = configs[SessionEnv]
         /\ tags'[SessionEnv] = tags[SessionEnv]
<1>1. pc[t] = "confirm" /\ WriteSound(plan[t]) /\ Apply(plan[t])
  BY AwaitedLands DEF AllSending
<1>2. plan[t].env = job[t].env /\ pc[t] \in Running
  BY <1>1 DEF AllSending, Sending, Running
<1>3. plan[t].env # SessionEnv
  BY <1>2 DEF ProductionSerial, OnProduction
<1> DEFINE w == plan[t]
<1>4. /\ w.env \in Envs
      /\ configs' = [configs EXCEPT ![w.env] = Append(configs[w.env], w.config)]
      /\ w.version = Null => tags' = tags
      /\ w.version # Null =>
           tags' = [tags EXCEPT ![w.env] = Append(tags[w.env], TagEntry(w))]
  BY <1>1, ApplyCases, Zenon
<1> HIDE DEF w
<1>5. QED
  BY <1>3, <1>4, EnvsAssumption DEF KVTypeOK, SessionEnv, w

LEMMA ReleaseNext ==
  ASSUME Reliable, ProductionSerial, Inv, SendingInv, AllReleasing, [Next]_vars
  PROVE  AllReleasing'
<1> USE DEF Inv, SendingInv, Reliable
<1>1. CASE UNCHANGED vars
  <2>1. UNCHANGED kv /\ UNCHANGED <<pc, job, plan, txs>>
    BY <1>1 DEF vars, memory
  <2>2. QED
    BY <2>1, ReleasingStays DEF AllReleasing, kv
<1>2. CASE Next
  <2>1. PICK t \in Trains :
          /\ \/ Starts(t) /\ UNCHANGED kv
             \/ Effect(t) /\ UNCHANGED kv
             \/ Land(t)
          /\ \A u \in Trains \ {t} : pc'[u] = pc[u] /\ Remembers(u) /\ SameTxs(u)
    BY <1>2, NextEffects
  <2>2. CASE Land(t)
    <3>1. ASSUME NEW u \in Trains, u # t, OnProduction(u)
          PROVE  Releasing(u)'
      <4>1. tags'[plan[u].env] = tags[plan[u].env]
        BY <2>2, <3>1, LandsAtHome DEF OnProduction, AllSending, Sending
      <4>2. QED
        BY <2>1, <3>1, <4>1, ReleasingStays DEF AllReleasing, Remembers, SameTxs
    <3>2. ASSUME NEW u \in Trains, u # t, ~OnProduction(u)
          PROVE  Releasing(u)'
      BY <2>1, <3>2
         DEF AllReleasing, Releasing, BeforeLanding, Landed, OnProduction,
             Remembers, SameTxs
    <3>3. Releasing(t)'
      <4>1. pc'[t] = "confirm" /\ Landed(t)'
        BY <2>2, AwaitedLands, LandRemembers DEF AllSending
      <4>2. QED
        BY <4>1 DEF Releasing, BeforeLanding, BeforeSubmit
    <3>4. QED
      BY <3>1, <3>2, <3>3 DEF AllReleasing
  <2>3. CASE (Starts(t) \/ Effect(t)) /\ UNCHANGED kv
    <3>1. ASSUME NEW u \in Trains, u # t PROVE Releasing(u)'
      BY <2>1, <2>3, <3>1, ReleasingStays DEF AllReleasing, Remembers, SameTxs, kv
    <3>2. Releasing(t)'
      BY <2>3, ReleasingStep DEF AllReleasing, AllSending
    <3>3. QED
      BY <3>1, <3>2 DEF AllReleasing
  <2>4. QED
    BY <2>1, <2>2, <2>3
<1>3. QED
  BY <1>1, <1>2

LEMMA ReleaseInvariance ==
  ASSUME Reliable
  PROVE  Spec /\ []ProductionSerial => []AllReleasing
<1>1. Init => AllReleasing
  BY DEF Init, AllReleasing, Releasing, BeforeLanding, BeforeSubmit
<1>2. ProductionSerial /\ Inv /\ SendingInv /\ AllReleasing /\ [Next]_vars
        => AllReleasing'
  BY ReleaseNext
<1>3. QED
  BY <1>1, <1>2, Invariance, SendingInvariance, PTL DEF Spec

(* The tags move when a release lands, to the release and on from where    *)
(* they were.                                                              *)
LEMMA TagsMove ==
  ASSUME Reliable, Inv, SendingInv, AllReleasing, [Next]_vars, tags' # tags
  PROVE  \E w : /\ WriteSound(w) /\ Apply(w) /\ ChainsOn(w) /\ w.version # Null
                /\ tags' = [tags EXCEPT ![w.env] = Append(tags[w.env], TagEntry(w))]
<1> USE DEF Inv, SendingInv, Reliable
<1>1. PICK t \in Trains : Land(t)
  BY NextEffects DEF vars, kv
<1>2. WriteSound(plan[t]) /\ Apply(plan[t]) /\ BeforeLanding(t)
  BY <1>1, AwaitedLands DEF AllSending
<1>3. plan[t].version # Null
  BY <1>2, ApplyCases
<1>4. ChainsOn(plan[t])
  BY <1>2, <1>3 DEF AllReleasing, Releasing
<1>5. QED
  BY <1>2, <1>3, <1>4, ApplyCases

LEMMA FloorsChainNext ==
  ASSUME Reliable, Inv, SendingInv, AllReleasing, FloorsChain, [Next]_vars
  PROVE  FloorsChain'
<1>1. CASE tags' = tags
  BY <1>1 DEF FloorsChain
<1>2. CASE tags' # tags
  <2>1. PICK w : /\ WriteSound(w) /\ ChainsOn(w) /\ w.version # Null
                 /\ tags' = [tags EXCEPT ![w.env] = Append(tags[w.env], TagEntry(w))]
    BY <1>2, TagsMove
  <2>2. /\ w.env \in Envs /\ TagEntry(w) \in Tag
        /\ TagEntry(w).digest = w.record
    BY <2>1, TagEntryType DEF WriteSound, Write
  <2>3. ASSUME NEW e \in Envs, NEW i \in 2 .. Len(tags'[e])
        PROVE  tags'[e][i].digest.floor = FromCutover(tags'[e][i - 1].version)
    <3>1. tags[e] \in Seq(Tag)
      BY DEF Inv, KVTypeOK
    <3>2. CASE e # w.env
      <4>1. tags'[e] = tags[e]
        BY <2>1, <3>2 DEF Inv, KVTypeOK
      <4>2. QED
        BY <2>3, <4>1 DEF FloorsChain
    <3>3. CASE e = w.env
      <4> DEFINE n == Len(tags[e])
      <4>1. tags'[e] = Append(tags[e], TagEntry(w))
        BY <2>1, <3>3 DEF Inv, KVTypeOK
      <4>2. /\ n \in Nat /\ Len(tags'[e]) = n + 1
            /\ \A j \in 1 .. n : tags'[e][j] = tags[e][j]
            /\ tags'[e][n + 1] = TagEntry(w)
        BY <2>2, <3>1, <4>1, AppendProperties, LenProperties
      <4> HIDE DEF n
      <4>3. CASE i = n + 1
        <5>1. n \in 1 .. n /\ i - 1 = n
          BY <2>3, <4>2, <4>3
        <5>2. tags[e] # <<>> /\ Latest(tags[e]) = tags[e][n]
          <6>1. Len(<<>>) = 0 /\ n # 0
            BY <5>1
          <6>2. tags[e] # <<>>
            BY <6>1 DEF n
          <6>3. QED
            BY <6>2 DEF Latest, n
        <5>3. w.record.floor = FromCutover(tags[e][n].version)
          BY <2>1, <3>3, <5>2 DEF ChainsOn
        <5>4. QED
          BY <2>2, <4>2, <4>3, <5>1, <5>3
      <4>4. CASE i # n + 1
        <5>1. i \in 2 .. n /\ i \in 1 .. n /\ i - 1 \in 1 .. n
          BY <2>3, <4>2, <4>4
        <5>2. tags[e][i].digest.floor = FromCutover(tags[e][i - 1].version)
          BY <5>1 DEF FloorsChain, n
        <5>3. QED
          BY <4>2, <5>1, <5>2
      <4>5. QED
        BY <4>3, <4>4
    <3>4. QED
      BY <3>2, <3>3
  <2>4. QED
    BY <2>3 DEF FloorsChain
<1>3. QED
  BY <1>1, <1>2

(* Releases chain: each compat floor is the version served before it, as   *)
(* long as production deploys take turns and reads answer; staging and     *)
(* kills may do what they like.                                            *)
THEOREM ReleasesChain ==
  ASSUME Reliable
  PROVE  Spec /\ []ProductionSerial => []FloorsChain
<1>1. Init => FloorsChain
  BY DEF Init, FloorsChain
<1>2. Inv /\ SendingInv /\ AllReleasing /\ FloorsChain /\ [Next]_vars => FloorsChain'
  BY FloorsChainNext
<1>3. QED
  BY <1>1, <1>2, Invariance, SendingInvariance, ReleaseInvariance, PTL DEF Spec

(* Under the same conditions no deploy moves the release pointer back,     *)
(* from however old a checkout.                                            *)
THEOREM PointerOnlyForward ==
  ASSUME Reliable
  PROVE  Spec /\ []ProductionSerial => TagOnlyForward
<1> DEFINE Forward == \A e \in Envs : tags[e] # <<>> /\ tags'[e] # tags[e] =>
                        Latest(tags[e]).version < Latest(tags[e])'.version
<1>1. Inv /\ SendingInv /\ AllReleasing /\ [Next]_vars => [Forward]_vars
  <2> SUFFICES ASSUME Inv, SendingInv, AllReleasing, Next, NEW e \in Envs,
                      tags[e] # <<>>, tags'[e] # tags[e]
               PROVE  Latest(tags[e]).version < Latest(tags'[e]).version
    OBVIOUS
  <2>1. PICK w : /\ WriteSound(w) /\ Apply(w) /\ ChainsOn(w) /\ w.version # Null
                 /\ tags' = [tags EXCEPT ![w.env] = Append(tags[w.env], TagEntry(w))]
    BY TagsMove
  <2>2. e = w.env
    BY <2>1 DEF Inv, KVTypeOK
  <2>3. Latest(tags'[e]) = TagEntry(w) /\ TagEntry(w).version = w.version
    BY <2>1, <2>2, ApplyLatest, TagEntryType DEF Inv
  <2>4. QED
    BY <2>1, <2>2, <2>3 DEF ChainsOn
<1>2. QED
  BY <1>1, Invariance, SendingInvariance, ReleaseInvariance, PTL
     DEF Spec, TagOnlyForward

-----------------------------------------------------------------------------
(* A red boot gate restores what was live.                                 *)

(* The value before the latest one of a history.                           *)
PrevOf(h) == IF Len(h) > 1 THEN h[Len(h) - 1] ELSE Null

(* Until its publish lands the environment serves what was live when the   *)
(* train started, and not yet what it plans; afterwards what was live is   *)
(* the previous snapshot; and what a recovery publishes is what was live.  *)
Restoring(t) ==
  /\ BeforeLanding(t) /\ ~recovering[t] => Latest(configs[job[t].env]) = prior[t]
  /\ pc[t] \in {"submit", "resubmit"} \/ (pc[t] = "confirm" /\ ~Landed(t))
       => Latest(configs[plan[t].env]) # plan[t].config
  /\ pc[t] = "confirm" /\ Landed(t) /\ ~recovering[t]
       => PrevOf(configs[job[t].env]) = prior[t]
  /\ pc[t] \in PostPublish /\ txs[t] # <<>>
       => PrevOf(configs[job[t].env]) = prior[t]
  /\ pc[t] = "confirm" /\ "runtimeConfig" \in verified[t]
       => Latest(configs[plan[t].env]) = plan[t].config
  /\ recovering[t] /\ BroadcastOwn(t) /\ job[t].env = SessionEnv
       => prior[t] # Null /\ plan[t].config.base = prior[t].base

AllRestoring == \A t \in Trains : OnProduction(t) => Restoring(t)

(* Appending makes the latest value the previous one.                      *)
LEMMA PrevAppend ==
  ASSUME NEW S, NEW h \in Seq(S), NEW x \in S
  PROVE  PrevOf(Append(h, x)) = Latest(h)
<1>1. /\ Len(h) \in Nat /\ Len(Append(h, x)) = Len(h) + 1
      /\ \A i \in 1 .. Len(h) : Append(h, x)[i] = h[i]
  BY AppendProperties, LenProperties
<1>2. CASE h = <<>>
  <2>1. Len(h) = 0
    BY <1>2
  <2>2. QED
    BY <1>1, <1>2, <2>1 DEF PrevOf, Latest
<1>3. CASE h # <<>>
  <2>1. Len(h) > 0
    BY <1>3, EmptySeq
  <2>2. Len(h) \in 1 .. Len(h) /\ Len(h) + 1 > 1 /\ (Len(h) + 1) - 1 = Len(h)
    BY <1>1, <2>1
  <2>3. QED
    BY <1>1, <1>3, <2>2 DEF PrevOf, Latest
<1>4. QED
  BY <1>2, <1>3

(* The second entry of a page read newest first is the previous value.     *)
LEMMA PreviousOfPage ==
  ASSUME ~ReadsMayFail, NEW S, NEW h \in Seq(S),
         NEW page \in FetchConfigHistory(h)
  PROVE  PreviousSnapshot(page) = PrevOf(h)
<1>1. page = Reverse(h)
  BY DEF FetchConfigHistory
<1>2. /\ Len(h) \in Nat /\ Len(page) = Len(h)
      /\ \A i \in 1 .. Len(h) : page[i] = h[(Len(h) - i) + 1]
  BY <1>1, LenProperties DEF Reverse
<1>3. CASE Len(h) > 1
  <2>1. 2 \in 1 .. Len(h) /\ (Len(h) - 2) + 1 = Len(h) - 1
    BY <1>2, <1>3
  <2>2. page[2] = h[Len(h) - 1]
    BY <1>2, <2>1
  <2>3. QED
    BY <1>2, <1>3, <2>2 DEF PreviousSnapshot, PrevOf
<1>4. QED
  BY <1>2, <1>3 DEF PreviousSnapshot, PrevOf

(* A recovery's own broadcasts carry its stamp.                            *)
LEMMA RecoveryStamped ==
  ASSUME TxsOK, NEW t \in Trains, WriteSound(plan[t]), SendsPlan(t), Sending(t),
         recovering[t]
  PROVE  BroadcastOwn(t)' => BroadcastOwn(t)
<1> SUFFICES ASSUME NEW i \in 1 .. Len(txs'[t]),
                    txs'[t][i].write.config.rolledBackFrom # t
             PROVE  BroadcastOwn(t)
  BY DEF BroadcastOwn
<1>1. i \in 1 .. Len(txs[t]) \/ i = Len(txs[t]) + 1
  BY SentTxs
<1>2. i # Len(txs[t]) + 1
  BY SentTxs DEF Sending
<1>3. QED
  BY <1>1, <1>2, SentTxs DEF BroadcastOwn

LEMMA RestoringStays ==
  ASSUME NEW u \in Trains, OnProduction(u), Restoring(u),
         plan[u].env = SessionEnv, configs'[SessionEnv] = configs[SessionEnv],
         pc'[u] = pc[u], Remembers(u), SameTxs(u)
  PROVE  Restoring(u)'
<1>1. /\ job'[u] = job[u] /\ plan'[u] = plan[u] /\ verified'[u] = verified[u]
      /\ recovering'[u] = recovering[u] /\ prior'[u] = prior[u]
      /\ txs'[u] = txs[u] /\ job[u].env = SessionEnv
  BY DEF Remembers, SameTxs, OnProduction
<1>2. /\ Landed(u)' <=> Landed(u)
      /\ BeforeLanding(u)' <=> BeforeLanding(u)
      /\ BroadcastOwn(u)' <=> BroadcastOwn(u)
  BY <1>1 DEF Landed, BeforeLanding, BroadcastOwn
<1>3. SessionEnv' = SessionEnv
  BY DEF SessionEnv
<1>4. QED
  BY <1>1, <1>2, <1>3 DEF Restoring

(* The landing of what a train waits for.                                  *)
LEMMA RestoringLands ==
  ASSUME ~LateLanding, KVTypeOK, MemoryOK, TxsOK, NEW t \in Trains,
         Sending(t), Restoring(t), Land(t)
  PROVE  Restoring(t)'
<1>1. /\ pc[t] = "confirm" /\ BeforeLanding(t) /\ Landed(t)'
      /\ WriteSound(plan[t]) /\ Apply(plan[t])
  BY AwaitedLands
<1>2. pc'[t] = pc[t] /\ Remembers(t)
  BY LandRemembers
<1>3. plan[t].env = job[t].env /\ job[t].env \in Envs
  BY <1>1 DEF Sending, Running, WriteSound, Write
<1> DEFINE e == job[t].env
<1>4. Latest(configs'[e]) = plan[t].config
  BY <1>1, <1>3, ApplyLatest
<1>5. PrevOf(configs'[e]) = Latest(configs[e])
  <2>1. /\ plan[t].config \in Config /\ configs[e] \in Seq(Config)
        /\ configs' = [configs EXCEPT ![e] = Append(configs[e], plan[t].config)]
    BY <1>1, <1>3, ApplyCases, Zenon DEF KVTypeOK
  <2>2. configs'[e] = Append(configs[e], plan[t].config)
    BY <1>3, <2>1 DEF KVTypeOK
  <2>3. QED
    BY <2>1, <2>2, PrevAppend
<1>6. BroadcastOwn(t)' => BroadcastOwn(t)
  BY LandEffect DEF Lands, BroadcastOwn
<1>7. ~BeforeLanding(t)' /\ pc'[t] = "confirm" /\ pc'[t] \notin PostPublish
  BY <1>1, <1>2 DEF BeforeLanding, BeforeSubmit, PostPublish
<1>8. /\ job'[t] = job[t] /\ plan'[t] = plan[t] /\ verified'[t] = verified[t]
      /\ recovering'[t] = recovering[t] /\ prior'[t] = prior[t]
  BY <1>2 DEF Remembers
<1>9. QED
  BY <1>1, <1>3, <1>4, <1>5, <1>6, <1>7, <1>8 DEF Restoring

(* A publish that counts is live; if the train broadcast it, what was live *)
(* is the previous snapshot.                                               *)
LEMMA CountedIsLive ==
  ASSUME NEW t \in Trains, Sending(t), Restoring(t), Counts(t)
  PROVE  /\ Latest(configs[plan[t].env]) = plan[t].config
         /\ ~recovering[t] /\ txs[t] # <<>> =>
              PrevOf(configs[job[t].env]) = prior[t]
<1>1. CASE pc[t] = "publish" /\ Latest(configs[plan[t].env]) = plan[t].config
  BY <1>1 DEF Sending, BeforeSubmit
<1>2. CASE pc[t] = "confirm" /\ AllVerified(t)
  <2>1. "runtimeConfig" \in verified[t]
    BY <1>2 DEF AllVerified, Legs, LegKinds
  <2>2. QED
    BY <1>2, <2>1 DEF Restoring
<1>3. QED
  BY <1>1, <1>2 DEF Counts

(* The recovery picks what was live.                                       *)
LEMMA RecoversPrior ==
  ASSUME ~ReadsMayFail, KVTypeOK, MemoryOK, NEW t \in Trains, Sending(t),
         Restoring(t), Recovers(t), BroadcastOwn(t), job[t].env = SessionEnv
  PROVE  prior[t] # Null /\ plan'[t].config.base = prior[t].base
<1>1. PICK history \in FetchConfigHistory(configs[SessionEnv]) :
        /\ PreviousSnapshot(history) # Null
        /\ plan'[t].config.base = PreviousSnapshot(history).base
  BY RecoverPlan
<1>2. configs[SessionEnv] \in Seq(Config)
  BY EnvsAssumption DEF KVTypeOK, SessionEnv
<1>3. PreviousSnapshot(history) = PrevOf(configs[SessionEnv])
  BY <1>2, PreviousOfPage
<1>4. txs[t] # <<>>
  <2>1. Len(<<>>) = 0
    OBVIOUS
  <2>2. QED
    BY <2>1 DEF BroadcastOwn
<1>5. PrevOf(configs[SessionEnv]) = prior[t]
  BY <1>4 DEF Recovers, Restoring, PostPublish
<1>6. QED
  BY <1>1, <1>3, <1>5

LEMMA RestoringStarts ==
  ASSUME NEW t \in Trains, Sending(t), Starts(t), UNCHANGED kv
  PROVE  Restoring(t)'
<1>1. /\ pc'[t] = "gates" /\ ~recovering'[t]
      /\ prior'[t] = Latest(configs[job'[t].env])
  BY DEF Starts, MayStart, Sending, Running
<1>2. QED
  BY <1>1 DEF Restoring, PostPublish, kv

LEMMA RestoringStep ==
  ASSUME ~ReadsMayFail, ~LateLanding, KVTypeOK, MemoryOK, TxsOK, NEW t \in Trains, Sending(t),
         ReadBack(t), Restoring(t), Effect(t), UNCHANGED kv
  PROVE  Restoring(t)'
<1> USE DEF kv
<1>1. CASE Moves(t)
  <2>1. /\ job'[t] = job[t] /\ plan'[t] = plan[t] /\ prior'[t] = prior[t]
        /\ recovering'[t] = recovering[t] /\ txs'[t] = txs[t]
    BY <1>1 DEF Moves, Remembers, SameTxs
  <2>2. /\ BeforeLanding(t)' => BeforeLanding(t)
        /\ BroadcastOwn(t)' => BroadcastOwn(t)
        /\ pc'[t] \notin {"confirm", "resubmit"}
        /\ pc'[t] \in PostPublish => pc[t] \in PostPublish
    BY <1>1, <2>1
       DEF Moves, BeforeLanding, BeforeSubmit, BroadcastOwn, PostPublish
  <2>3. pc'[t] = "submit" => Latest(configs[plan[t].env]) # plan[t].config
    BY <1>1 DEF Moves
  <2>4. QED
    BY <2>1, <2>2, <2>3 DEF Restoring
<1>2. CASE Composes(t)
  <2>1. /\ job'[t] = job[t] /\ prior'[t] = prior[t] /\ pc'[t] = "record"
        /\ recovering'[t] = recovering[t] /\ txs'[t] = txs[t] /\ BeforeLanding(t)
    BY <1>2 DEF Composes, SameTxs, BeforeLanding, BeforeSubmit
  <2>2. plan'[t].config = plan[t].config
    BY <1>2, SameTarget
  <2>3. BroadcastOwn(t)' => BroadcastOwn(t)
    BY <2>1 DEF BroadcastOwn
  <2>4. QED
    BY <2>1, <2>2, <2>3 DEF Restoring, PostPublish
<1>3. CASE Submits(t) \/ Resends(t)
  <2>1. /\ job'[t] = job[t] /\ plan'[t] = plan[t] /\ prior'[t] = prior[t]
        /\ recovering'[t] = recovering[t] /\ verified'[t] = {}
        /\ pc'[t] = "confirm" /\ SendsPlan(t)
        /\ pc[t] \in {"submit", "resubmit"}
    BY <1>3 DEF Submits, Resends, Remembers, ReadBack
  <2>2. WriteSound(plan[t])
    BY <2>1 DEF MemoryOK, Running
  <2>3. ~Landed(t)' /\ BeforeLanding(t)
    BY <2>1, <2>2, SentNotLanded DEF BeforeLanding, BeforeSubmit
  <2>4. recovering[t] /\ BroadcastOwn(t)' => BroadcastOwn(t)
    BY <2>1, <2>2, RecoveryStamped
  <2>5. QED
    BY <2>1, <2>3, <2>4 DEF Restoring, PostPublish
<1>4. CASE Verifies(t)
  <2>1. /\ job'[t] = job[t] /\ plan'[t] = plan[t] /\ prior'[t] = prior[t]
        /\ recovering'[t] = recovering[t] /\ txs'[t] = txs[t]
        /\ pc[t] = "confirm" /\ pc'[t] = "confirm"
    BY <1>4 DEF Verifies, SameTxs
  <2>2. "runtimeConfig" \in verified'[t] =>
          Latest(configs[plan[t].env]) = plan[t].config
    BY <1>4, <2>1 DEF Verifies, Restoring, LegServed
  <2>3. /\ Landed(t)' <=> Landed(t)
        /\ BeforeLanding(t)' <=> BeforeLanding(t)
        /\ BroadcastOwn(t)' <=> BroadcastOwn(t)
    BY <2>1 DEF Landed, BeforeLanding, BroadcastOwn
  <2>4. QED
    BY <2>1, <2>2, <2>3 DEF Restoring, PostPublish
<1>5. CASE Reports(t)
  <2>1. /\ Counts(t) /\ ~recovering[t] /\ ~recovering'[t] /\ pc'[t] = "image"
        /\ job'[t] = job[t] /\ prior'[t] = prior[t] /\ txs'[t] = txs[t]
    BY <1>5 DEF Reports, SameTxs
  <2>2. QED
    BY <2>1, CountedIsLive DEF Restoring, BeforeLanding, BeforeSubmit
<1>6. CASE Succeeds(t) \/ Fails(t)
  BY <1>6 DEF Succeeds, Fails, Forgets, Restoring, BeforeLanding, BeforeSubmit,
              PostPublish
<1>7. CASE Recovers(t)
  <2>1. /\ pc'[t] = "gates" /\ recovering'[t] /\ job'[t] = job[t]
        /\ prior'[t] = prior[t] /\ txs'[t] = txs[t]
    BY <1>7 DEF Recovers, SameTxs
  <2>2. BroadcastOwn(t)' => BroadcastOwn(t)
    BY <2>1 DEF BroadcastOwn
  <2>3. QED
    BY <1>7, <2>1, <2>2, RecoversPrior DEF Restoring, PostPublish
<1>8. CASE GivesUp(t)
  <2>1. /\ job'[t] = job[t] /\ plan'[t] = plan[t] /\ prior'[t] = prior[t]
        /\ recovering'[t] = recovering[t] /\ verified'[t] = {}
        /\ pc'[t] = "resubmit" /\ pc[t] = "confirm" /\ Relabels(t)
    BY <1>8, MarksRelabel DEF GivesUp
  <2>2. ~Landed(t) /\ BeforeLanding(t)
    BY <1>8, GivenUpUnlanded
  <2>3. BroadcastOwn(t)' => BroadcastOwn(t)
    BY <2>1 DEF Relabels, BroadcastOwn
  <2>4. QED
    BY <2>1, <2>2, <2>3 DEF Restoring, PostPublish
<1>9. QED
  BY <1>1, <1>2, <1>3, <1>4, <1>5, <1>6, <1>7, <1>8 DEF Effect

LEMMA RestoringNext ==
  ASSUME Reliable, ProductionSerial, Inv, SendingInv, AllReadBack, AllRestoring,
         [Next]_vars
  PROVE  AllRestoring'
<1> USE DEF Inv, SendingInv, Reliable
<1>1. \A u \in Trains : OnProduction(u) => plan[u].env = SessionEnv
  BY DEF AllSending, Sending, OnProduction
<1>2. CASE UNCHANGED vars
  <2>1. UNCHANGED kv /\ UNCHANGED <<pc, job, plan, verified, retried, recovering, prior, txs>>
    BY <1>2 DEF vars, memory
  <2>2. QED
    BY <1>1, <2>1, RestoringStays
       DEF AllRestoring, OnProduction, SessionEnv, Remembers, SameTxs, kv
<1>3. CASE Next
  <2>1. PICK t \in Trains :
          /\ \/ Starts(t) /\ UNCHANGED kv
             \/ Effect(t) /\ UNCHANGED kv
             \/ Land(t)
          /\ \A u \in Trains \ {t} : pc'[u] = pc[u] /\ Remembers(u) /\ SameTxs(u)
    BY <1>3, NextEffects
  <2>2. ASSUME NEW u \in Trains, u # t, OnProduction(u)'
        PROVE  Restoring(u)'
    <3>1. OnProduction(u)
      BY <2>1, <2>2 DEF OnProduction, Remembers, SessionEnv
    <3>2. configs'[SessionEnv] = configs[SessionEnv]
      BY <2>1, <2>2, <3>1, LandsAtHome DEF kv
    <3>3. QED
      BY <1>1, <2>1, <2>2, <3>1, <3>2, RestoringStays DEF AllRestoring
  <2>3. ASSUME OnProduction(t)'
        PROVE  Restoring(t)'
    <3>1. CASE Land(t)
      <4>1. OnProduction(t)
        BY <2>3, <3>1, LandRemembers DEF OnProduction, Remembers, SessionEnv
      <4>2. QED
        BY <3>1, <4>1, RestoringLands DEF AllSending, AllRestoring
    <3>2. CASE Starts(t) /\ UNCHANGED kv
      BY <3>2, RestoringStarts DEF AllSending
    <3>3. CASE Effect(t) /\ UNCHANGED kv
      <4>1. job'[t] = job[t]
        BY <2>3, <3>3
           DEF OnProduction, Effect, Moves, Composes, Submits, Resends, GivesUp, Verifies,
               Reports, Succeeds, Fails, Recovers, Remembers, Running
      <4>2. OnProduction(t)
        BY <2>3, <3>3, <4>1, EffectRuns DEF OnProduction, SessionEnv
      <4>3. QED
        BY <3>3, <4>2, RestoringStep DEF AllSending, AllReadBack, AllRestoring
    <3>4. QED
      BY <2>1, <3>1, <3>2, <3>3
  <2>4. QED
    BY <2>2, <2>3 DEF AllRestoring
<1>4. QED
  BY <1>2, <1>3

LEMMA RestoringInvariance ==
  ASSUME Reliable
  PROVE  Spec /\ []ProductionSerial => []AllRestoring
<1>1. Init => AllRestoring
  BY DEF Init, AllRestoring, OnProduction, Running
<1>2. ProductionSerial /\ Inv /\ SendingInv /\ AllReadBack /\ AllRestoring
        /\ [Next]_vars => AllRestoring'
  BY RestoringNext
<1>3. QED
  BY <1>1, <1>2, Invariance, SendingInvariance, ReadBackInvariance, PTL DEF Spec

(* The step that ends a recovery.                                          *)
LEMMA RecoveryEnds ==
  ASSUME Inv, SendingInv, AllRestoring, Next, NEW t \in Trains, RollsBack(t),
         BroadcastOwn(t), job[t].env = SessionEnv
  PROVE  /\ prior[t] # Null
         /\ Latest(configs[job[t].env]).base = prior[t].base
<1> USE DEF Inv, SendingInv
<1>1. PICK u \in Trains :
        /\ Starts(u) \/ Effect(u) \/ Land(u)
        /\ \A x \in Trains \ {u} : pc'[x] = pc[x]
  BY NextEffects
<1>2. u = t /\ ~Land(t)
  BY <1>1, LandRemembers DEF RollsBack
<1>3. Counts(t) /\ recovering[t]
  BY <1>1, <1>2
     DEF RollsBack, Starts, Effect, Moves, Composes, Submits, Resends, GivesUp, Verifies,
         Reports, Succeeds, Fails, Recovers
<1>4. OnProduction(t)
  BY <1>3 DEF Counts, OnProduction, Running
<1>5. /\ Latest(configs[plan[t].env]) = plan[t].config
      /\ prior[t] # Null /\ plan[t].config.base = prior[t].base
  BY <1>3, <1>4, CountedIsLive DEF AllSending, AllRestoring, Restoring
<1>6. plan[t].env = job[t].env
  BY <1>3 DEF Counts, AllSending, Sending, Running
<1>7. QED
  BY <1>5, <1>6

(* What a red boot gate guarantees with any environments: in the one whose *)
(* history the protocol reads, the content from before the train.          *)
RestoresPrior ==
  [][\A t \in Trains : RollsBack(t) /\ BroadcastOwn(t) /\ job[t].env = SessionEnv =>
       /\ prior[t] # Null
       /\ Latest(configs[job[t].env]).base = prior[t].base]_vars

(* The recovery of a red production train puts back what was live, as long *)
(* as production deploys take turns and reads answer (rollback-flow.ts).   *)
THEOREM ProductionRestored ==
  ASSUME Reliable
  PROVE  Spec /\ []ProductionSerial => RestoresPrior
<1> DEFINE Restored == \A t \in Trains :
      RollsBack(t) /\ BroadcastOwn(t) /\ job[t].env = SessionEnv =>
        /\ prior[t] # Null
        /\ Latest(configs[job[t].env]).base = prior[t].base
<1>1. Inv /\ SendingInv /\ AllRestoring /\ [Next]_vars => [Restored]_vars
  BY RecoveryEnds
<1>2. QED
  BY <1>1, Invariance, SendingInvariance, RestoringInvariance, PTL
     DEF Spec, RestoresPrior

(* Where production is the only environment, every recovery does.          *)
THEOREM RedRestores ==
  ASSUME Reliable, Envs = {"production"}
  PROVE  Spec /\ []ProductionSerial => RedRestoresPrior
<1> DEFINE Restored == \A t \in Trains :
      RollsBack(t) /\ BroadcastOwn(t) =>
        /\ prior[t] # Null
        /\ Latest(configs[job[t].env]).base = prior[t].base
<1>1. Inv /\ SendingInv /\ AllRestoring /\ [Next]_vars => [Restored]_vars
  <2> SUFFICES ASSUME Inv, SendingInv, AllRestoring, Next, NEW t \in Trains,
                      RollsBack(t), BroadcastOwn(t)
               PROVE  /\ prior[t] # Null
                      /\ Latest(configs[job[t].env]).base = prior[t].base
    OBVIOUS
  <2>1. job[t].env = SessionEnv
    <3>1. PICK u \in Trains :
            /\ Starts(u) \/ Effect(u) \/ Land(u)
            /\ \A x \in Trains \ {u} : pc'[x] = pc[x]
      BY NextEffects
    <3>2. u = t /\ Effect(t)
      BY <3>1, LandRemembers DEF RollsBack, Starts, Inv
    <3>3. job[t] \in Job
      BY <3>2, EffectRuns DEF Inv, MemoryOK
    <3>4. QED
      BY <3>3 DEF Job, SessionEnv
  <2>2. QED
    BY <2>1, RecoveryEnds
<1>2. QED
  BY <1>1, Invariance, SendingInvariance, RestoringInvariance, PTL
     DEF Spec, RedRestoresPrior

-----------------------------------------------------------------------------
(* Every invocation is bounded.                                            *)

Weigh(b) == IF b THEN 1 ELSE 0

(* What a confirmation still has to do: its resubmission, and each leg,    *)
(* anew after the resubmission.                                            *)
Left(t) ==
  5 * Weigh(~retried[t]) + Weigh("runtimeConfig" \notin verified[t])
    + Weigh("manifest" \notin verified[t]) + Weigh("version" \notin verified[t])

(* How far a publish is from counting.                                     *)
Ahead(t) ==
  CASE pc[t] = "gates" -> 16
    [] pc[t] = "classify" -> 15
    [] pc[t] = "record" -> 14
    [] pc[t] = "publish" -> 13
    [] pc[t] = "submit" -> 12
    [] pc[t] = "resubmit" -> 7
    [] OTHER -> 3 + Left(t)

(* How many steps an invocation has left at most.  A recovery is a second  *)
(* publish with no legs after it, and there is no third.                   *)
Rank(t) ==
  CASE pc[t] = "idle" -> 34
    [] pc[t] \in BeforeSubmit \cup {"confirm", "resubmit"} ->
         Ahead(t) + (IF recovering[t] THEN 0 ELSE 17)
    [] pc[t] = "image" -> 19
    [] pc[t] = "smoke" -> 18
    [] pc[t] = "rollback" -> 17
    [] pc[t] = "railway" -> 1
    [] OTHER -> 0

LEMMA LeftBounded ==
  ASSUME NEW t \in Trains
  PROVE  Left(t) \in 0 .. 8
  BY DEF Left, Weigh

LEMMA AheadBounded ==
  ASSUME NEW t \in Trains
  PROVE  Ahead(t) \in 3 .. 16
  BY LeftBounded DEF Ahead

LEMMA RankBounded ==
  ASSUME NEW t \in Trains
  PROVE  /\ Rank(t) \in 0 .. 34
         /\ pc[t] \in Running => Rank(t) > 0
         /\ pc[t] \in BeforeSubmit \cup {"confirm", "resubmit"} =>
              Rank(t) = Ahead(t) + (IF recovering[t] THEN 0 ELSE 17)
         /\ pc[t] \in BeforeSubmit \cup {"confirm", "resubmit"} /\ ~recovering[t] =>
              Rank(t) > 19
  BY AheadBounded DEF Rank, Running, BeforeSubmit

(* An invocation that ends has nothing left to do.                         *)
LEMMA ExitRank ==
  ASSUME MemoryOK, NEW t \in Trains, pc[t] \in Running,
         NEW l \in Finals, Exit(t, l)
  PROVE  Rank(t)' < Rank(t)
<1>1. pc'[t] \in Finals
  BY DEF MemoryOK, Exit, Goto
<1>2. Rank(t)' = 0
  BY <1>1 DEF Rank, Finals, BeforeSubmit
<1>3. QED
  BY <1>2, RankBounded

(* A publish that counts is done with its confirmation.                    *)
LEMMA AfterPublishRank ==
  ASSUME MemoryOK, NEW t \in Trains, pc[t] \in {"publish", "confirm"}, NEW w,
         AfterPublish(t, w)
  PROVE  Rank(t)' < Rank(t)
<1>1. pc[t] \in Running
  BY DEF Running
<1>2. CASE recovering[t] \/ job[t].mode # "deploy"
  BY <1>1, <1>2, ExitRank DEF AfterPublish, Finals
<1>3. CASE ~(recovering[t] \/ job[t].mode # "deploy")
  <2>1. pc'[t] = "image"
    BY <1>3 DEF AfterPublish, MemoryOK, Goto
  <2>2. Rank(t)' = 19
    BY <2>1 DEF Rank, BeforeSubmit
  <2>3. QED
    BY <1>3, <2>2, RankBounded DEF BeforeSubmit
<1>4. QED
  BY <1>2, <1>3

(* Moving on between two awaits.                                           *)
LEMMA GotoRank ==
  ASSUME MemoryOK, NEW t \in Trains, NEW l, Goto(t, l),
         UNCHANGED <<verified, retried, recovering>>,
         \/ pc[t] = "gates" /\ l \in {"classify", "publish"}
         \/ pc[t] = "classify" /\ l \in {"record", "publish"}
         \/ pc[t] = "record" /\ l = "publish"
         \/ pc[t] = "publish" /\ l = "submit"
         \/ pc[t] = "submit" /\ l = "confirm"
         \/ pc[t] = "image" /\ l \in {"smoke", "railway"}
         \/ pc[t] = "smoke" /\ l \in {"rollback", "railway"}
  PROVE  Rank(t)' < Rank(t)
<1>1. pc'[t] = l
  BY DEF MemoryOK, Goto
<1>2. Left(t)' = Left(t) /\ recovering'[t] = recovering[t]
  BY DEF Left
<1>3. QED
  BY <1>1, <1>2, LeftBounded DEF Rank, Ahead, BeforeSubmit

(* Whatever a train does brings it nearer to its end.                      *)
LEMMA StepRank ==
  ASSUME MemoryOK, NEW t \in Trains, Step(t)
  PROVE  Rank(t)' < Rank(t)
<1>1. CASE Gates(t)
  BY <1>1, ExitRank, GotoRank DEF Gates, Abort, Running, Finals, memory
<1>2. CASE Classify(t)
  BY <1>2, ExitRank, GotoRank DEF Classify, Abort, Running, Finals
<1>3. CASE CheckRecord(t)
  BY <1>3, ExitRank, GotoRank DEF CheckRecord, Abort, Running, Finals, memory
<1>4. CASE SkipPublished(t) \/ Confirmed(t)
  BY <1>4, AfterPublishRank DEF SkipPublished, Confirmed
<1>5. CASE NotPublished(t)
  BY <1>5, GotoRank DEF NotPublished, memory
<1>6. CASE Submit(t)
  BY <1>6, ExitRank, GotoRank DEF Submit, SubmitFails, Abort, Running, Finals, memory
<1>7. CASE VerifyLeg(t)
  <2>1. PICK leg \in Legs(plan[t]) \ verified[t] :
          verified' = [verified EXCEPT ![t] = verified[t] \cup {leg}]
    BY <1>7 DEF VerifyLeg
  <2>2. verified'[t] = verified[t] \cup {leg} /\ leg \in LegKinds \ verified[t]
    BY <2>1 DEF MemoryOK, Legs, LegKinds
  <2>3. retried' = retried /\ recovering' = recovering /\ pc' = pc
    BY <1>7 DEF VerifyLeg
  <2>4. /\ leg \in {"runtimeConfig", "manifest", "version"}
        /\ leg \notin verified[t]
        /\ \A l \in LegKinds \ {leg} : l \in verified'[t] <=> l \in verified[t]
        /\ leg \in verified'[t]
    BY <2>2 DEF LegKinds
  <2>5. Left(t)' < Left(t)
    BY <2>3, <2>4 DEF Left, Weigh, LegKinds
  <2>6. Left(t) \in 0 .. 8 /\ Left(t)' \in 0 .. 8
    BY DEF Left, Weigh
  <2>7. QED
    BY <1>7, <2>3, <2>5, <2>6 DEF VerifyLeg, Rank, Ahead, BeforeSubmit
<1>8. CASE TerminalTx(t)
  <2>1. CASE Abort(t)
    BY <1>8, <2>1, ExitRank DEF TerminalTx, Abort, Running, Finals
  <2>2. CASE ~retried[t] /\ Goto(t, "resubmit") /\ recovering' = recovering
    <3>1. pc[t] = "confirm" /\ pc'[t] = "resubmit"
      BY <1>8, <2>2 DEF TerminalTx, MemoryOK, Goto
    <3>2. Left(t) >= 5 /\ Left(t) \in 0 .. 8
      BY <2>2 DEF Left, Weigh
    <3>3. QED
      BY <2>2, <3>1, <3>2 DEF Rank, Ahead, BeforeSubmit
  <2>3. QED
    BY <1>8, <2>1, <2>2 DEF TerminalTx
<1>15. CASE Resubmit(t)
  <2>1. CASE SubmitFails(t)
    BY <1>15, <2>1, ExitRank DEF Resubmit, SubmitFails, Abort, Running, Finals
  <2>2. CASE /\ Goto(t, "confirm") /\ recovering' = recovering
             /\ retried' = [retried EXCEPT ![t] = TRUE]
    <3>1. pc[t] = "resubmit" /\ pc'[t] = "confirm" /\ retried'[t] = TRUE
      BY <1>15, <2>2 DEF Resubmit, MemoryOK, Goto
    <3>2. Left(t)' \in 0 .. 3
      BY <3>1 DEF Left, Weigh
    <3>3. QED
      BY <2>2, <3>1, <3>2 DEF Rank, Ahead, BeforeSubmit
  <2>3. QED
    BY <1>15, <2>1, <2>2 DEF Resubmit
<1>9. CASE ConfirmTimeout(t)
  BY <1>9, ExitRank DEF ConfirmTimeout, Abort, Running, Finals
<1>10. CASE ImageLeg(t)
  BY <1>10, ExitRank, GotoRank DEF ImageLeg, Running, Finals, memory
<1>11. CASE SmokeLeg(t)
  BY <1>11, GotoRank DEF SmokeLeg, memory
<1>12. CASE RailwayLeg(t)
  BY <1>12, ExitRank DEF RailwayLeg, Running, Finals
<1>13. CASE RollbackToPreviousSnapshot(t)
  <2>1. CASE Abort(t)
    BY <1>13, <2>1, ExitRank DEF RollbackToPreviousSnapshot, Abort, Running, Finals
  <2>2. CASE Goto(t, "gates") /\ recovering' = [recovering EXCEPT ![t] = TRUE]
    <3>1. pc'[t] = "gates" /\ recovering'[t] = TRUE /\ pc[t] = "rollback"
      BY <1>13, <2>2 DEF RollbackToPreviousSnapshot, MemoryOK, Goto
    <3>2. QED
      BY <3>1 DEF Rank, Ahead, BeforeSubmit
  <2>3. QED
    BY <1>13, <2>1, <2>2 DEF RollbackToPreviousSnapshot
<1>14. QED
  BY <1>1, <1>2, <1>3, <1>4, <1>5, <1>6, <1>7, <1>8, <1>9, <1>10, <1>11,
     <1>12, <1>13, <1>15 DEF Step

(* Neither others nor the chain give a train more to do.                   *)
LEMMA RankStays ==
  ASSUME MemoryOK, TxsOK, NEW t \in Trains, NEW u \in Trains,
         (u # t /\ (Start(t) \/ Step(t) \/ Kill(t))) \/ Land(t)
  PROVE  Rank(u)' = Rank(u)
<1>1. /\ pc'[u] = pc[u] /\ verified'[u] = verified[u]
      /\ recovering'[u] = recovering[u] /\ retried'[u] = retried[u]
  BY OthersUntouched, LandRemembers DEF Remembers
<1>2. QED
  BY <1>1 DEF Rank, Ahead, Left

(* An invocation takes at most 34 steps, however often reads fail, others  *)
(* publish over it and transactions are lost: each of its own steps lowers *)
(* its rank, and nothing raises it (confirm.ts: one resubmission;          *)
(* rollback-flow.ts: a recovery is not recovered from).                    *)
BoundedSteps ==
  [][\A t \in Trains : /\ Step(t) => Rank(t)' < Rank(t)
                       /\ Rank(t)' <= Rank(t)]_vars

THEOREM InvocationsAreBounded ==
  /\ Spec => BoundedSteps
  /\ \A t \in Trains : Rank(t) \in 0 .. 34
<1>1. Inv /\ [Next]_vars
        => [\A t \in Trains : /\ Step(t) => Rank(t)' < Rank(t)
                              /\ Rank(t)' <= Rank(t)]_vars
  <2> SUFFICES ASSUME Inv, Next, NEW u \in Trains
               PROVE  /\ Step(u) => Rank(u)' < Rank(u)
                      /\ Rank(u)' <= Rank(u)
    OBVIOUS
  <2>1. Rank(u) \in Int /\ Rank(u)' \in Int
    BY DEF Rank, Ahead, Left, Weigh
  <2>2. Step(u) => Rank(u)' < Rank(u)
    BY StepRank DEF Inv
  <2>3. Rank(u)' = Rank(u) \/ Rank(u)' < Rank(u)
    <3>1. PICK t \in Trains : Start(t) \/ Step(t) \/ Land(t) \/ Kill(t)
      BY DEF Next
    <3>2. CASE u # t \/ Land(t)
      BY <3>1, <3>2, RankStays DEF Inv
    <3>3. CASE u = t /\ Start(t)
      <4>1. pc[u] = "idle" /\ pc'[u] = "gates"
        BY <3>3, StartEffect DEF Inv, Starts, MayStart
      <4>2. Rank(u) = 34 /\ Rank(u)' \in {16, 33}
        BY <4>1 DEF Rank, Ahead, BeforeSubmit
      <4>3. QED
        BY <4>2
    <3>4. CASE u = t /\ Kill(t)
      BY <3>4, ExitRank DEF Inv, Kill, Finals
    <3>5. QED
      BY <2>2, <3>1, <3>2, <3>3, <3>4
  <2>4. QED
    BY <2>1, <2>2, <2>3
<1>2. \A t \in Trains : Rank(t) \in 0 .. 34
  BY RankBounded
<1>3. QED
  BY <1>1, <1>2, Invariance, PTL DEF Spec, BoundedSteps

=============================================================================
