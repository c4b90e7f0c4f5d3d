------------------------------- MODULE FastKV -------------------------------
(***************************************************************************)
(* The FastKV registry as the deploy train sees it: for every environment  *)
(* (one gateway each) three families of keys, each an append-only history  *)
(* of the values written to it.                                            *)
(*                                                                         *)
(*   configs[e]     apps/<account>/<gateway>/bos.config.json               *)
(*   tags[e]        apps/<account>/<gateway>/manifest.json, the thin tag   *)
(*   records[e][v]  apps/<account>/<gateway>/versions/<v>.json             *)
(*                                                                         *)
(* A write is one on-chain transaction and sets all of its keys at once.   *)
(* The per-deploy audit record (deploys/<ts>.json) rides every write under *)
(* a key of its own and is never read back by the train: it is left out.   *)
(* Reads go through fastkv.ts and client.ts.  The ones that use            *)
(* fetchJsonOrNull turn every failure into null; ReadsMayFail says whether *)
(* a read can fail at all.  The 30 second GET cache of http-client.ts is   *)
(* left out: it only delays a confirmation.                                *)
(***************************************************************************)
EXTENDS Naturals, Sequences, SequencesExt

CONSTANTS Envs,         \* deploy environments: "production" and "staging"
          Bases,        \* contents of a config, up to its pinned remotes
          MaxVersion,   \* framework versions are 1 .. MaxVersion
          Cutover,      \* CUTOVER_RELEASE, the oldest version a child may have
          Trains,       \* invocations of bos deploy / rollback / promote
          Null,         \* an absent value
          ReadsMayFail  \* whether a registry read can fail

ASSUME EnvsAssumption == "production" \in Envs
ASSUME MaxVersionAssumption == MaxVersion \in Nat \ {0}
ASSUME CutoverAssumption == Cutover \in Nat
ASSUME ReadsAssumption == ReadsMayFail \in BOOLEAN

Versions == 1 .. MaxVersion

(* A published config: its content, and the rolledBackFrom stamp.  The     *)
(* stamp is a timestamp; an invocation writes at most one, so its name     *)
(* stands for it.                                                          *)
Config == [base: Bases, rolledBackFrom: Trains \cup {Null}]

(* A compat floor never sits below the cutover release.                    *)
FromCutover(v) == IF Cutover > v THEN Cutover ELSE v

(* The bytes of a version record: the release's own remotes and catalog    *)
(* (its base) and the compat floor its composition read off the tag.       *)
Record == [base: Bases, floor: Versions \cup {Cutover}]

(* The thin tag: a version and the digest of its record.  The digest is    *)
(* injective on records and is written as the record itself.               *)
Tag == [version: Versions, digest: Record]

ASSUME NullAssumption ==
  /\ Null \notin Trains
  /\ Null \notin Versions
  /\ Null \notin Config
  /\ Null \notin Record
  /\ Null \notin Tag

VARIABLES configs, tags, records

kv == <<configs, tags, records>>

KVTypeOK ==
  /\ configs \in [Envs -> Seq(Config)]
  /\ tags \in [Envs -> Seq(Tag)]
  /\ records \in [Envs -> [Versions -> Seq(Record)]]

-----------------------------------------------------------------------------
(* The latest value of a key's history, Null when it was never written.    *)
Latest(h) == IF h = <<>> THEN Null ELSE h[Len(h)]

(* fetchRegistryKey: absent and unreachable both come back as null,        *)
(* because fetchJsonOrNull catches the network failure.                    *)
FetchRegistryKey(h) == {Latest(h)} \cup (IF ReadsMayFail THEN {Null} ELSE {})

(* The rows the history endpoint returns, newest first; a failed read is   *)
(* an empty page.                                                          *)
FetchConfigHistory(h) == {Reverse(h)} \cup (IF ReadsMayFail THEN {<<>>} ELSE {})

-----------------------------------------------------------------------------
(* Wire keys.  MANIFEST_TAG_REL_KEY is relative to apps/<account>/         *)
(* <gateway>/; getManifestKey is the full key every write uses.            *)
ManifestTagRelKey == <<"manifest.json">>
ManifestKey(e) == <<"apps", e, "manifest.json">>

(* The history stored under a wire key, taken verbatim as the history      *)
(* endpoint takes its keyPath.                                             *)
TagHistoryAt(key) ==
  IF \E e \in Envs : key = ManifestKey(e)
  THEN tags[CHOOSE e \in Envs : key = ManifestKey(e)]
  ELSE <<>>

-----------------------------------------------------------------------------
(* A registry write: the env whose gateway it goes to, the config, the     *)
(* release leg's version and record when there is one, and the tag a       *)
(* rollback restores when it found one.                                    *)
Write == [env: Envs, config: Config,
          version: Versions \cup {Null}, record: Record \cup {Null},
          restore: Tag \cup {Null}]

(* Mutant of TagEntry: the digest is taken before the compat floor is      *)
(* stamped into the record.                                                *)
TagEntryUnstamped(w) ==
  IF w.version # Null
  THEN [version |-> w.version, digest |-> [w.record EXCEPT !.floor = w.version]]
  ELSE w.restore

(* The tag entry a write carries: the release leg's flip, or else the      *)
(* pointer a rollback restores.                                            *)
TagEntry(w) == IF w.version # Null
               THEN [version |-> w.version, digest |-> w.record]
               ELSE w.restore

(* Mutant of Apply: the record rides a write of its own, which is lost.    *)
ApplySplit(w) ==
  /\ configs' = [configs EXCEPT ![w.env] = Append(@, w.config)]
  /\ tags' = IF TagEntry(w) = Null
             THEN tags
             ELSE [tags EXCEPT ![w.env] = Append(@, TagEntry(w))]
  /\ UNCHANGED records

(* One transaction lands: every key it names is written in the same step.  *)
Apply(w) ==
  /\ configs' = [configs EXCEPT ![w.env] = Append(@, w.config)]
  /\ tags' = IF TagEntry(w) = Null
             THEN tags
             ELSE [tags EXCEPT ![w.env] = Append(@, TagEntry(w))]
  /\ records' = IF w.version = Null
                THEN records
                ELSE [records EXCEPT ![w.env][w.version] = Append(@, w.record)]
=============================================================================
