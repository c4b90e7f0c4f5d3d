----------------------------- MODULE Migrations -----------------------------
(***************************************************************************)
(* Booting plugins migrate a shared Postgres database.                     *)
(*   packages/everything-dev/src/db/run-migrations.ts   the runner         *)
(*   packages/everything-dev/src/db/layer.ts            the boot around it *)
(*                                                                         *)
(* A migrator is one process that boots one build of one plugin: replicas, *)
(* the development server beside the host's own load, an old build beside  *)
(* a new one.  A build knows the first LengthOf[b] migrations of its       *)
(* plugin.  All of them write one journal, guarded by one advisory lock    *)
(* that a transaction takes per migration and that ends with it.           *)
(*                                                                         *)
(* Data abstracted: a statement is what it does to the set of tables, a    *)
(* hash is the migration it names, SQL states are the failures "calm"      *)
(* admits.                                                                 *)
(***************************************************************************)
EXTENDS Naturals, FiniteSets

CONSTANTS Plugins,       \* plugins that use this database
          Migrators,     \* booting processes
          PluginOf,      \* [Migrators -> Plugins]
          LengthOf,      \* [Migrators -> 0..Longest]: what the build knows
          Longest,       \* the most migrations any build of a plugin has
          Tables,        \* table names
          Creates,       \* [Migrations -> SUBSET Tables]: created or renamed to
          Drops,         \* [Migrations -> SUBSET Tables]: dropped or renamed from
          Found,         \* the sets of tables the database may start with
          AllowAhead,    \* BOS_ALLOW_SCHEMA_AHEAD=1
          Retries,       \* retries of a run (3 in the code)
          None           \* nobody

Migrations == Plugins \X (1..Longest)

ASSUME MigrationsAssumption ==
  /\ Longest \in Nat /\ Retries \in Nat /\ AllowAhead \in BOOLEAN
  /\ PluginOf \in [Migrators -> Plugins]
  /\ LengthOf \in [Migrators -> 0..Longest]
  /\ None \notin Migrators
  /\ Found \subseteq SUBSET Tables

\* A migration does not drop what it creates, and plugins keep their tables
\* apart: each has a schema of its own.
ASSUME TablesAssumption ==
  /\ Creates \in [Migrations -> SUBSET Tables]
  /\ Drops \in [Migrations -> SUBSET Tables]
  /\ \A m \in Migrations : Creates[m] \cap Drops[m] = {}
  /\ \A m, n \in Migrations : m[1] # n[1] => Drops[m] \cap Creates[n] = {}

VARIABLES journal,   \* [Migrations -> Nat]: rows that name the migration
          tables,    \* tables in the database
          lock,      \* the migrator whose transaction holds the advisory lock
          boot,      \* [Migrators -> record]: where each boot is
          calm       \* no query fails, nothing crashes, no wait runs out

vars == <<journal, tables, lock, boot, calm>>

Places == {"down", "guard", "read", "loop", "locked", "record", "apply",
           "drift", "ready", "refused", "failed"}

\* A boot: its place, the migration its run is at, what the hint lists, and
\* how often its run was retried.
Run(place, n, seen, k) == [at |-> place, next |-> n, skip |-> seen, tries |-> k]

Idle == Run("down", 1, {}, 0)

\* The migrations a build was made with.
Known(b) == {m \in Migrations : m[1] = PluginOf[b] /\ m[2] <= LengthOf[b]}

Journaled == {m \in Migrations : journal[m] > 0}

\* The tables that stand when the plugin's migrations up to n have run.
ExpectedTables(p, n) ==
  {t \in Tables : \E i \in 1..n :
      /\ t \in Creates[<<p, i>>]
      /\ \A j \in (i + 1)..n : t \notin Drops[<<p, j>>]}

Expected(b) == ExpectedTables(PluginOf[b], LengthOf[b])

\* Migrations this run has still to open a transaction for.
Due(b) == {n \in boot[b].next..LengthOf[b] : <<PluginOf[b], n>> \notin boot[b].skip}

\* The one it turns to: they run in the order of their index.
Turn(b) == {n \in Due(b) : \A k \in Due(b) : n <= k}

Current(b) == <<PluginOf[b], boot[b].next>>

InTransaction == {"locked", "record", "apply"}

At(b, place) == boot[b].at = place

Goes(b, place) == boot' = [boot EXCEPT ![b].at = place]

----------------------------------------------------------------------------
Init ==
  /\ journal = [m \in Migrations |-> 0]
  /\ tables \in Found
  /\ lock = None
  /\ boot = [b \in Migrators |-> Idle]
  /\ calm \in BOOLEAN

\* The layer opens the driver, which creates the plugin's schema under the
\* same lock.  A boot that failed is started again by whoever runs it.
Start(b) ==
  /\ boot[b].at \in {"down", "failed"}
  /\ lock = None
  /\ boot' = [boot EXCEPT ![b] = Run("guard", 1, {}, 0)]
  /\ UNCHANGED <<journal, tables, lock, calm>>

\* The guard: rows this build does not know refuse the boot.  A journal that
\* cannot be read has no such rows.
CheckAhead(b) ==
  /\ At(b, "guard")
  /\ \/ Goes(b, IF Journaled \subseteq Known(b) \/ AllowAhead THEN "read" ELSE "refused")
     \/ ~calm /\ Goes(b, "read")
  /\ UNCHANGED <<journal, tables, lock, calm>>

\* Mutant: a journal that cannot be read passes for one that lists everything.
ReadsJournalHopefully(b) ==
  /\ At(b, "read")
  /\ \E seen \in {Journaled} \cup (IF calm THEN {} ELSE {Known(b)}) :
       boot' = [boot EXCEPT ![b] = Run("loop", 1, seen, boot[b].tries)]
  /\ UNCHANGED <<journal, tables, lock, calm>>

\* A run begins with a read of the journal outside the lock, a hint only.
ReadsJournal(b) ==
  /\ At(b, "read")
  /\ \E seen \in {Journaled} \cup (IF calm THEN {} ELSE {{}}) :
       boot' = [boot EXCEPT ![b] = Run("loop", 1, seen, boot[b].tries)]
  /\ UNCHANGED <<journal, tables, lock, calm>>

\* The next migration the hint does not list opens its transaction, which
\* first waits for the lock.
Locks(b) ==
  /\ At(b, "loop")
  /\ lock = None
  /\ lock' = b
  /\ \E n \in Turn(b) :
       boot' = [boot EXCEPT ![b] = Run("locked", n, boot[b].skip, boot[b].tries)]
  /\ UNCHANGED <<journal, tables, calm>>

\* Mutant: a lock of the session, which a failure does not give back.
UnlocksOnCommit(b) == lock' = IF lock = b /\ calm THEN None ELSE lock

\* The end of a transaction: the lock goes with it.
Unlocks(b) == lock' = IF lock = b THEN None ELSE lock

\* Mutants: the hint decides, the journal is not read again under the lock; a
\* partial overlap of tables passes for a full one.
InHint(b) == Current(b) \in boot[b].skip
SomeAreThere(b) == Creates[Current(b)] \cap tables # {}

\* What the transaction will do once it has read the journal again.
AlreadyJournaled(b) == Current(b) \in Journaled
AlreadyThere(b) == Creates[Current(b)] # {} /\ Creates[Current(b)] \subseteq tables

\* The migration is settled, the run turns to the next.
Settled(b) == Run("loop", boot[b].next + 1, boot[b].skip, boot[b].tries)

\* Under the lock: read the journal again, leave what another migrator has
\* committed, and look for the tables the migration would create.
Rereads(b) ==
  /\ At(b, "locked")
  /\ \/ /\ AlreadyJournaled(b)
        /\ Unlocks(b)
        /\ boot' = [boot EXCEPT ![b] = Settled(b)]
     \/ /\ ~AlreadyJournaled(b)
        /\ Goes(b, IF AlreadyThere(b) THEN "record" ELSE "apply")
        /\ UNCHANGED lock
  /\ UNCHANGED <<journal, tables, calm>>

\* Commit of a migration whose tables were all there: a row, no statement.
Records(b) ==
  /\ At(b, "record")
  /\ journal' = [journal EXCEPT ![Current(b)] = @ + 1]
  /\ Unlocks(b)
  /\ boot' = [boot EXCEPT ![b] = Settled(b)]
  /\ UNCHANGED <<tables, calm>>

\* Commit of a migration: its statements, each tolerating an object that is
\* already there, and its row.
Applies(b) ==
  /\ At(b, "apply")
  /\ journal' = [journal EXCEPT ![Current(b)] = @ + 1]
  /\ tables' = (tables \ Drops[Current(b)]) \cup Creates[Current(b)]
  /\ Unlocks(b)
  /\ boot' = [boot EXCEPT ![b] = Settled(b)]
  /\ UNCHANGED calm

\* A failed run: a state worth retrying starts the run over, from the read of
\* the journal, until the retries are used up.
AfterFailure(b) ==
  {Run("failed", 1, {}, 0)}
    \cup IF boot[b].tries < Retries THEN {Run("read", 1, {}, boot[b].tries + 1)} ELSE {}

\* A statement, a commit, a connection or the wait for the lock fails; the
\* transaction is rolled back.
RunFails(b) ==
  /\ ~calm
  /\ boot[b].at \in InTransaction \/ (At(b, "loop") /\ Due(b) # {})
  /\ Unlocks(b)
  /\ \E after \in AfterFailure(b) : boot' = [boot EXCEPT ![b] = after]
  /\ UNCHANGED <<journal, tables, calm>>

\* The run is over: every migration was skipped or committed.
RunEnds(b) ==
  /\ At(b, "loop")
  /\ Due(b) = {}
  /\ Goes(b, "drift")
  /\ UNCHANGED <<journal, tables, lock, calm>>

\* Before the plugin is ready its tables are counted.  A count that cannot
\* be read finds none.
DetectDrift(b) ==
  /\ At(b, "drift")
  /\ \/ Goes(b, IF Expected(b) \subseteq tables THEN "ready" ELSE "failed")
     \/ ~calm /\ Expected(b) # {} /\ Goes(b, "failed")
  /\ UNCHANGED <<journal, tables, lock, calm>>

\* The process dies; the database ends its transaction.
Crash(b) ==
  /\ ~calm
  /\ boot[b].at \notin {"down", "failed", "refused"}
  /\ Unlocks(b)
  /\ boot' = [boot EXCEPT ![b] = Idle]
  /\ UNCHANGED <<journal, tables, calm>>

\* The weather.
Trouble ==
  /\ calm' = ~calm
  /\ UNCHANGED <<journal, tables, lock, boot>>

Steps(b) ==
  \/ CheckAhead(b) \/ ReadsJournal(b) \/ Locks(b) \/ Rereads(b)
  \/ Records(b) \/ Applies(b) \/ RunEnds(b) \/ DetectDrift(b)

Next ==
  \/ \E b \in Migrators : Start(b) \/ Steps(b) \/ RunFails(b) \/ Crash(b)
  \/ Trouble

Spec == Init /\ [][Next]_vars

\* A boot runs on and one that failed is tried again.
FairSpec == Spec /\ \A b \in Migrators : WF_vars(Steps(b)) /\ WF_vars(Start(b))

----------------------------------------------------------------------------
TypeOK ==
  /\ journal \in [Migrations -> Nat]
  /\ tables \in SUBSET Tables
  /\ lock \in Migrators \cup {None}
  /\ boot \in [Migrators -> [at : Places, next : 1..(Longest + 1),
                             skip : SUBSET Migrations, tries : 0..Retries]]
  /\ calm \in BOOLEAN

\* However many processes boot at once, from whatever stale read of the
\* journal, no migration is journaled twice: each is applied once.
JournaledOnce == \A m \in Migrations : journal[m] <= 1

\* A failed, killed or overtaken run leaves a clean prefix: what is journaled
\* of a plugin is its first n migrations, and the tables those n leave are in
\* the database, whether their statements ran or the tables were found.
JournalBacked ==
  \A p \in Plugins : \E n \in 0..Longest :
    /\ \A i \in 1..Longest : <<p, i>> \in Journaled <=> i <= n
    /\ ExpectedTables(p, n) \subseteq tables

\* A plugin serves only when the database has every migration of its build:
\* no boot gets there on a journal it failed to read.
ReadyMeansMigrated ==
  \A b \in Migrators : At(b, "ready") => Known(b) \subseteq Journaled

\* When the trouble is over every boot comes to rest: its plugin is ready,
\* or the database is ahead of its build and it is refused.  No lock is left
\* behind by one that died.
BootsConverge ==
  <>[]calm => \A b \in Migrators : <>[](boot[b].at \in {"ready", "refused"})

\* The guard's own words: rows this build does not know mean that a NEWER
\* build of the plugin migrated the database.
RefusedMeansNewer ==
  \A b \in Migrators : At(b, "refused") =>
    \E n \in 1..Longest : n > LengthOf[b] /\ <<PluginOf[b], n>> \in Journaled

=============================================================================
