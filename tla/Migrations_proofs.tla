------------------------- MODULE Migrations_proofs -------------------------
(***************************************************************************)
(* What holds of the migration runner for any number of plugins, builds,   *)
(* processes and migrations: nothing is journaled twice, what is journaled *)
(* is a prefix whose tables are there, a plugin is ready only when its     *)
(* build's migrations are journaled, a plugin alone on its database is     *)
(* refused for a newer build only, no lock is left behind, and no boot     *)
(* goes on for ever.                                                       *)
(***************************************************************************)
EXTENDS Migrations, TLAPS

USE MigrationsAssumption, TablesAssumption

Boots == [at : Places, next : 1..(Longest + 1), skip : SUBSET Migrations, tries : 0..Retries]

Running == {"loop"} \cup InTransaction

(* What a boot may rely on at its place: in a run, that everything it has  *)
(* seen or passed is journaled; in a transaction, that its migration is    *)
(* one of its build's and, once read again, not journaled; past the run,   *)
(* that its build's migrations all are.                                    *)
BootInv(b) ==
  /\ boot[b].at \in Running =>
       /\ boot[b].skip \subseteq Journaled
       /\ \A k \in 1..LengthOf[b] : k < boot[b].next => <<PluginOf[b], k>> \in Journaled
  /\ boot[b].at \in InTransaction => boot[b].next \in 1..LengthOf[b]
  /\ boot[b].at \in {"record", "apply"} => Current(b) \notin Journaled
  /\ boot[b].at = "record" => Creates[Current(b)] \subseteq tables
  /\ boot[b].at \in {"drift", "ready"} => Known(b) \subseteq Journaled

(* The lock is held by the one boot that is in a transaction.              *)
Held == \A b \in Migrators : boot[b].at \in InTransaction <=> lock = b

(* The first n migrations of p are journaled, and their tables are there.  *)
BackedTo(p, n) ==
  /\ \A i \in 1..Longest : <<p, i>> \in Journaled <=> i <= n
  /\ ExpectedTables(p, n) \subseteq tables

IInv ==
  /\ TypeOK
  /\ Held
  /\ \A b \in Migrators : BootInv(b)
  /\ JournaledOnce
  /\ JournalBacked

----------------------------------------------------------------------------
(* A step of one boot that leaves the database alone keeps the invariant   *)
(* if that boot and the lock come out right.                               *)
LEMMA QuietStep ==
  ASSUME IInv, NEW b \in Migrators, NEW r \in Boots,
         boot' = [boot EXCEPT ![b] = r],
         UNCHANGED <<journal, tables, calm>>,
         \/ UNCHANGED lock
         \/ lock = b /\ lock' = None
         \/ lock = None /\ lock' = b,
         r.at \in InTransaction <=> lock' = b,
         BootInv(b)'
  PROVE  IInv'
<1>1. TypeOK'
  BY DEF IInv, TypeOK, Boots
<1>2. boot'[b] = r /\ \A c \in Migrators : c # b => boot'[c] = boot[c]
  BY DEF IInv, TypeOK
<1>3. Journaled' = Journaled
  BY DEF Journaled
<1>4. Held'
  BY <1>2 DEF IInv, Held
<1>5. ASSUME NEW c \in Migrators PROVE BootInv(c)'
  <2>1. CASE c = b
    BY <2>1
  <2>2. CASE c # b
    BY <1>2, <1>3, <2>2 DEF IInv, BootInv, Current, Known
  <2> QED BY <2>1, <2>2
<1>6. JournaledOnce' /\ JournalBacked'
  BY <1>3 DEF IInv, JournaledOnce, JournalBacked, ExpectedTables
<1> QED BY <1>1, <1>4, <1>5, <1>6 DEF IInv

(* When the next migration of a prefix is committed, the prefix is one     *)
(* longer and its tables are there, as every other plugin's are.           *)
LEMMA Prefix ==
  ASSUME IInv, NEW p \in Plugins, NEW n \in 1..Longest,
         <<p, n>> \notin Journaled,
         \A k \in 1..(n - 1) : <<p, k>> \in Journaled,
         journal' = [journal EXCEPT ![<<p, n>>] = @ + 1],
         \/ tables' = tables /\ Creates[<<p, n>>] \subseteq tables
         \/ tables' = (tables \ Drops[<<p, n>>]) \cup Creates[<<p, n>>]
  PROVE  /\ Journaled' = Journaled \cup {<<p, n>>}
         /\ JournaledOnce'
         /\ JournalBacked'
<1> DEFINE m == <<p, n>>
<1>1. m \in Migrations /\ m[1] = p /\ journal[m] = 0 /\ journal'[m] = 1
  BY DEF IInv, TypeOK, Journaled, Migrations
<1>2. \A k \in Migrations : k # m => journal'[k] = journal[k]
  BY DEF IInv, TypeOK
<1>3. Journaled' = Journaled \cup {m}
  BY <1>1, <1>2 DEF Journaled
<1>4. JournaledOnce'
  BY <1>1, <1>2 DEF IInv, JournaledOnce
<1>5. PICK n0 \in 0..Longest : BackedTo(p, n0)
  BY DEF IInv, JournalBacked, BackedTo
<1>6. n0 = n - 1
  <2>1. ~(n <= n0)
    BY <1>5 DEF BackedTo
  <2>2. CASE n0 < n - 1
    <3>1. n - 1 \in 1..(n - 1) /\ n - 1 \in 1..Longest
      BY <2>2
    <3>2. <<p, n - 1>> \in Journaled
      BY <3>1
    <3> QED BY <1>5, <2>2, <3>1, <3>2 DEF BackedTo
  <2> QED BY <2>1, <2>2
<1>7. BackedTo(p, n)'
  <2>1. ASSUME NEW i \in 1..Longest PROVE <<p, i>> \in Journaled' <=> i <= n
    BY <1>3, <1>5, <1>6 DEF BackedTo
  <2>2. ASSUME NEW t \in ExpectedTables(p, n) PROVE t \in tables'
    <3>1. PICK i \in 1..n : /\ t \in Creates[<<p, i>>]
                            /\ \A j \in (i + 1)..n : t \notin Drops[<<p, j>>]
      BY <2>2 DEF ExpectedTables
    <3>2. CASE i = n
      BY <3>1, <3>2
    <3>3. CASE i # n
      <4>1. i \in 1..(n - 1) /\ n \in (i + 1)..n
        BY <3>3
      <4>2. \A j \in (i + 1)..(n - 1) : t \notin Drops[<<p, j>>]
        BY <3>1
      <4>3. t \in ExpectedTables(p, n - 1)
        BY <2>2, <3>1, <4>1, <4>2 DEF ExpectedTables
      <4>4. t \in tables /\ t \notin Drops[<<p, n>>]
        BY <1>5, <1>6, <3>1, <4>1, <4>3 DEF BackedTo
      <4> QED BY <4>4
    <3> QED BY <3>2, <3>3
  <2>3. ExpectedTables(p, n)' = ExpectedTables(p, n)
    BY DEF ExpectedTables
  <2> QED BY <2>1, <2>2, <2>3 DEF BackedTo
<1>8. ASSUME NEW q \in Plugins, q # p PROVE \E k \in 0..Longest : BackedTo(q, k)'
  <2>1. PICK k \in 0..Longest : BackedTo(q, k)
    BY DEF IInv, JournalBacked, BackedTo
  <2>2. ASSUME NEW i \in 1..Longest PROVE <<q, i>> \in Journaled' <=> i <= k
    BY <1>3, <1>8, <2>1 DEF BackedTo
  <2>3. ASSUME NEW t \in ExpectedTables(q, k) PROVE t \in tables'
    <3>1. PICK i \in 1..k : t \in Creates[<<q, i>>]
      BY <2>3 DEF ExpectedTables
    <3>2. t \in tables
      BY <2>1, <2>3 DEF BackedTo
    <3>3. <<q, i>> \in Migrations /\ <<q, i>>[1] # m[1]
      BY <1>1, <1>8 DEF Migrations
    <3>4. t \notin Drops[m]
      BY <1>1, <3>1, <3>3
    <3> QED BY <3>2, <3>4
  <2>4. ExpectedTables(q, k)' = ExpectedTables(q, k)
    BY DEF ExpectedTables
  <2> QED BY <2>2, <2>3, <2>4 DEF BackedTo
<1>9. JournalBacked'
  <2>1. ASSUME NEW q \in Plugins PROVE \E k \in 0..Longest : BackedTo(q, k)'
    BY <1>7, <1>8
  <2> QED BY <2>1 DEF JournalBacked, BackedTo
<1> QED BY <1>3, <1>4, <1>9

(* A commit keeps the invariant: whoever else is in a run only sees more   *)
(* journaled, and nobody else is in a transaction.                         *)
LEMMA CommitStep ==
  ASSUME IInv, NEW b \in Migrators, Records(b) \/ Applies(b)
  PROVE  IInv'
<1> DEFINE m == Current(b)
<1>1. boot[b].at \in {"record", "apply"} /\ lock = b /\ lock' = None
  BY DEF IInv, Held, Records, Applies, At, InTransaction, Unlocks
<1>2. /\ PluginOf[b] \in Plugins /\ LengthOf[b] \in 0..Longest
      /\ boot[b].next \in 1..LengthOf[b] /\ boot[b].next \in 1..Longest
      /\ m = <<PluginOf[b], boot[b].next>> /\ m \in Migrations
      /\ m \notin Journaled
      /\ \A k \in 1..(boot[b].next - 1) : <<PluginOf[b], k>> \in Journaled
      /\ boot[b].skip \subseteq Journaled
  <2>1. PluginOf[b] \in Plugins /\ LengthOf[b] \in 0..Longest
    OBVIOUS
  <2>2. /\ boot[b].next \in 1..LengthOf[b] /\ m \notin Journaled
        /\ boot[b].skip \subseteq Journaled
        /\ \A k \in 1..LengthOf[b] : k < boot[b].next => <<PluginOf[b], k>> \in Journaled
    BY <1>1 DEF IInv, BootInv, Running, InTransaction
  <2>3. \A k \in 1..(boot[b].next - 1) : k \in 1..LengthOf[b] /\ k < boot[b].next
    BY <2>1, <2>2
  <2> QED BY <2>1, <2>2, <2>3 DEF Current, Migrations
<1>3. journal' = [journal EXCEPT ![m] = @ + 1]
  BY DEF Records, Applies
<1>4. \/ tables' = tables /\ Creates[m] \subseteq tables
      \/ tables' = (tables \ Drops[m]) \cup Creates[m]
  BY DEF IInv, BootInv, Records, Applies, At
<1>5. /\ Journaled' = Journaled \cup {m}
      /\ JournaledOnce' /\ JournalBacked'
  BY <1>2, <1>3, <1>4, Prefix
<1>6. boot' = [boot EXCEPT ![b] = Settled(b)]
  BY DEF Records, Applies
<1>7. Settled(b) \in Boots
  BY <1>2 DEF IInv, TypeOK, Settled, Run, Boots, Places
<1>8. TypeOK'
  <2>1. journal' \in [Migrations -> Nat]
    BY <1>2, <1>3 DEF IInv, TypeOK
  <2>2. tables' \in SUBSET Tables
    BY <1>2, <1>4 DEF IInv, TypeOK
  <2>3. boot' \in [Migrators -> Boots]
    BY <1>6, <1>7 DEF IInv, TypeOK, Boots
  <2> QED BY <1>1, <2>1, <2>2, <2>3 DEF IInv, TypeOK, Boots, Records, Applies
<1>9. /\ boot'[b] = Settled(b)
      /\ \A c \in Migrators : c # b => boot'[c] = boot[c] /\ boot[c].at \notin InTransaction
  BY <1>1, <1>6 DEF IInv, TypeOK, Held
<1>10. boot'[b].at = "loop" /\ boot'[b].next = boot[b].next + 1 /\ boot'[b].skip = boot[b].skip
  BY <1>9 DEF IInv, TypeOK, Settled, Run
<1>11. Held'
  BY <1>1, <1>9, <1>10 DEF Held, InTransaction
<1>12. ASSUME NEW c \in Migrators PROVE BootInv(c)'
  <2>1. CASE c = b
    BY <1>2, <1>5, <1>10, <2>1 DEF BootInv, InTransaction
  <2>2. CASE c # b
    BY <1>5, <1>9, <2>2 DEF IInv, BootInv, InTransaction, Known
  <2> QED BY <2>1, <2>2
<1> QED BY <1>5, <1>8, <1>11, <1>12 DEF IInv

----------------------------------------------------------------------------
LEMMA InitInv == Init => IInv
<1> SUFFICES ASSUME Init PROVE IInv
  OBVIOUS
<1>1. TypeOK
  BY DEF Init, TypeOK, Idle, Run, Places
<1>2. Journaled = {} /\ JournaledOnce
  BY DEF Init, Journaled, JournaledOnce
<1>3. \A b \in Migrators : boot[b].at = "down"
  BY DEF Init, Idle, Run
<1>4. Held /\ \A b \in Migrators : BootInv(b)
  BY <1>3 DEF Init, Held, BootInv, Running, InTransaction
<1>5. \A p \in Plugins : BackedTo(p, 0)
  BY <1>2 DEF BackedTo, ExpectedTables
<1>6. JournalBacked
  BY <1>5 DEF JournalBacked, BackedTo
<1> QED BY <1>1, <1>2, <1>4, <1>6 DEF IInv

(* One step of one boot.                                                   *)
LEMMA BootStep ==
  ASSUME IInv, NEW b \in Migrators,
         Start(b) \/ Steps(b) \/ RunFails(b) \/ Crash(b)
  PROVE  IInv'
<1> USE DEF Boots, Places, Run
<1>t. boot \in [Migrators -> Boots] /\ boot[b] \in Boots
  BY DEF IInv, TypeOK
<1>h. boot[b].at \in InTransaction <=> lock = b
  BY DEF IInv, Held
<1>i. BootInv(b)
  BY DEF IInv
<1>l. PluginOf[b] \in Plugins /\ LengthOf[b] \in 0..Longest /\ b # None
  OBVIOUS
<1>j. UNCHANGED journal => Journaled' = Journaled
  BY DEF Journaled
<1>1. CASE Start(b)
  <2> DEFINE r == Run("guard", 1, {}, 0)
  <2>1. r \in Boots /\ r.at = "guard"
    BY DEF Idle, Run
  <2>2. boot' = [boot EXCEPT ![b] = r] /\ boot'[b] = r
    BY <1>1, <1>t DEF Start
  <2>3. BootInv(b)'
    BY <2>1, <2>2 DEF BootInv, Running, InTransaction
  <2> QED BY <1>1, <1>l, <2>1, <2>2, <2>3, QuietStep DEF Start, InTransaction
<1>2. CASE CheckAhead(b)
  <2>1. PICK to \in {"read", "refused"} : boot' = [boot EXCEPT ![b].at = to]
    BY <1>2 DEF CheckAhead, Goes
  <2> DEFINE r == [boot[b] EXCEPT !.at = to]
  <2>2. r \in Boots /\ r.at = to /\ boot' = [boot EXCEPT ![b] = r] /\ boot'[b] = r
    BY <1>t, <2>1
  <2>3. BootInv(b)'
    BY <2>1, <2>2 DEF BootInv, Running, InTransaction
  <2>4. lock # b
    BY <1>2, <1>h DEF CheckAhead, At, InTransaction
  <2> QED BY <1>2, <2>1, <2>2, <2>3, <2>4, QuietStep DEF CheckAhead, InTransaction
<1>3. CASE ReadsJournal(b)
  <2>1. PICK seen \in {Journaled} \cup (IF calm THEN {} ELSE {{}}) :
          boot' = [boot EXCEPT ![b] = Run("loop", 1, seen, boot[b].tries)]
    BY <1>3 DEF ReadsJournal
  <2>2. seen \subseteq Journaled /\ seen \in SUBSET Migrations
    BY <2>1 DEF Journaled
  <2> DEFINE r == Run("loop", 1, seen, boot[b].tries)
  <2>3. /\ r \in Boots /\ r.at = "loop" /\ r.next = 1 /\ r.skip = seen
        /\ boot' = [boot EXCEPT ![b] = r] /\ boot'[b] = r
    BY <1>t, <2>1, <2>2
  <2>4. BootInv(b)'
    BY <1>3, <1>j, <2>2, <2>3 DEF ReadsJournal, BootInv, Running, InTransaction
  <2>5. lock # b
    BY <1>3, <1>h DEF ReadsJournal, At, InTransaction
  <2> QED BY <1>3, <2>3, <2>4, <2>5, QuietStep DEF ReadsJournal, InTransaction
<1>4. CASE Locks(b)
  <2>1. PICK n \in Turn(b) : boot' = [boot EXCEPT ![b] = Run("locked", n, boot[b].skip, boot[b].tries)]
    BY <1>4 DEF Locks
  <2>2. n \in Due(b) /\ n \in 1..LengthOf[b] /\ boot[b].next <= n
    BY <1>t, <1>l, <2>1 DEF Turn, Due
  <2>3. ASSUME NEW k \in 1..LengthOf[b], k < n PROVE <<PluginOf[b], k>> \in Journaled
    <3>1. k \notin Due(b)
      BY <1>l, <2>1, <2>2, <2>3 DEF Turn, Due
    <3>2. k < boot[b].next \/ <<PluginOf[b], k>> \in boot[b].skip
      BY <1>t, <1>l, <2>3, <3>1 DEF Due
    <3> QED BY <1>4, <1>i, <3>2 DEF BootInv, Running, Locks, At
  <2> DEFINE r == Run("locked", n, boot[b].skip, boot[b].tries)
  <2>4. /\ r \in Boots /\ r.at = "locked" /\ r.next = n /\ r.skip = boot[b].skip
        /\ boot' = [boot EXCEPT ![b] = r] /\ boot'[b] = r
    BY <1>t, <1>l, <2>1, <2>2
  <2>5. boot[b].skip \subseteq Journaled
    BY <1>4, <1>i DEF BootInv, Running, Locks, At
  <2>6. BootInv(b)'
    BY <1>4, <1>j, <2>2, <2>3, <2>4, <2>5 DEF Locks, BootInv, Running, InTransaction
  <2> QED BY <1>4, <2>4, <2>6, QuietStep DEF Locks, InTransaction
<1>5. CASE Rereads(b)
  <2>1. /\ boot[b].at = "locked" /\ lock = b /\ boot[b].next \in 1..LengthOf[b]
        /\ boot[b].skip \subseteq Journaled
        /\ \A k \in 1..LengthOf[b] : k < boot[b].next => <<PluginOf[b], k>> \in Journaled
    BY <1>5, <1>h, <1>i DEF Rereads, At, BootInv, Running, InTransaction
  <2>2. CASE AlreadyJournaled(b) /\ Unlocks(b) /\ boot' = [boot EXCEPT ![b] = Settled(b)]
    <3>1. /\ Settled(b) \in Boots /\ boot'[b] = Settled(b) /\ Settled(b).at = "loop"
          /\ Settled(b).next = boot[b].next + 1 /\ Settled(b).skip = boot[b].skip
      BY <1>t, <1>l, <2>1, <2>2 DEF Settled
    <3>2. <<PluginOf[b], boot[b].next>> \in Journaled
      BY <2>2 DEF AlreadyJournaled, Current
    <3>3. BootInv(b)'
      BY <1>5, <1>j, <1>l, <2>1, <3>1, <3>2 DEF Rereads, BootInv, Running, InTransaction
    <3>4. lock' = None
      BY <2>1, <2>2 DEF Unlocks
    <3> QED BY <1>5, <1>l, <2>1, <2>2, <3>1, <3>3, <3>4, QuietStep DEF Rereads, InTransaction
  <2>3. CASE /\ ~AlreadyJournaled(b)
             /\ Goes(b, IF AlreadyThere(b) THEN "record" ELSE "apply")
             /\ UNCHANGED lock
    <3>1. PICK to \in {"record", "apply"} :
            /\ boot' = [boot EXCEPT ![b].at = to]
            /\ to = "record" => Creates[Current(b)] \subseteq tables
      BY <2>3 DEF Goes, AlreadyThere
    <3> DEFINE r == [boot[b] EXCEPT !.at = to]
    <3>2. /\ r \in Boots /\ r.at = to /\ r.next = boot[b].next /\ r.skip = boot[b].skip
          /\ boot' = [boot EXCEPT ![b] = r] /\ boot'[b] = r
      BY <1>t, <3>1
    <3>3. Current(b)' = Current(b)
      BY <3>2 DEF Current
    <3>4. Journaled' = Journaled /\ tables' = tables
      BY <1>5, <1>j DEF Rereads
    <3>5. BootInv(b)'
      BY <2>1, <2>3, <3>1, <3>2, <3>3, <3>4 DEF BootInv, AlreadyJournaled, Running, InTransaction
    <3> QED BY <1>5, <2>1, <2>3, <3>1, <3>2, <3>5, QuietStep DEF Rereads, InTransaction
  <2> QED BY <1>5, <2>2, <2>3 DEF Rereads
<1>6. CASE Records(b) \/ Applies(b)
  BY <1>6, CommitStep
<1>7. CASE RunEnds(b)
  <2> DEFINE r == [boot[b] EXCEPT !.at = "drift"]
  <2>1. /\ r \in Boots /\ r.at = "drift"
        /\ boot' = [boot EXCEPT ![b] = r] /\ boot'[b] = r
    BY <1>7, <1>t DEF RunEnds, Goes
  <2>2. ASSUME NEW m \in Known(b) PROVE m \in Journaled
    <3>1. PICK k \in 1..Longest : m = <<PluginOf[b], k>> /\ k <= LengthOf[b]
      BY <2>2 DEF Known, Migrations
    <3>2. k \in 1..LengthOf[b] /\ k \notin Due(b)
      BY <1>7, <1>l, <3>1 DEF RunEnds
    <3>3. k < boot[b].next \/ m \in boot[b].skip
      BY <1>t, <1>l, <3>1, <3>2 DEF Due
    <3> QED BY <1>7, <1>i, <3>1, <3>2, <3>3 DEF BootInv, Running, RunEnds, At
  <2>3. BootInv(b)'
    BY <1>7, <1>j, <2>1, <2>2 DEF RunEnds, BootInv, Running, InTransaction, Known
  <2>4. lock # b
    BY <1>7, <1>h DEF RunEnds, At, InTransaction
  <2> QED BY <1>7, <2>1, <2>3, <2>4, QuietStep DEF RunEnds, InTransaction
<1>8. CASE DetectDrift(b)
  <2>1. PICK to \in {"ready", "failed"} : boot' = [boot EXCEPT ![b].at = to]
    BY <1>8 DEF DetectDrift, Goes
  <2> DEFINE r == [boot[b] EXCEPT !.at = to]
  <2>2. r \in Boots /\ r.at = to /\ boot' = [boot EXCEPT ![b] = r] /\ boot'[b] = r
    BY <1>t, <2>1
  <2>3. Known(b) \subseteq Journaled
    BY <1>8, <1>i DEF DetectDrift, At, BootInv
  <2>4. BootInv(b)'
    BY <1>8, <1>j, <2>1, <2>2, <2>3 DEF DetectDrift, BootInv, Running, InTransaction, Known
  <2>5. lock # b
    BY <1>8, <1>h DEF DetectDrift, At, InTransaction
  <2> QED BY <1>8, <2>1, <2>2, <2>4, <2>5, QuietStep DEF DetectDrift, InTransaction
<1>9. CASE RunFails(b)
  <2>1. PICK r \in AfterFailure(b) : boot' = [boot EXCEPT ![b] = r]
    BY <1>9 DEF RunFails
  <2>2. r \in Boots /\ r.at \in {"read", "failed"} /\ boot'[b] = r
    BY <1>t, <2>1 DEF AfterFailure
  <2>3. BootInv(b)'
    BY <2>2 DEF BootInv, Running, InTransaction
  <2>4. lock' # b /\ (UNCHANGED lock \/ (lock = b /\ lock' = None))
    BY <1>9, <1>l DEF RunFails, Unlocks
  <2> QED BY <1>9, <2>1, <2>2, <2>3, <2>4, QuietStep DEF RunFails, InTransaction
<1>10. CASE Crash(b)
  <2>1. Idle \in Boots /\ Idle.at = "down"
    BY DEF Idle, Run
  <2>2. boot' = [boot EXCEPT ![b] = Idle] /\ boot'[b] = Idle
    BY <1>10, <1>t DEF Crash
  <2>3. BootInv(b)'
    BY <2>1, <2>2 DEF BootInv, Running, InTransaction
  <2>4. lock' # b /\ (UNCHANGED lock \/ (lock = b /\ lock' = None))
    BY <1>10, <1>l DEF Crash, Unlocks
  <2> QED BY <1>10, <2>1, <2>2, <2>3, <2>4, QuietStep DEF Crash, InTransaction
<1> QED BY <1>1, <1>2, <1>3, <1>4, <1>5, <1>6, <1>7, <1>8, <1>9, <1>10 DEF Steps

(* What says nothing of the weather survives its changes.                  *)
LEMMA Unmoved ==
  ASSUME IInv, UNCHANGED <<journal, tables, lock, boot>>, calm' \in BOOLEAN
  PROVE  IInv'
<1>1. Journaled' = Journaled
  BY DEF Journaled
<1> QED BY <1>1 DEF IInv, TypeOK, Held, BootInv, Current, Known, JournaledOnce,
                    JournalBacked, ExpectedTables

LEMMA Invariance == Spec => []IInv
<1>1. IInv /\ [Next]_vars => IInv'
  <2> SUFFICES ASSUME IInv, [Next]_vars PROVE IInv'
    OBVIOUS
  <2>1. CASE UNCHANGED vars
    BY <2>1, Unmoved DEF vars, IInv, TypeOK
  <2>2. CASE Trouble
    BY <2>2, Unmoved DEF Trouble, IInv, TypeOK
  <2>3. ASSUME NEW b \in Migrators, Start(b) \/ Steps(b) \/ RunFails(b) \/ Crash(b)
        PROVE IInv'
    BY <2>3, BootStep
  <2> QED BY <2>1, <2>2, <2>3 DEF Next
<1> QED BY <1>1, InitInv, PTL DEF Spec

----------------------------------------------------------------------------
(* The state is typed; in particular no run turns to a migration its build *)
(* does not know.                                                          *)
THEOREM TypeCorrect == Spec => []TypeOK
BY Invariance, PTL DEF IInv

(* Whatever boots at once, reads stale journals, fails, is retried or dies *)
(* in a transaction, a migration is journaled at most once.                *)
THEOREM NothingTwice == Spec => []JournaledOnce
BY Invariance, PTL DEF IInv

(* What is journaled of a plugin is a prefix of its migrations whose       *)
(* tables are in the database.                                             *)
THEOREM JournalTellsTruth == Spec => []JournalBacked
BY Invariance, PTL DEF IInv

(* A plugin is ready only on a database that has its build's migrations.   *)
THEOREM ReadyIsMigrated == Spec => []ReadyMeansMigrated
<1>1. IInv => ReadyMeansMigrated
  BY DEF IInv, BootInv, ReadyMeansMigrated, At
<1> QED BY <1>1, Invariance, PTL
----------------------------------------------------------------------------
(* Only the boot itself, its crash included, changes where a boot is.      *)
LEMMA OwnSteps ==
  ASSUME IInv, [Next]_vars, NEW b \in Migrators, boot'[b] # boot[b]
  PROVE  Start(b) \/ Steps(b) \/ RunFails(b) \/ Crash(b)
<1>1. PICK c \in Migrators : Start(c) \/ Steps(c) \/ RunFails(c) \/ Crash(c)
  BY DEF Next, Trouble, vars
<1>2. CASE c = b
  BY <1>1, <1>2
<1>3. CASE c # b
  <2>1. \E r : boot' = [boot EXCEPT ![c] = r]
    <3>1. CASE Start(c)
      BY <3>1 DEF Start
    <3>2. CASE Steps(c)
      BY <3>2 DEF Steps, CheckAhead, ReadsJournal, Locks, Rereads, Records, Applies,
                  RunEnds, DetectDrift, Goes
    <3>3. CASE RunFails(c)
      BY <3>3 DEF RunFails
    <3>4. CASE Crash(c)
      BY <3>4 DEF Crash
    <3> QED BY <1>1, <3>1, <3>2, <3>3, <3>4
  <2> QED BY <1>3, <2>1 DEF IInv, TypeOK
<1> QED BY <1>2, <1>3

(* No step of a migrator takes a row out of the journal.                   *)
LEMMA JournalGrows ==
  ASSUME IInv, [Next]_vars
  PROVE  Journaled \subseteq Journaled'
<1>1. ASSUME NEW b \in Migrators, Records(b) \/ Applies(b)
      PROVE  Journaled \subseteq Journaled'
  <2>1. journal' = [journal EXCEPT ![Current(b)] = @ + 1]
    BY <1>1 DEF Records, Applies
  <2>2. \A m \in Migrations : journal'[m] >= journal[m]
    BY <2>1 DEF IInv, TypeOK
  <2>3. \A m \in Migrations : journal[m] \in Nat /\ journal'[m] \in Nat
    BY <2>1 DEF IInv, TypeOK
  <2> QED BY <2>2, <2>3 DEF Journaled
<1>2. CASE UNCHANGED journal
  BY <1>2 DEF Journaled
<1>3. UNCHANGED journal \/ \E b \in Migrators : Records(b) \/ Applies(b)
  <2>1. CASE UNCHANGED vars
    BY <2>1 DEF vars
  <2>2. CASE Trouble
    BY <2>2 DEF Trouble
  <2>3. ASSUME NEW b \in Migrators, Start(b) \/ Steps(b) \/ RunFails(b) \/ Crash(b)
        PROVE  UNCHANGED journal \/ Records(b) \/ Applies(b)
    BY <2>3 DEF Start, Steps, CheckAhead, ReadsJournal, Locks, Rereads, RunEnds,
                DetectDrift, RunFails, Crash
  <2> QED BY <2>1, <2>2, <2>3 DEF Next
<1> QED BY <1>1, <1>2, <1>3

(* A boot is refused by its guard alone.                                   *)
LEMMA RefusedByGuard ==
  ASSUME IInv, [Next]_vars, NEW b \in Migrators,
         ~At(b, "refused"), At(b, "refused")'
  PROVE  CheckAhead(b) /\ ~(Journaled \subseteq Known(b))
<1>t. boot \in [Migrators -> Boots] /\ boot[b] \in Boots
  BY DEF IInv, TypeOK, Boots
<1>1. boot'[b].at = "refused" /\ boot'[b] # boot[b]
  BY DEF At
<1>2. Start(b) \/ Steps(b) \/ RunFails(b) \/ Crash(b)
  BY <1>1, OwnSteps
<1>3. ~Start(b) /\ ~Crash(b)
  BY <1>t, <1>1 DEF Start, Crash, Idle, Run
<1>4. ~RunFails(b)
  BY <1>t, <1>1 DEF RunFails, AfterFailure, Run
<1>5. ~ReadsJournal(b) /\ ~Locks(b)
  BY <1>t, <1>1 DEF ReadsJournal, Locks, Run
<1>6. ~Records(b) /\ ~Applies(b)
  BY <1>t, <1>1 DEF Records, Applies, Settled, Run
<1>7. ~Rereads(b)
  BY <1>t, <1>1 DEF Rereads, Settled, Run, Goes, Boots
<1>8. ~RunEnds(b) /\ ~DetectDrift(b)
  BY <1>t, <1>1 DEF RunEnds, DetectDrift, Goes, Boots
<1>9. CheckAhead(b)
  BY <1>2, <1>3, <1>4, <1>5, <1>6, <1>7, <1>8 DEF Steps
<1> QED BY <1>t, <1>1, <1>9 DEF CheckAhead, Goes, Boots

(* The guard's words, where every database has one plugin: a refused boot  *)
(* met a newer build's migration.  The run shared_journal shows that the   *)
(* hypothesis is needed, because a journal row does not name its plugin.   *)
THEOREM RefusedByNewer ==
  ASSUME NEW p, Plugins = {p}
  PROVE  Spec => []RefusedMeansNewer
<1>1. Init => RefusedMeansNewer
  BY DEF Init, RefusedMeansNewer, At, Idle, Run
<1>2. IInv /\ RefusedMeansNewer /\ [Next]_vars => RefusedMeansNewer'
  <2> SUFFICES ASSUME IInv, RefusedMeansNewer, [Next]_vars,
                      NEW b \in Migrators, At(b, "refused")'
               PROVE  \E n \in 1..Longest : n > LengthOf[b] /\ <<PluginOf[b], n>> \in Journaled'
    BY DEF RefusedMeansNewer
  <2>t. boot \in [Migrators -> Boots] /\ PluginOf[b] = p /\ LengthOf[b] \in 0..Longest
    BY DEF IInv, TypeOK, Boots
  <2>1. Journaled \subseteq Journaled'
    BY JournalGrows
  <2>2. CASE At(b, "refused")
    BY <2>1, <2>2 DEF RefusedMeansNewer
  <2>3. CASE ~At(b, "refused")
    <3>1. CheckAhead(b) /\ ~(Journaled \subseteq Known(b))
      BY <2>t, <2>3, RefusedByGuard
    <3>2. PICK m \in Migrations : m \in Journaled /\ m \notin Known(b)
      BY <3>1 DEF Journaled
    <3>3. PICK n \in 1..Longest : m = <<p, n>>
      BY DEF Migrations
    <3>4. n > LengthOf[b]
      BY <2>t, <3>2, <3>3 DEF Known
    <3> QED BY <2>t, <2>1, <3>2, <3>3, <3>4
  <2> QED BY <2>2, <2>3
<1> QED BY <1>1, <1>2, Invariance, PTL DEF Spec

----------------------------------------------------------------------------
(* A lock is always one that a transaction still running will give back:   *)
(* none outlives the boot that took it, however that boot ended.           *)
LocksAreHeld == lock # None => lock \in Migrators /\ boot[lock].at \in InTransaction

THEOREM NoLockIsLeft == Spec => []LocksAreHeld
<1>1. IInv => LocksAreHeld
  BY DEF IInv, TypeOK, Held, LocksAreHeld
<1> QED BY <1>1, Invariance, PTL

(* How far a boot is in the handling of one migration.                     *)
Stage(place) ==
  CASE place = "guard" -> 0
    [] place = "read" -> 1
    [] place = "loop" -> 2
    [] place = "locked" -> 3
    [] place \in {"record", "apply"} -> 4
    [] OTHER -> 5

Over == {"ready", "refused", "failed"}

(* The boot is over, or retried once more, or at a later migration, or     *)
(* further with the same one.                                              *)
Further(b) ==
  \/ boot'[b].at \in Over
  \/ boot'[b].tries > boot[b].tries
  \/ /\ boot'[b].tries = boot[b].tries
     /\ \/ boot'[b].next > boot[b].next
        \/ /\ boot'[b].next = boot[b].next
           /\ Stage(boot'[b].at) > Stage(boot[b].at)

(* A boot that has not read the journal is before its first migration.     *)
AtFirst == \A b \in Migrators : boot[b].at \in {"guard", "read"} => boot[b].next = 1

(* Every step of a boot, failures of its run included, brings it further,  *)
(* and nobody else moves it.  Retries, migrations and stages are bounded   *)
(* (TypeCorrect), so no boot runs for ever: the retries of a run, which    *)
(* starts over each time, are not a loop.                                  *)
BootsProgress ==
  [][\A b \in Migrators :
       /\ Steps(b) \/ RunFails(b) => Further(b)
       /\ boot'[b] # boot[b] => Start(b) \/ Steps(b) \/ RunFails(b) \/ Crash(b)]_vars

LEMMA FirstKept ==
  ASSUME IInv, AtFirst, [Next]_vars
  PROVE  AtFirst'
<1> SUFFICES ASSUME NEW b \in Migrators, boot'[b].at \in {"guard", "read"}
             PROVE  boot'[b].next = 1
  BY DEF AtFirst
<1>t. boot \in [Migrators -> Boots] /\ boot[b] \in Boots
  BY DEF IInv, TypeOK, Boots
<1>1. CASE boot'[b] = boot[b]
  BY <1>1 DEF AtFirst
<1>2. CASE Start(b) \/ Crash(b)
  BY <1>t, <1>2 DEF Start, Crash, Idle, Run
<1>3. CASE RunFails(b)
  <2>1. PICK r \in AfterFailure(b) : boot' = [boot EXCEPT ![b] = r]
    BY <1>3 DEF RunFails
  <2> QED BY <1>t, <2>1 DEF AfterFailure, Run
<1>4. CASE CheckAhead(b)
  BY <1>t, <1>4 DEF AtFirst, CheckAhead, At, Goes, Boots
<1>5. ~ReadsJournal(b) /\ ~Locks(b) /\ ~Records(b) /\ ~Applies(b)
  BY <1>t DEF ReadsJournal, Locks, Records, Applies, Settled, Run
<1>6. ~Rereads(b)
  BY <1>t DEF Rereads, Settled, Run, Goes, Boots
<1>7. ~RunEnds(b) /\ ~DetectDrift(b)
  BY <1>t DEF RunEnds, DetectDrift, Goes, Boots
<1> QED BY <1>1, <1>2, <1>3, <1>4, <1>5, <1>6, <1>7, OwnSteps DEF Steps

LEMMA StepsFurther ==
  ASSUME IInv, AtFirst, NEW b \in Migrators, Steps(b) \/ RunFails(b)
  PROVE  Further(b)
<1>t. boot \in [Migrators -> Boots] /\ boot[b] \in Boots
  BY DEF IInv, TypeOK, Boots
<1>n. boot[b].next \in Nat /\ boot[b].tries \in Nat
  BY <1>t DEF Boots
<1>1. CASE CheckAhead(b)
  <2>1. PICK to \in {"read", "refused"} : boot' = [boot EXCEPT ![b].at = to]
    BY <1>1 DEF CheckAhead, Goes
  <2>2. boot'[b].at = to /\ boot'[b].next = boot[b].next /\ boot'[b].tries = boot[b].tries
    BY <1>t, <2>1 DEF Boots
  <2> QED BY <1>1, <2>1, <2>2 DEF CheckAhead, At, Further, Over, Stage
<1>2. CASE ReadsJournal(b)
  <2>1. boot'[b].at = "loop" /\ boot'[b].next = 1 /\ boot'[b].tries = boot[b].tries
    BY <1>t, <1>2 DEF ReadsJournal, Run
  <2>2. boot[b].at = "read" /\ boot[b].next = 1
    BY <1>2 DEF ReadsJournal, At, AtFirst
  <2> QED BY <2>1, <2>2 DEF Further, Stage
<1>3. CASE Locks(b)
  <2>1. PICK n \in Turn(b) : boot' = [boot EXCEPT ![b] = Run("locked", n, boot[b].skip, boot[b].tries)]
    BY <1>3 DEF Locks
  <2>2. n \in Nat /\ boot[b].next <= n
    BY <1>t, <1>n, <2>1 DEF Turn, Due
  <2>3. boot'[b].at = "locked" /\ boot'[b].next = n /\ boot'[b].tries = boot[b].tries
    BY <1>t, <2>1 DEF Run
  <2> QED BY <1>n, <1>3, <2>2, <2>3 DEF Locks, At, Further, Stage
<1>4. CASE boot' = [boot EXCEPT ![b] = Settled(b)]
  <2>1. boot'[b].next = boot[b].next + 1 /\ boot'[b].tries = boot[b].tries
    BY <1>t, <1>4 DEF Settled, Run
  <2> QED BY <1>n, <2>1 DEF Further
<1>5. CASE Rereads(b)
  <2>1. CASE boot' = [boot EXCEPT ![b] = Settled(b)]
    BY <1>4, <2>1
  <2>2. CASE Goes(b, IF AlreadyThere(b) THEN "record" ELSE "apply")
    <3>1. PICK to \in {"record", "apply"} : boot' = [boot EXCEPT ![b].at = to]
      BY <2>2 DEF Goes
    <3>2. boot'[b].at = to /\ boot'[b].next = boot[b].next /\ boot'[b].tries = boot[b].tries
      BY <1>t, <3>1 DEF Boots
    <3> QED BY <1>5, <3>1, <3>2 DEF Rereads, At, Further, Stage
  <2> QED BY <1>5, <2>1, <2>2 DEF Rereads
<1>6. CASE Records(b) \/ Applies(b)
  BY <1>4, <1>6 DEF Records, Applies
<1>7. CASE RunEnds(b)
  <2>1. boot'[b].at = "drift" /\ boot'[b].next = boot[b].next /\ boot'[b].tries = boot[b].tries
    BY <1>t, <1>7 DEF RunEnds, Goes, Boots
  <2> QED BY <1>7, <2>1 DEF RunEnds, At, Further, Stage
<1>8. CASE DetectDrift(b)
  <2>1. PICK to \in {"ready", "failed"} : boot' = [boot EXCEPT ![b].at = to]
    BY <1>8 DEF DetectDrift, Goes
  <2> QED BY <1>t, <2>1 DEF Boots, Further, Over
<1>9. CASE RunFails(b)
  <2>1. PICK r \in AfterFailure(b) : boot' = [boot EXCEPT ![b] = r]
    BY <1>9 DEF RunFails
  <2>2. boot'[b] = r
    BY <1>t, <2>1
  <2>3. r.at = "failed" \/ r.tries = boot[b].tries + 1
    BY <2>1 DEF AfterFailure, Run
  <2> QED BY <1>n, <2>2, <2>3 DEF Further, Over
<1> QED BY <1>1, <1>2, <1>3, <1>5, <1>6, <1>7, <1>8, <1>9 DEF Steps

THEOREM BootsAreBounded == Spec => BootsProgress
<1>1. Init => AtFirst
  BY DEF Init, AtFirst, Idle, Run
<1>2. IInv /\ AtFirst /\ [Next]_vars => AtFirst'
  BY FirstKept
<1>3. IInv /\ AtFirst /\ [Next]_vars
        => [\A b \in Migrators :
              /\ Steps(b) \/ RunFails(b) => Further(b)
              /\ boot'[b] # boot[b] => Start(b) \/ Steps(b) \/ RunFails(b) \/ Crash(b)]_vars
  BY StepsFurther, OwnSteps
<1> QED BY <1>1, <1>2, <1>3, Invariance, PTL DEF Spec, BootsProgress
=============================================================================
