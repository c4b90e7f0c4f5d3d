----------------------------- MODULE Proposals -----------------------------
(***************************************************************************)
(* The proposals plugin (plugins/proposals): submissions, moderation by     *)
(* admins, and the lifecycle of what an approval starts (applying and       *)
(* removing a resource elsewhere).  Every operation reads the row, checks   *)
(* it, and writes it in a later transaction that compares updatedAt; calls  *)
(* of several people interleave between the two.                            *)
(*                                                                         *)
(* Simplifications: the audit log is reduced to its newest entry, a         *)
(* timestamp is an integer, one call per person is in flight.  The work an  *)
(* approval starts is outside this repository (Work).  Calls that end in an *)
(* error or in a plain read change nothing and are no steps.                *)
(***************************************************************************)
EXTENDS Integers, Sequences, FiniteSets

CONSTANTS
  Entities,      \* proposals are addressed by (pluginId, entityId): one plugin
  Submitters, Admins,
  Payloads, Keys,
  None,          \* no row, no key, no call
  Policy,        \* resubmissionPolicy of the submitters' endpoint
  Timeout,       \* LIFECYCLE_TIMEOUT_MS
  MaxClock, MaxVersion  \* bounds of the instance

ASSUME ProposalsAssumption ==
  /\ Submitters \cap Admins = {}
  /\ None \notin Entities \cup Payloads \cup Keys
  /\ Policy \in {"any", "rejected-only", "rejected-or-removed"}
  /\ Timeout \in Nat \ {0} /\ MaxClock \in Nat /\ MaxVersion \in Nat

VARIABLES
  rows,         \* the table proposals
  submissions,  \* the table proposal_submissions, per entity, oldest first
  audit,        \* the newest action of proposal_audit_log, per entity
  clock,        \* Date.now()
  call,         \* what a person's request is about to write
  seen,         \* the row an admin was last shown
  task,         \* the application or removal an admin is carrying out
  live,         \* entities whose resource exists, outside this program
  attempts      \* history: how often an entity's lifecycle was (re)started

vars == <<rows, submissions, audit, clock, call, seen, task, live, attempts>>

People == Submitters \cup Admins

ReviewStatus == {"pending", "approved", "rejected", "removed"}
ApplyStatus == {"not_started", "applying", "applied", "failed"}
RemoveStatus == {"not_started", "removing", "removed", "failed"}
Lifecycle == {"approved", "apply_retried",
              "approval_revocation_started", "removal_retried"}
Marks == {"applied", "apply_failed", "approval_revoked", "remove_failed"}
AuditAction == Lifecycle \cup Marks \cup {"proposed", "rejected", "reopened"}

Row == [review : ReviewStatus, apply : ApplyStatus, remove : RemoveStatus,
        payload : Payloads, updatedAt : Nat]
Submission == [key : Keys \cup {None}, payload : Payloads]
(* A request between two of its awaits: "lookup" has found its idempotency  *)
(* key unused, "write" has read and checked the row (or its absence, from = *)
(* None), "reply" has committed and will load the row to answer with.       *)
Lookups == [at : {"lookup"}, entity : Entities, sub : Submission]
Writes == [at : {"write"}, entity : Entities, from : Nat \cup {None}, to : Row,
           action : AuditAction, sub : Submission \cup {None}]
Replies == [at : {"reply"}, entity : Entities, action : Lifecycle, attempt : Nat]
Call == Lookups \cup Writes \cup Replies
(* What approve or remove lets an admin do: attempt is the one its own      *)
(* transaction started, told the one of the row it was answered with.       *)
Task == [entity : Entities, kind : {"applying", "removing"}, token : Nat,
         outcome : {"todo", "ok", "failed"}, attempt : Nat, told : Nat]

Seen == [entity : Entities, row : Row]

ASSUME NoneAssumption ==
  None \notin Nat \cup AuditAction \cup Row \cup Submission \cup Call \cup Task \cup Seen

TypeOK ==
  /\ rows \in [Entities -> Row \cup {None}]
  /\ submissions \in [Entities -> Seq(Submission)]
  /\ audit \in [Entities -> AuditAction \cup {None}]
  /\ clock \in Nat
  /\ call \in [People -> Call \cup {None}]
  /\ seen \in [Admins -> Seen \cup {None}]
  /\ task \in [Admins -> Task \cup {None}]
  /\ live \subseteq Entities
  /\ attempts \in [Entities -> Nat]

Init ==
  /\ rows = [e \in Entities |-> None]
  /\ submissions = [e \in Entities |-> <<>>]
  /\ audit = [e \in Entities |-> None]
  /\ clock = 0
  /\ call = [p \in People |-> None]
  /\ seen = [a \in Admins |-> None]
  /\ task = [a \in Admins |-> None]
  /\ live = {}
  /\ attempts = [e \in Entities |-> 0]

-----------------------------------------------------------------------------
(* Timestamps double as version tokens: nextTimestamp never repeats one.    *)
nextTimestampStalls(previous) == IF clock > previous THEN clock ELSE previous
nextTimestamp(previous) == IF clock > previous THEN clock ELSE previous + 1

lifecycleTimedOutLate(r) == clock - r.updatedAt > Timeout
lifecycleTimedOut(r) == clock - r.updatedAt >= Timeout

(* The queue the admins work from: getProposals with "actionable".          *)
Actionable(r) ==
  \/ r.review = "pending" \/ r.apply = "failed" \/ r.remove = "failed"
  \/ /\ r.apply = "applying" \/ r.remove = "removing"
     /\ r.updatedAt <= clock - Timeout

(* What each operation requires of the row it read.                         *)
CanResubmit(r) ==
  /\ r.apply # "applying" /\ r.remove # "removing"
  /\ Policy = "rejected-only" => r.review = "rejected"
  /\ Policy = "rejected-or-removed" =>
       r.review \in {"rejected", "removed"} \/ r.remove = "removed"
RetriesApply(r) ==
  /\ r.review = "approved"
  /\ r.apply = "failed" \/ (r.apply = "applying" /\ lifecycleTimedOut(r))
CanApprove(r) == r.apply # "applied" /\ (r.review = "pending" \/ RetriesApply(r))
CanReject(r) ==
  \/ r.review = "pending" /\ r.apply # "applying"
  \/ r.review = "approved" /\ r.apply \in {"not_started", "failed"}
CanReopen(r) == r.review = "rejected"
RetriesRemove(r) ==
  r.remove = "failed" \/ (r.remove = "removing" /\ lifecycleTimedOut(r))
CanRemove(r) ==
  /\ r.review = "approved" /\ r.apply = "applied"
  /\ r.remove = "not_started" \/ RetriesRemove(r)

-----------------------------------------------------------------------------
(* propose: the idempotency key is looked up first (a hit answers with the  *)
(* proposal, or refuses the key's second use), then the row is read.        *)
KeyUnused(k) ==
  \A e \in Entities : \A i \in DOMAIN submissions[e] : submissions[e][i].key # k

FreshRow(payload, previous) ==
  [review |-> "pending", apply |-> "not_started", remove |-> "not_started",
   payload |-> payload, updatedAt |-> nextTimestamp(previous)]

LookUpKey(s, e, sub) ==
  /\ call[s] = None /\ sub.key # None /\ KeyUnused(sub.key)
  /\ call' = [call EXCEPT ![s] = [at |-> "lookup", entity |-> e, sub |-> sub]]
  /\ UNCHANGED <<rows, submissions, audit, clock, seen, task, live, attempts>>

Propose(s, e, sub) ==
  /\ \/ call[s] = None /\ sub.key = None
     \/ call[s] = [at |-> "lookup", entity |-> e, sub |-> sub]
  /\ IF rows[e] = None \/ CanResubmit(rows[e])
       THEN LET previous == IF rows[e] = None THEN 0 ELSE rows[e].updatedAt
            IN  call' = [call EXCEPT ![s] =
                  [at |-> "write", entity |-> e,
                   from |-> IF rows[e] = None THEN None ELSE previous,
                   to |-> FreshRow(sub.payload, previous),
                   action |-> "proposed", sub |-> sub]]
       ELSE call' = [call EXCEPT ![s] = None]
  /\ UNCHANGED <<rows, submissions, audit, clock, seen, task, live, attempts>>

(* The operations of admins carry the version the admin was shown.          *)
View(a, e) ==
  /\ call[a] = None /\ rows[e] # None
  /\ seen' = [seen EXCEPT ![a] = [entity |-> e, row |-> rows[e]]]
  /\ UNCHANGED <<rows, submissions, audit, clock, call, task, live, attempts>>

WriteLater(a, e, to, action) ==
  /\ call[a] = None
  /\ call' = [call EXCEPT ![a] =
       [at |-> "write", entity |-> e, from |-> rows[e].updatedAt,
        to |-> [to EXCEPT !.updatedAt = nextTimestamp(rows[e].updatedAt)],
        action |-> action, sub |-> None]]
  /\ UNCHANGED <<rows, submissions, audit, clock, seen, task, live, attempts>>

IsCurrent(a, e) ==
  /\ seen[a] # None /\ seen[a].entity = e
  /\ rows[e] # None /\ rows[e].updatedAt = seen[a].row.updatedAt

Approve(a, e) ==
  /\ IsCurrent(a, e) /\ CanApprove(rows[e])
  /\ WriteLater(a, e, [rows[e] EXCEPT !.review = "approved", !.apply = "applying"],
                IF RetriesApply(rows[e]) THEN "apply_retried" ELSE "approved")

Reject(a, e) ==
  /\ IsCurrent(a, e) /\ CanReject(rows[e])
  /\ WriteLater(a, e, [rows[e] EXCEPT !.review = "rejected", !.apply = "not_started"],
                "rejected")

Reopen(a, e) ==
  /\ IsCurrent(a, e) /\ CanReopen(rows[e])
  /\ WriteLater(a, e, [rows[e] EXCEPT !.review = "pending"], "reopened")

Remove(a, e) ==
  /\ IsCurrent(a, e) /\ CanRemove(rows[e])
  /\ WriteLater(a, e, [rows[e] EXCEPT !.remove = "removing"],
                IF RetriesRemove(rows[e]) THEN "removal_retried"
                                          ELSE "approval_revocation_started")

(* The marks carry the version the lifecycle was started with.              *)
HoldsAnyVersion(a, e, kind, outcome) ==
  /\ task[a] # None /\ task[a].entity = e /\ task[a].kind = kind
  /\ task[a].outcome = outcome /\ rows[e] # None
Holds(a, e, kind, outcome) ==
  /\ task[a] # None /\ task[a].entity = e /\ task[a].kind = kind
  /\ task[a].outcome = outcome
  /\ rows[e] # None /\ rows[e].updatedAt = task[a].token

MarkApplied(a, e) ==
  /\ Holds(a, e, "applying", "ok") /\ rows[e].apply = "applying"
  /\ WriteLater(a, e, [rows[e] EXCEPT !.apply = "applied"], "applied")

MarkApplyFailed(a, e) ==
  /\ Holds(a, e, "applying", "failed") /\ rows[e].apply = "applying"
  /\ WriteLater(a, e, [rows[e] EXCEPT !.apply = "failed"], "apply_failed")

MarkRemoved(a, e) ==
  /\ Holds(a, e, "removing", "ok") /\ rows[e].remove = "removing"
  /\ WriteLater(a, e, [rows[e] EXCEPT !.review = "removed", !.remove = "removed"],
                "approval_revoked")

MarkRemoveFailed(a, e) ==
  /\ Holds(a, e, "removing", "failed") /\ rows[e].remove = "removing"
  /\ WriteLater(a, e, [rows[e] EXCEPT !.remove = "failed"], "remove_failed")

-----------------------------------------------------------------------------
(* The transaction: the row must still be the version that was read (or     *)
(* still be absent: the unique index on plugin and entity), and a key may   *)
(* be inserted once (the unique index on plugin and key).  Otherwise the    *)
(* whole transaction is undone and the call fails.  What the admin was      *)
(* shown before is outdated either way, and forgotten.                      *)
AcceptsBlindly(c) ==
  /\ c.from = None => rows[c.entity] = None
  /\ c.sub # None /\ c.sub.key # None => KeyUnused(c.sub.key)
AcceptsDuplicateKeys(c) ==
  IF rows[c.entity] = None THEN c.from = None ELSE rows[c.entity].updatedAt = c.from
Accepts(c) ==
  /\ IF rows[c.entity] = None THEN c.from = None
                              ELSE rows[c.entity].updatedAt = c.from
  /\ c.sub # None /\ c.sub.key # None => KeyUnused(c.sub.key)

Commit(p) ==
  /\ call[p] # None /\ call[p].at = "write"
  /\ LET c == call[p] IN
       /\ Accepts(c)
       /\ c.to.updatedAt <= MaxVersion
       /\ rows' = [rows EXCEPT ![c.entity] = c.to]
       /\ audit' = [audit EXCEPT ![c.entity] = c.action]
       /\ submissions' = IF c.sub = None THEN submissions
            ELSE [submissions EXCEPT ![c.entity] = Append(@, c.sub)]
       /\ call' = [call EXCEPT ![p] = IF c.action \in Lifecycle
            THEN [at |-> "reply", entity |-> c.entity, action |-> c.action,
                  attempt |-> attempts[c.entity] + 1]
            ELSE None]
       /\ attempts' = [attempts EXCEPT ![c.entity] =
            IF c.action \in Lifecycle THEN @ + 1 ELSE @]
       /\ task' = IF c.action \in Marks THEN [task EXCEPT ![p] = None] ELSE task
       /\ seen' = IF p \in Admins THEN [seen EXCEPT ![p] = None] ELSE seen
  /\ UNCHANGED <<clock, live>>

Refused(p) ==
  /\ call[p] # None /\ call[p].at = "write" /\ ~Accepts(call[p])
  /\ call' = [call EXCEPT ![p] = None]
  /\ seen' = IF p \in Admins THEN [seen EXCEPT ![p] = None] ELSE seen
  /\ UNCHANGED <<rows, submissions, audit, clock, task, live, attempts>>

(* The answer of approve and remove is loaded after the commit: it is the   *)
(* row as it is by then, and its version is what the marks will carry.      *)
Reply(a) ==
  /\ call[a] # None /\ call[a].at = "reply"
  /\ LET e == call[a].entity IN
       /\ seen' = [seen EXCEPT ![a] = [entity |-> e, row |-> rows[e]]]
       /\ task' = [task EXCEPT ![a] =
            [entity |-> e, token |-> rows[e].updatedAt, outcome |-> "todo",
             kind |-> IF call[a].action \in {"approved", "apply_retried"}
                        THEN "applying" ELSE "removing",
             attempt |-> call[a].attempt, told |-> attempts[e]]]
  /\ call' = [call EXCEPT ![a] = None]
  /\ UNCHANGED <<rows, submissions, audit, clock, live, attempts>>

-----------------------------------------------------------------------------
(* Outside: the admin's client creates or destroys the resource, or fails;  *)
(* creating what exists fails.  It may never report, like one that crashed. *)
Work(a) ==
  /\ task[a] # None /\ task[a].outcome = "todo" /\ call[a] = None
  /\ \/ /\ task[a].kind = "applying" => task[a].entity \notin live
        /\ task' = [task EXCEPT ![a].outcome = "ok"]
        /\ live' = IF task[a].kind = "applying" THEN live \cup {task[a].entity}
                                                ELSE live \ {task[a].entity}
     \/ task' = [task EXCEPT ![a].outcome = "failed"] /\ UNCHANGED live
  /\ UNCHANGED <<rows, submissions, audit, clock, call, seen, attempts>>

Tick ==
  /\ clock < MaxClock
  /\ clock' = clock + 1
  /\ UNCHANGED <<rows, submissions, audit, call, seen, task, live, attempts>>

AdminStep(a, e) ==
  \/ View(a, e) \/ Approve(a, e) \/ Reject(a, e) \/ Reopen(a, e) \/ Remove(a, e)
  \/ MarkApplied(a, e) \/ MarkApplyFailed(a, e)
  \/ MarkRemoved(a, e) \/ MarkRemoveFailed(a, e)

Next ==
  \/ \E s \in Submitters, e \in Entities, k \in Keys \cup {None}, p \in Payloads :
       LET sub == [key |-> k, payload |-> p]
       IN  LookUpKey(s, e, sub) \/ Propose(s, e, sub)
  \/ \E a \in Admins, e \in Entities : AdminStep(a, e)
  \/ \E p \in People : Commit(p) \/ Refused(p)
  \/ \E a \in Admins : Reply(a) \/ Work(a)
  \/ Tick

Spec == Init /\ [][Next]_vars

-----------------------------------------------------------------------------
(* What the newest audit entry says the row's three statuses are.           *)
StateAfter(action) ==
  CASE action \in {"proposed", "reopened"} -> <<"pending", "not_started", "not_started">>
    [] action = "rejected" -> <<"rejected", "not_started", "not_started">>
    [] action \in {"approved", "apply_retried"} -> <<"approved", "applying", "not_started">>
    [] action = "apply_failed" -> <<"approved", "failed", "not_started">>
    [] action = "applied" -> <<"approved", "applied", "not_started">>
    [] action \in {"approval_revocation_started", "removal_retried"} ->
         <<"approved", "applied", "removing">>
    [] action = "remove_failed" -> <<"approved", "applied", "failed">>
    [] action = "approval_revoked" -> <<"removed", "applied", "removed">>

(* The audit log, the submissions and the row never disagree, whatever      *)
(* calls interleave: the newest audit entry tells the three statuses (each  *)
(* operation resets the fields the next one relies on), the newest          *)
(* submission is the payload under review (propose and appendAudit share a  *)
(* transaction with the row).                                               *)
AuditTellsState ==
  \A e \in Entities :
    IF rows[e] = None THEN audit[e] = None /\ submissions[e] = <<>>
    ELSE /\ audit[e] # None
         /\ <<rows[e].review, rows[e].apply, rows[e].remove>> = StateAfter(audit[e])
         /\ submissions[e] # <<>>
         /\ rows[e].payload = submissions[e][Len(submissions[e])].payload

(* A retried propose is recorded once: an idempotency key stands for at     *)
(* most one submission, of one entity (look-up first, unique index last).   *)
KeyOnce ==
  \A e, f \in Entities : \A i \in DOMAIN submissions[e], j \in DOMAIN submissions[f] :
    /\ submissions[e][i].key = submissions[f][j].key
    /\ submissions[e][i].key # None
    => e = f /\ i = j

(* The admins' queue (a SQL filter) and the guards of approve and remove    *)
(* (code) agree to the millisecond: what is shown as actionable can be      *)
(* approved, retried or removed, and a lifecycle that may be retried is     *)
(* shown.                                                                   *)
QueueMatchesGuards ==
  \A e \in Entities : rows[e] # None =>
    (Actionable(rows[e]) <=>
       CanApprove(rows[e]) \/ (CanRemove(rows[e]) /\ RetriesRemove(rows[e])))

(* A decision is about what the admin was shown: whoever turns a pending    *)
(* proposal into an approved or rejected one saw exactly that row, payload  *)
(* included (expectedUpdatedAt, and versions are never reused).             *)
DecisionOnWhatWasSeen ==
  [][\A e \in Entities :
       /\ rows[e] # None /\ rows[e].review = "pending"
       /\ rows'[e].review # "pending"
       => \E a \in Admins :
            /\ call[a] # None /\ call'[a] # call[a]
            /\ seen[a] = [entity |-> e, row |-> rows[e]]]_vars

(* An attempt that was superseded before its reply was loaded, and passes   *)
(* for the one that superseded it.                                          *)
Mistaken(k) == k.told # k.attempt

(* While a resource is being applied or removed, only two things change the *)
(* row: the report of the very attempt that is current, or a retry once the *)
(* attempt is older than the timeout.  A resubmission or a rejection never  *)
(* does, nor the report of a superseded attempt, with the one exception of  *)
(* one whose reply was loaded after the retry (proposals.ts:491, 697).      *)
LifecycleOwnsRow ==
  [][\A e \in Entities :
       /\ rows[e] # None /\ rows[e] # rows'[e]
       /\ rows[e].apply = "applying" \/ rows[e].remove = "removing"
       => \E a \in Admins :
            /\ call[a] # None /\ call[a].at = "write" /\ call'[a] # call[a]
            /\ \/ /\ call[a].action \in Marks
                  /\ \/ task[a].attempt = attempts[e]
                     \/ Mistaken(task[a]) /\ task[a].told = attempts[e]
               \/ /\ call[a].action \in {"apply_retried", "removal_retried"}
                  /\ clock - rows[e].updatedAt >= Timeout]_vars

=============================================================================
