-------------------------- MODULE Proposals_proofs --------------------------
(***************************************************************************)
(* What holds of the proposals plugin for any number of people, entities,   *)
(* keys and versions: the row, its audit log and its submissions agree, and *)
(* only the right calls change a row that is being decided or worked on.    *)
(***************************************************************************)
EXTENDS Proposals, SequenceTheorems, TLAPS

USE ProposalsAssumption, NoneAssumption

(* What is known of a write that has read its row and not committed yet.    *)
(* If the row is still the one it read, what it is about to do is right for *)
(* that row.                                                                *)
Triple(r) == <<r.review, r.apply, r.remove>>
Versions(c) ==
  c.from # None =>
    /\ rows[c.entity] # None
    /\ c.from <= rows[c.entity].updatedAt /\ c.from < c.to.updatedAt
StillRead(c) == rows[c.entity] # None /\ rows[c.entity].updatedAt = c.from
Suits(c) ==
  StillRead(c) =>
    /\ c.sub = None => c.to.payload = rows[c.entity].payload
    /\ rows[c.entity].review = "pending" => c.action \notin Marks
    /\ (rows[c.entity].apply = "applying" \/ rows[c.entity].remove = "removing") =>
         \/ c.action \in Marks
         \/ /\ c.action \in {"apply_retried", "removal_retried"}
            /\ clock - rows[c.entity].updatedAt >= Timeout
OfSubmitter(c) == c.sub # None /\ c.action = "proposed" /\ c.to.payload = c.sub.payload
OfAdmin(a, c) ==
  /\ c.sub = None /\ c.from # None
  /\ c.action \notin Marks =>
       seen[a] # None /\ seen[a].entity = c.entity /\ seen[a].row.updatedAt = c.from
  /\ c.action \in Marks =>
       task[a] # None /\ task[a].entity = c.entity /\ task[a].token = c.from
Fits(p, c) ==
  /\ Triple(c.to) = StateAfter(c.action)
  /\ Versions(c)
  /\ Suits(c)
  /\ IF p \in Submitters THEN OfSubmitter(c) ELSE OfAdmin(p, c)

WritesFit == \A p \in People : call[p] # None /\ call[p].at = "write" => Fits(p, call[p])
RepliesFit ==
  \A p \in People : call[p] # None /\ call[p].at = "reply" => rows[call[p].entity] # None

(* What an admin was shown, and the task an admin carries out, are of a     *)
(* version of the row that is no later than the current one.                *)
SeenFits ==
  \A a \in Admins : seen[a] # None =>
    /\ rows[seen[a].entity] # None
    /\ seen[a].row.updatedAt <= rows[seen[a].entity].updatedAt
    /\ seen[a].row.updatedAt = rows[seen[a].entity].updatedAt
         => seen[a].row = rows[seen[a].entity]
TasksFit ==
  \A a \in Admins : task[a] # None =>
    /\ rows[task[a].entity] # None
    /\ task[a].token <= rows[task[a].entity].updatedAt
    /\ task[a].token = rows[task[a].entity].updatedAt
         => task[a].told = attempts[task[a].entity]

IInv ==
  /\ TypeOK /\ AuditTellsState /\ KeyOnce
  /\ WritesFit /\ RepliesFit /\ SeenFits /\ TasksFit

-----------------------------------------------------------------------------
LEMMA NextIsLater ==
  ASSUME TypeOK, NEW n \in Nat PROVE nextTimestamp(n) \in Nat /\ nextTimestamp(n) > n
BY DEF TypeOK, nextTimestamp

LEMMA CallForms ==
  ASSUME TypeOK, NEW p \in People, call[p] # None
  PROVE  /\ call[p].at = "lookup" => call[p] \in Lookups
         /\ call[p].at = "write" => call[p] \in Writes
         /\ call[p].at = "reply" => call[p] \in Replies
         /\ call[p].entity \in Entities
<1>1. call[p] \in Lookups \cup Writes \cup Replies
  BY DEF TypeOK, Call
<1> QED
  BY <1>1 DEF Lookups, Writes, Replies

LEMMA RowIsRow == ASSUME TypeOK, NEW e \in Entities, rows[e] # None PROVE rows[e] \in Row
BY DEF TypeOK

LEMMA Forms ==
  /\ \A c \in Lookups \cup Writes \cup Replies : c \in Call /\ c # None
  /\ \A r \in Row : r # None
  /\ \A s \in Submission : s # None
  /\ \A n \in Nat : n # None
  /\ \A x \in AuditAction : x # None
  /\ Marks \subseteq AuditAction /\ Lifecycle \subseteq AuditAction
  /\ "proposed" \in AuditAction \ (Marks \cup Lifecycle)
BY DEF Call, AuditAction, Marks, Lifecycle

(* The shapes a row can have.                                               *)
Pending(r) == r.review = "pending" /\ r.apply = "not_started" /\ r.remove = "not_started"
Rejected(r) == r.review = "rejected" /\ r.apply = "not_started" /\ r.remove = "not_started"
Applying(r) ==
  /\ r.review = "approved" /\ r.remove = "not_started"
  /\ r.apply \in {"applying", "failed", "applied"}
Removing(r) ==
  /\ r.review = "approved" /\ r.apply = "applied" /\ r.remove \in {"removing", "failed"}
Removed(r) == r.review = "removed" /\ r.apply = "applied" /\ r.remove = "removed"

LEMMA Shapes ==
  ASSUME TypeOK, AuditTellsState, NEW e \in Entities, rows[e] # None
  PROVE  \/ Pending(rows[e]) \/ Rejected(rows[e]) \/ Applying(rows[e])
         \/ Removing(rows[e]) \/ Removed(rows[e])
<1>1. audit[e] \in AuditAction
  BY DEF AuditTellsState, TypeOK
<1>2. <<rows[e].review, rows[e].apply, rows[e].remove>> = StateAfter(audit[e])
  BY DEF AuditTellsState
<1> QED
  BY <1>1, <1>2 DEF StateAfter, AuditAction, Lifecycle, Marks, Pending, Rejected, Applying,
     Removing, Removed

-----------------------------------------------------------------------------
(* Nothing but one request's state changes: what fits goes on fitting.      *)
LEMMA CallOnly ==
  ASSUME IInv, NEW p \in People,
         UNCHANGED <<rows, submissions, audit, clock, seen, task, live, attempts>>,
         \/ call' = [call EXCEPT ![p] = None]
         \/ \E c \in Lookups : call' = [call EXCEPT ![p] = c]
         \/ \E c \in Writes : call' = [call EXCEPT ![p] = c] /\ Fits(p, c)
  PROVE  IInv'
<1>1. TypeOK /\ call \in [People -> Call \cup {None}]
  BY DEF IInv, TypeOK
<1>2. call' \in [People -> Call \cup {None}]
  BY <1>1 DEF Call
<1>3. TypeOK'
  BY <1>1, <1>2 DEF TypeOK
<1>4. AuditTellsState' /\ KeyOnce' /\ SeenFits' /\ TasksFit'
  BY DEF IInv, AuditTellsState, KeyOnce, SeenFits, TasksFit
<1>5. WritesFit'
  <2> SUFFICES ASSUME NEW q \in People, call'[q] # None, call'[q].at = "write"
               PROVE  Fits(q, call'[q])
    BY DEF WritesFit, Fits, Versions, Suits, StillRead, OfSubmitter, OfAdmin, Triple
  <2>1. CASE q # p
    <3>1. call'[q] = call[q]
      BY <1>1, <2>1
    <3> QED
      BY <3>1 DEF IInv, WritesFit
  <2>2. CASE q = p
    BY <1>1, <2>2 DEF Lookups
  <2> QED
    BY <2>1, <2>2
<1>6. RepliesFit'
  <2> SUFFICES ASSUME NEW q \in People, call'[q] # None, call'[q].at = "reply"
               PROVE  rows[call'[q].entity] # None
    BY DEF RepliesFit
  <2>1. call'[q] = call[q]
    BY <1>1 DEF Lookups, Writes
  <2> QED
    BY <2>1 DEF IInv, RepliesFit
<1> QED
  BY <1>3, <1>4, <1>5, <1>6 DEF IInv

LEMMA LookUpStep ==
  ASSUME IInv, NEW s \in Submitters, NEW e \in Entities, NEW sub \in Submission,
         LookUpKey(s, e, sub)
  PROVE  IInv'
<1>1. [at |-> "lookup", entity |-> e, sub |-> sub] \in Lookups
  BY DEF Lookups
<1> QED
  BY <1>1, CallOnly DEF LookUpKey, People

LEMMA FreshRowFits ==
  ASSUME TypeOK, NEW payload \in Payloads, NEW n \in Nat
  PROVE  LET r == FreshRow(payload, n)
         IN  /\ r \in Row /\ r.payload = payload /\ r.updatedAt > n
             /\ Triple(r) = StateAfter("proposed")
<1>1. nextTimestamp(n) \in Nat /\ nextTimestamp(n) > n
  BY NextIsLater
<1> QED
  BY <1>1 DEF FreshRow, Row, ReviewStatus, ApplyStatus, RemoveStatus, Triple, StateAfter

LEMMA ProposeStep ==
  ASSUME IInv, NEW s \in Submitters, NEW e \in Entities, NEW sub \in Submission,
         Propose(s, e, sub)
  PROVE  IInv'
<1> DEFINE previous == IF rows[e] = None THEN 0 ELSE rows[e].updatedAt
<1> DEFINE from == IF rows[e] = None THEN None ELSE previous
<1> DEFINE to == FreshRow(sub.payload, previous)
<1> DEFINE c == [at |-> "write", entity |-> e, from |-> from, to |-> to,
                 action |-> "proposed", sub |-> sub]
<1>1. TypeOK /\ s \in People /\ sub.payload \in Payloads
  BY DEF IInv, People, Submission
<1>2. previous \in Nat /\ from \in Nat \cup {None}
  BY <1>1, RowIsRow DEF Row
<1>3. /\ to \in Row /\ to.payload = sub.payload /\ to.updatedAt > previous
      /\ Triple(to) = StateAfter("proposed")
  BY <1>1, <1>2, FreshRowFits
<1>4. c \in Writes
  BY <1>2, <1>3, Forms DEF Writes
<1>5. ASSUME rows[e] = None \/ CanResubmit(rows[e]) PROVE Fits(s, c)
  <2>1. c.sub # None /\ c.sub = sub /\ c.action = "proposed" /\ c.entity = e
          /\ c.from = from /\ c.to = to
    BY Forms
  <2>2. Triple(c.to) = StateAfter(c.action) /\ OfSubmitter(c)
    BY <1>3, <2>1 DEF OfSubmitter
  <2>3. Versions(c)
    BY <1>2, <1>3, <2>1 DEF Versions
  <2>4. Suits(c)
    BY <1>5, <2>1, Forms DEF Suits, StillRead, CanResubmit
  <2> QED
    BY <2>2, <2>3, <2>4 DEF Fits
<1>6. CASE rows[e] = None \/ CanResubmit(rows[e])
  <2>1. call' = [call EXCEPT ![s] = c]
    BY <1>6 DEF Propose
  <2> QED
    BY <1>1, <1>4, <1>5, <1>6, <2>1, CallOnly DEF Propose
<1>7. CASE ~(rows[e] = None \/ CanResubmit(rows[e]))
  BY <1>1, <1>7, CallOnly DEF Propose
<1> QED
  BY <1>6, <1>7

(* An admin's operation that passed its guards.                             *)
LEMMA WriteLaterStep ==
  ASSUME IInv, NEW a \in Admins, NEW e \in Entities, NEW to \in Row,
         NEW action \in AuditAction, WriteLater(a, e, to, action),
         rows[e] # None, to.payload = rows[e].payload, Triple(to) = StateAfter(action),
         rows[e].review = "pending" => action \notin Marks,
         (rows[e].apply = "applying" \/ rows[e].remove = "removing") =>
           \/ action \in Marks
           \/ /\ action \in {"apply_retried", "removal_retried"}
              /\ clock - rows[e].updatedAt >= Timeout,
         action \notin Marks => IsCurrent(a, e),
         action \in Marks =>
           task[a] # None /\ task[a].entity = e /\ task[a].token = rows[e].updatedAt
  PROVE  IInv'
<1> DEFINE later == [to EXCEPT !.updatedAt = nextTimestamp(rows[e].updatedAt)]
<1> DEFINE c == [at |-> "write", entity |-> e, from |-> rows[e].updatedAt, to |-> later,
                 action |-> action, sub |-> None]
<1>1. a \in People /\ a \notin Submitters /\ TypeOK /\ rows[e] \in Row
  BY RowIsRow DEF IInv, People
<1>2. rows[e].updatedAt \in Nat /\ rows[e].updatedAt # None
  BY <1>1, Forms DEF Row
<1>3. nextTimestamp(rows[e].updatedAt) \in Nat
        /\ nextTimestamp(rows[e].updatedAt) > rows[e].updatedAt
  BY <1>1, <1>2, NextIsLater
<1>4. /\ later \in Row /\ later.payload = to.payload
      /\ later.updatedAt > rows[e].updatedAt /\ Triple(later) = Triple(to)
  BY <1>3 DEF Row, Triple
<1>5. c \in Writes
  BY <1>2, <1>4 DEF Writes
<1>6. /\ c.entity = e /\ c.from = rows[e].updatedAt /\ c.to = later /\ c.action = action
      /\ c.sub = None
  OBVIOUS
<1>7. Triple(c.to) = StateAfter(c.action)
  BY <1>4, <1>6
<1>8. Versions(c)
  <2>1. c.entity = e /\ c.from = rows[e].updatedAt /\ c.to.updatedAt > rows[e].updatedAt
          /\ c.to.updatedAt \in Nat
    BY <1>4, <1>6 DEF Row
  <2> HIDE DEF c, later
  <2> QED
    BY <1>2, <2>1 DEF Versions
<1>9. Suits(c)
  BY <1>4, <1>6 DEF Suits
<1>10. OfAdmin(a, c)
  BY <1>2, <1>6 DEF OfAdmin, IsCurrent
<1>11. Fits(a, c)
  BY <1>1, <1>7, <1>8, <1>9, <1>10 DEF Fits
<1> QED
  BY <1>1, <1>5, <1>11, CallOnly DEF WriteLater

LEMMA StateAfterIs ==
  /\ StateAfter("reopened") = <<"pending", "not_started", "not_started">>
  /\ StateAfter("rejected") = <<"rejected", "not_started", "not_started">>
  /\ StateAfter("approved") = <<"approved", "applying", "not_started">>
  /\ StateAfter("apply_retried") = <<"approved", "applying", "not_started">>
  /\ StateAfter("apply_failed") = <<"approved", "failed", "not_started">>
  /\ StateAfter("applied") = <<"approved", "applied", "not_started">>
  /\ StateAfter("approval_revocation_started") = <<"approved", "applied", "removing">>
  /\ StateAfter("removal_retried") = <<"approved", "applied", "removing">>
  /\ StateAfter("remove_failed") = <<"approved", "applied", "failed">>
  /\ StateAfter("approval_revoked") = <<"removed", "applied", "removed">>
BY DEF StateAfter

LEMMA DecisionStep ==
  ASSUME IInv, NEW a \in Admins, NEW e \in Entities,
         Approve(a, e) \/ Reject(a, e) \/ Reopen(a, e) \/ Remove(a, e)
  PROVE  IInv'
<1>1. rows[e] # None /\ rows[e] \in Row /\ IsCurrent(a, e)
  BY RowIsRow DEF IInv, Approve, Reject, Reopen, Remove, IsCurrent
<1>2. \/ Pending(rows[e]) \/ Rejected(rows[e]) \/ Applying(rows[e])
      \/ Removing(rows[e]) \/ Removed(rows[e])
  BY <1>1, Shapes DEF IInv
<1> USE DEF Pending, Rejected, Applying, Removing, Removed
<1>3. CASE Approve(a, e)
  <2> DEFINE to == [rows[e] EXCEPT !.review = "approved", !.apply = "applying"]
  <2> DEFINE action == IF RetriesApply(rows[e]) THEN "apply_retried" ELSE "approved"
  <2>1. /\ to \in Row /\ to.payload = rows[e].payload /\ to.review = "approved"
        /\ to.apply = "applying" /\ to.remove = rows[e].remove
    BY <1>1 DEF Row, ReviewStatus, ApplyStatus
  <2>2. rows[e].remove = "not_started" /\ rows[e].remove # "removing"
    BY <1>2, <1>3 DEF Approve, CanApprove, RetriesApply
  <2>3. action \in AuditAction /\ action \notin Marks /\ Triple(to) = StateAfter(action)
    BY <2>1, <2>2, StateAfterIs DEF AuditAction, Lifecycle, Marks, Triple
  <2>4. rows[e].apply = "applying" =>
          action = "apply_retried" /\ clock - rows[e].updatedAt >= Timeout
    BY <1>2, <1>3 DEF Approve, CanApprove, RetriesApply, lifecycleTimedOut
  <2> QED
    BY <1>1, <1>3, <2>1, <2>2, <2>3, <2>4, WriteLaterStep DEF Approve
<1>4. CASE Reject(a, e)
  <2> DEFINE to == [rows[e] EXCEPT !.review = "rejected", !.apply = "not_started"]
  <2>1. /\ to \in Row /\ to.payload = rows[e].payload /\ to.review = "rejected"
        /\ to.apply = "not_started" /\ to.remove = rows[e].remove
    BY <1>1 DEF Row, ReviewStatus, ApplyStatus
  <2>2. rows[e].remove = "not_started" /\ rows[e].apply # "applying"
    BY <1>2, <1>4 DEF Reject, CanReject
  <2>3. "rejected" \in AuditAction /\ "rejected" \notin Marks /\ Triple(to) = StateAfter("rejected")
    BY <2>1, <2>2, StateAfterIs DEF AuditAction, Lifecycle, Marks, Triple
  <2> QED
    BY <1>1, <1>4, <2>1, <2>2, <2>3, WriteLaterStep DEF Reject
<1>5. CASE Reopen(a, e)
  <2> DEFINE to == [rows[e] EXCEPT !.review = "pending"]
  <2>1. /\ to \in Row /\ to.payload = rows[e].payload /\ to.review = "pending"
        /\ to.apply = rows[e].apply /\ to.remove = rows[e].remove
    BY <1>1 DEF Row, ReviewStatus
  <2>2. rows[e].remove = "not_started" /\ rows[e].apply = "not_started"
    BY <1>2, <1>5 DEF Reopen, CanReopen
  <2>3. "reopened" \in AuditAction /\ "reopened" \notin Marks /\ Triple(to) = StateAfter("reopened")
    BY <2>1, <2>2, StateAfterIs DEF AuditAction, Lifecycle, Marks, Triple
  <2> QED
    BY <1>1, <1>5, <2>1, <2>2, <2>3, WriteLaterStep DEF Reopen
<1>6. CASE Remove(a, e)
  <2> DEFINE to == [rows[e] EXCEPT !.remove = "removing"]
  <2> DEFINE action == IF RetriesRemove(rows[e]) THEN "removal_retried"
                                                 ELSE "approval_revocation_started"
  <2>1. /\ to \in Row /\ to.payload = rows[e].payload /\ to.review = rows[e].review
        /\ to.apply = rows[e].apply /\ to.remove = "removing"
    BY <1>1 DEF Row, RemoveStatus
  <2>2. rows[e].review = "approved" /\ rows[e].apply = "applied"
    BY <1>6 DEF Remove, CanRemove
  <2>3. action \in AuditAction /\ action \notin Marks /\ Triple(to) = StateAfter(action)
    BY <2>1, <2>2, StateAfterIs DEF AuditAction, Lifecycle, Marks, Triple
  <2>4. rows[e].remove = "removing" =>
          action = "removal_retried" /\ clock - rows[e].updatedAt >= Timeout
    BY <1>6 DEF Remove, CanRemove, RetriesRemove, lifecycleTimedOut
  <2> QED
    BY <1>1, <1>6, <2>1, <2>2, <2>3, <2>4, WriteLaterStep DEF Remove
<1> QED
  BY <1>3, <1>4, <1>5, <1>6

LEMMA MarkStep ==
  ASSUME IInv, NEW a \in Admins, NEW e \in Entities,
         \/ MarkApplied(a, e) \/ MarkApplyFailed(a, e)
         \/ MarkRemoved(a, e) \/ MarkRemoveFailed(a, e)
  PROVE  IInv'
<1> USE DEF Holds
<1>1. /\ rows[e] # None /\ rows[e] \in Row
      /\ task[a] # None /\ task[a].entity = e /\ task[a].token = rows[e].updatedAt
  BY RowIsRow DEF IInv, MarkApplied, MarkApplyFailed, MarkRemoved, MarkRemoveFailed
<1>2. \/ Pending(rows[e]) \/ Rejected(rows[e]) \/ Applying(rows[e])
      \/ Removing(rows[e]) \/ Removed(rows[e])
  BY <1>1, Shapes DEF IInv
<1> USE DEF Pending, Rejected, Applying, Removing, Removed
<1>3. CASE MarkApplied(a, e)
  <2> DEFINE to == [rows[e] EXCEPT !.apply = "applied"]
  <2>1. to \in Row /\ to.payload = rows[e].payload /\ to.review = rows[e].review
          /\ to.apply = "applied" /\ to.remove = rows[e].remove
    BY <1>1 DEF Row, ApplyStatus
  <2>2. rows[e].review = "approved" /\ rows[e].remove = "not_started"
    BY <1>2, <1>3 DEF MarkApplied
  <2>3. "applied" \in AuditAction /\ "applied" \in Marks /\ Triple(to) = StateAfter("applied")
    BY <2>1, <2>2, StateAfterIs DEF AuditAction, Marks, Triple
  <2> QED
    BY <1>1, <1>3, <2>1, <2>2, <2>3, WriteLaterStep DEF MarkApplied
<1>4. CASE MarkApplyFailed(a, e)
  <2> DEFINE to == [rows[e] EXCEPT !.apply = "failed"]
  <2>1. to \in Row /\ to.payload = rows[e].payload /\ to.review = rows[e].review
          /\ to.apply = "failed" /\ to.remove = rows[e].remove
    BY <1>1 DEF Row, ApplyStatus
  <2>2. rows[e].review = "approved" /\ rows[e].remove = "not_started"
    BY <1>2, <1>4 DEF MarkApplyFailed
  <2>3. "apply_failed" \in AuditAction /\ "apply_failed" \in Marks
          /\ Triple(to) = StateAfter("apply_failed")
    BY <2>1, <2>2, StateAfterIs DEF AuditAction, Marks, Triple
  <2> QED
    BY <1>1, <1>4, <2>1, <2>2, <2>3, WriteLaterStep DEF MarkApplyFailed
<1>5. CASE MarkRemoved(a, e)
  <2> DEFINE to == [rows[e] EXCEPT !.review = "removed", !.remove = "removed"]
  <2>1. to \in Row /\ to.payload = rows[e].payload /\ to.review = "removed"
          /\ to.apply = rows[e].apply /\ to.remove = "removed"
    BY <1>1 DEF Row, ReviewStatus, RemoveStatus
  <2>2. rows[e].review = "approved" /\ rows[e].apply = "applied"
    BY <1>2, <1>5 DEF MarkRemoved
  <2>3. "approval_revoked" \in AuditAction /\ "approval_revoked" \in Marks
          /\ Triple(to) = StateAfter("approval_revoked")
    BY <2>1, <2>2, StateAfterIs DEF AuditAction, Marks, Triple
  <2> QED
    BY <1>1, <1>5, <2>1, <2>2, <2>3, WriteLaterStep DEF MarkRemoved
<1>6. CASE MarkRemoveFailed(a, e)
  <2> DEFINE to == [rows[e] EXCEPT !.remove = "failed"]
  <2>1. to \in Row /\ to.payload = rows[e].payload /\ to.review = rows[e].review
          /\ to.apply = rows[e].apply /\ to.remove = "failed"
    BY <1>1 DEF Row, RemoveStatus
  <2>2. rows[e].review = "approved" /\ rows[e].apply = "applied"
    BY <1>2, <1>6 DEF MarkRemoveFailed
  <2>3. "remove_failed" \in AuditAction /\ "remove_failed" \in Marks
          /\ Triple(to) = StateAfter("remove_failed")
    BY <2>1, <2>2, StateAfterIs DEF AuditAction, Marks, Triple
  <2> QED
    BY <1>1, <1>6, <2>1, <2>2, <2>3, WriteLaterStep DEF MarkRemoveFailed
<1> QED
  BY <1>3, <1>4, <1>5, <1>6

-----------------------------------------------------------------------------
LEMMA ViewStep == ASSUME IInv, NEW a \in Admins, NEW e \in Entities, View(a, e) PROVE IInv'
<1> DEFINE s == [entity |-> e, row |-> rows[e]]
<1>1. TypeOK /\ rows[e] \in Row /\ rows[e].updatedAt \in Nat /\ a \in People /\ rows[e] # None
  BY RowIsRow DEF IInv, View, Row, People
<1>2. s \in Seen /\ s.entity = e /\ s.row = rows[e]
  BY <1>1 DEF Seen
<1>3. seen \in [Admins -> Seen \cup {None}] /\ seen' = [seen EXCEPT ![a] = s]
  BY <1>1 DEF View, TypeOK
<1> HIDE DEF s
<1>4. TypeOK'
  BY <1>1, <1>2, <1>3 DEF TypeOK, View
<1>5. AuditTellsState' /\ KeyOnce' /\ TasksFit' /\ RepliesFit'
  BY DEF IInv, View, AuditTellsState, KeyOnce, TasksFit, RepliesFit
<1>6. SeenFits'
  <2> SUFFICES ASSUME NEW b \in Admins, seen'[b] # None
               PROVE  /\ rows[seen'[b].entity] # None
                      /\ seen'[b].row.updatedAt <= rows[seen'[b].entity].updatedAt
                      /\ seen'[b].row.updatedAt = rows[seen'[b].entity].updatedAt
                           => seen'[b].row = rows[seen'[b].entity]
    BY DEF SeenFits, View
  <2>1. CASE b = a
    BY <1>1, <1>2, <1>3, <2>1
  <2>2. CASE b # a
    BY <1>3, <2>2 DEF IInv, SeenFits
  <2> QED
    BY <2>1, <2>2
<1>7. WritesFit'
  <2> SUFFICES ASSUME NEW q \in People, call[q] # None, call[q].at = "write"
               PROVE  Fits(q, call[q])'
    BY DEF WritesFit, View
  <2>1. Fits(q, call[q]) /\ call' = call /\ q # a
    BY DEF IInv, WritesFit, View
  <2>2. q \in Admins => seen'[q] = seen[q]
    BY <1>3, <2>1
  <2> QED
    BY <2>1, <2>2 DEF Fits, Versions, Suits, StillRead, OfSubmitter, OfAdmin, Triple, View, People
<1> QED
  BY <1>4, <1>5, <1>6, <1>7 DEF IInv

LEMMA RefusedStep == ASSUME IInv, NEW p \in People, Refused(p) PROVE IInv'
<1>1. TypeOK /\ call' \in [People -> Call \cup {None}] /\ seen' \in [Admins -> Seen \cup {None}]
  BY DEF IInv, TypeOK, Refused
<1>2. TypeOK'
  BY <1>1 DEF TypeOK, Refused
<1>3. \A q \in People : call'[q] # None => q # p /\ call'[q] = call[q]
  BY <1>1 DEF Refused, TypeOK
<1>4. \A b \in Admins : seen'[b] # None \/ b # p => seen'[b] = seen[b]
  BY <1>1 DEF Refused, TypeOK
<1>5. AuditTellsState' /\ KeyOnce' /\ TasksFit'
  BY DEF IInv, Refused, AuditTellsState, KeyOnce, TasksFit
<1>6. RepliesFit'
  BY <1>3 DEF IInv, Refused, RepliesFit
<1>7. SeenFits'
  <2>1. UNCHANGED rows
    BY DEF Refused
  <2> QED
    BY <1>4, <2>1 DEF IInv, SeenFits
<1>8. WritesFit'
  <2> SUFFICES ASSUME NEW q \in People, call'[q] # None, call'[q].at = "write"
               PROVE  Fits(q, call[q])'
    BY <1>3 DEF WritesFit, Fits, Versions, Suits, StillRead, OfSubmitter, OfAdmin, Triple
  <2>1. Fits(q, call[q]) /\ q # p /\ call'[q] = call[q]
    BY <1>3 DEF IInv, WritesFit
  <2>2. q \in Admins => seen'[q] = seen[q]
    BY <1>4, <2>1
  <2>3. UNCHANGED <<rows, clock, task>>
    BY DEF Refused
  <2> QED
    BY <2>1, <2>2, <2>3 DEF Fits, Versions, Suits, StillRead, OfSubmitter, OfAdmin, Triple,
       People
<1> QED
  BY <1>2, <1>5, <1>6, <1>7, <1>8 DEF IInv

LEMMA WorkStep == ASSUME IInv, NEW a \in Admins, Work(a) PROVE IInv'
<1>1. TypeOK /\ task[a] # None /\ task[a] \in Task /\ a \in People
  BY DEF IInv, TypeOK, Work, People
<1>2. PICK o \in {"ok", "failed"} : task' = [task EXCEPT ![a].outcome = o]
  BY DEF Work
<1>3. [task[a] EXCEPT !.outcome = o] \in Task
  BY <1>1 DEF Task
<1>4. task' \in [Admins -> Task \cup {None}] /\ live' \subseteq Entities
  BY <1>1, <1>2, <1>3 DEF TypeOK, Work, Task
<1>5. TypeOK'
  BY <1>1, <1>4 DEF TypeOK, Work
<1>6. \A b \in Admins :
        /\ task'[b] # None <=> task[b] # None
        /\ task[b] # None => /\ task'[b].entity = task[b].entity
                             /\ task'[b].token = task[b].token
                             /\ task'[b].told = task[b].told
  <2> SUFFICES ASSUME NEW b \in Admins
               PROVE  /\ task'[b] # None <=> task[b] # None
                      /\ task[b] # None => /\ task'[b].entity = task[b].entity
                                           /\ task'[b].token = task[b].token
                                           /\ task'[b].told = task[b].told
    OBVIOUS
  <2>1. CASE b = a
    <3>1. task'[a] = [task[a] EXCEPT !.outcome = o]
      BY <1>1, <1>2 DEF TypeOK
    <3> QED
      BY <1>1, <1>3, <2>1, <3>1 DEF Task
  <2>2. CASE b # a
    BY <1>1, <1>2, <2>2 DEF TypeOK
  <2> QED
    BY <2>1, <2>2
<1>7. UNCHANGED <<rows, submissions, audit, clock, call, seen, attempts>>
  BY DEF Work
<1>8. AuditTellsState' /\ KeyOnce' /\ RepliesFit' /\ SeenFits'
  BY <1>7 DEF IInv, AuditTellsState, KeyOnce, RepliesFit, SeenFits
<1>9. TasksFit'
  BY <1>6, <1>7 DEF IInv, TasksFit
<1>10. WritesFit'
  <2> SUFFICES ASSUME NEW q \in People, call[q] # None, call[q].at = "write"
               PROVE  Fits(q, call[q])'
    BY <1>7 DEF WritesFit
  <2>1. Fits(q, call[q])
    BY DEF IInv, WritesFit
  <2> QED
    BY <1>6, <1>7, <2>1 DEF Fits, Versions, Suits, StillRead, OfSubmitter, OfAdmin, Triple, People
<1> QED
  BY <1>5, <1>8, <1>9, <1>10 DEF IInv

LEMMA TickStep == ASSUME IInv, Tick PROVE IInv'
<1>1. UNCHANGED <<rows, submissions, audit, call, seen, task, live, attempts>>
        /\ clock \in Nat /\ clock' \in Nat /\ clock' > clock /\ TypeOK
  BY DEF Tick, IInv, TypeOK
<1>2. TypeOK'
  BY <1>1 DEF TypeOK
<1>3. AuditTellsState' /\ KeyOnce' /\ RepliesFit' /\ SeenFits' /\ TasksFit'
  BY <1>1 DEF IInv, AuditTellsState, KeyOnce, RepliesFit, SeenFits, TasksFit
<1>4. WritesFit'
  <2> SUFFICES ASSUME NEW q \in People, call[q] # None, call[q].at = "write"
               PROVE  Fits(q, call[q])'
    BY <1>1 DEF WritesFit
  <2>1. Fits(q, call[q]) /\ call[q].entity \in Entities
    BY <1>1, CallForms DEF IInv, WritesFit
  <2>2. Suits(call[q])'
    <3>1. Suits(call[q])
      BY <2>1 DEF Fits
    <3>2. rows[call[q].entity] # None => rows[call[q].entity].updatedAt \in Nat
      BY <1>1, <2>1, RowIsRow DEF Row
    <3>3. rows[call[q].entity] # None /\ clock - rows[call[q].entity].updatedAt >= Timeout
            => clock' - rows[call[q].entity].updatedAt >= Timeout
      BY <1>1, <3>2
    <3> QED
      BY <1>1, <3>1, <3>3 DEF Suits, StillRead
  <2> QED
    BY <1>1, <2>1, <2>2 DEF Fits, Versions, OfSubmitter, OfAdmin, Triple
<1> QED
  BY <1>2, <1>3, <1>4 DEF IInv

LEMMA ReplyStep == ASSUME IInv, NEW a \in Admins, Reply(a) PROVE IInv'
<1> DEFINE e == call[a].entity
<1> DEFINE k == IF call[a].action \in {"approved", "apply_retried"} THEN "applying" ELSE "removing"
<1> DEFINE s == [entity |-> e, row |-> rows[e]]
<1> DEFINE t == [entity |-> e, token |-> rows[e].updatedAt, outcome |-> "todo", kind |-> k,
                 attempt |-> call[a].attempt, told |-> attempts[e]]
<1>1. TypeOK /\ a \in People /\ e \in Entities /\ rows[e] # None /\ rows[e] \in Row
        /\ rows[e].updatedAt \in Nat /\ attempts[e] \in Nat /\ call[a].attempt \in Nat
  <2>1. TypeOK /\ a \in People /\ e \in Entities /\ rows[e] # None
    BY CallForms DEF IInv, People, Reply, RepliesFit
  <2>2. call[a].attempt \in Nat
    BY <2>1, CallForms DEF Reply, Replies
  <2> QED
    BY <2>1, <2>2, RowIsRow DEF Row, TypeOK
<1>2. s \in Seen /\ s.entity = e /\ s.row = rows[e]
  BY <1>1 DEF Seen
<1>3. t \in Task /\ t.entity = e /\ t.token = rows[e].updatedAt /\ t.told = attempts[e]
  BY <1>1 DEF Task
<1>4. /\ seen' = [seen EXCEPT ![a] = s] /\ task' = [task EXCEPT ![a] = t]
      /\ call' = [call EXCEPT ![a] = None] /\ call[a].at = "reply" /\ call[a] # None
      /\ UNCHANGED <<rows, submissions, audit, clock, live, attempts>>
  BY DEF Reply
<1>5. /\ seen \in [Admins -> Seen \cup {None}] /\ task \in [Admins -> Task \cup {None}]
      /\ call \in [People -> Call \cup {None}]
  BY <1>1 DEF TypeOK
<1> HIDE DEF e, k, s, t
<1>6. TypeOK'
  <2>1. /\ seen' \in [Admins -> Seen \cup {None}] /\ task' \in [Admins -> Task \cup {None}]
        /\ call' \in [People -> Call \cup {None}]
    BY <1>2, <1>3, <1>4, <1>5
  <2> QED
    BY <1>1, <1>4, <2>1 DEF TypeOK
<1>7. \A q \in People : call'[q] # None => q # a /\ call'[q] = call[q]
  BY <1>4, <1>5
<1>8. \A b \in Admins : b # a => seen'[b] = seen[b] /\ task'[b] = task[b]
  BY <1>4, <1>5
<1>9. AuditTellsState' /\ KeyOnce' /\ RepliesFit'
  BY <1>4, <1>7 DEF IInv, AuditTellsState, KeyOnce, RepliesFit
<1>10. SeenFits'
  <2> SUFFICES ASSUME NEW b \in Admins, seen'[b] # None
               PROVE  /\ rows[seen'[b].entity] # None
                      /\ seen'[b].row.updatedAt <= rows[seen'[b].entity].updatedAt
                      /\ seen'[b].row.updatedAt = rows[seen'[b].entity].updatedAt
                           => seen'[b].row = rows[seen'[b].entity]
    BY <1>4 DEF SeenFits
  <2>1. CASE b = a
    BY <1>1, <1>2, <1>4, <1>5, <2>1
  <2>2. CASE b # a
    BY <1>8, <2>2 DEF IInv, SeenFits
  <2> QED
    BY <2>1, <2>2
<1>11. TasksFit'
  <2> SUFFICES ASSUME NEW b \in Admins, task'[b] # None
               PROVE  /\ rows[task'[b].entity] # None
                      /\ task'[b].token <= rows[task'[b].entity].updatedAt
                      /\ task'[b].token = rows[task'[b].entity].updatedAt
                           => task'[b].told = attempts[task'[b].entity]
    BY <1>4 DEF TasksFit
  <2>1. CASE b = a
    BY <1>1, <1>3, <1>4, <1>5, <2>1
  <2>2. CASE b # a
    BY <1>8, <2>2 DEF IInv, TasksFit
  <2> QED
    BY <2>1, <2>2
<1>12. WritesFit'
  <2> SUFFICES ASSUME NEW q \in People, call'[q] # None, call'[q].at = "write"
               PROVE  Fits(q, call[q])'
    BY <1>7 DEF WritesFit, Fits, Versions, Suits, StillRead, OfSubmitter, OfAdmin, Triple
  <2>1. Fits(q, call[q]) /\ q # a /\ call'[q] = call[q]
    BY <1>7 DEF IInv, WritesFit
  <2>2. q \in Admins => seen'[q] = seen[q] /\ task'[q] = task[q]
    BY <1>8, <2>1
  <2> QED
    BY <1>4, <2>1, <2>2 DEF Fits, Versions, Suits, StillRead, OfSubmitter, OfAdmin, Triple, People
<1> QED
  BY <1>6, <1>9, <1>10, <1>11, <1>12 DEF IInv

-----------------------------------------------------------------------------
(* The transaction.                                                         *)
LEMMA CommitShape ==
  ASSUME IInv, NEW p \in People, Commit(p)
  PROVE  LET c == call[p] IN
           /\ c \in Writes /\ Fits(p, c) /\ c.entity \in Entities /\ c.to \in Row
           /\ c.to.updatedAt \in Nat
           /\ rows' = [rows EXCEPT ![c.entity] = c.to]
           /\ rows'[c.entity] = c.to
           /\ \A e \in Entities : e # c.entity => rows'[e] = rows[e]
           /\ rows[c.entity] # None => /\ c.from = rows[c.entity].updatedAt
                                       /\ rows[c.entity].updatedAt \in Nat
                                       /\ rows[c.entity].updatedAt < c.to.updatedAt
           /\ rows[c.entity] = None => c.from = None
<1> DEFINE c == call[p]
<1>1. TypeOK /\ c \in Writes /\ Fits(p, c)
  BY CallForms DEF Commit, IInv, WritesFit
<1>2. c.entity \in Entities /\ c.to \in Row /\ c.to.updatedAt \in Nat
  BY <1>1 DEF Writes, Row
<1>3. rows' = [rows EXCEPT ![c.entity] = c.to] /\ Accepts(c)
  BY DEF Commit
<1>4. rows'[c.entity] = c.to /\ \A e \in Entities : e # c.entity => rows'[e] = rows[e]
  BY <1>1, <1>2, <1>3 DEF TypeOK
<1>5. rows[c.entity] = None => c.from = None
  BY <1>3 DEF Accepts
<1>6. ASSUME rows[c.entity] # None
      PROVE  /\ c.from = rows[c.entity].updatedAt /\ rows[c.entity].updatedAt \in Nat
             /\ rows[c.entity].updatedAt < c.to.updatedAt
  <2>1. c.from = rows[c.entity].updatedAt
    BY <1>3, <1>6 DEF Accepts
  <2>2. rows[c.entity].updatedAt \in Nat
    BY <1>1, <1>2, <1>6, RowIsRow DEF Row
  <2>3. Versions(c)
    BY <1>1 DEF Fits
  <2> QED
    BY <2>1, <2>2, <2>3, Forms DEF Versions
<1> QED
  BY <1>1, <1>2, <1>3, <1>4, <1>5, <1>6

LEMMA CommitOthers ==
  ASSUME IInv, NEW p \in People, Commit(p)
  PROVE  /\ \A q \in People : q # p => call'[q] = call[q]
         /\ call'[p] # None => /\ call'[p].at = "reply" /\ call'[p].entity = call[p].entity
                               /\ call'[p] \in Replies
         /\ \A b \in Admins : b # p => seen'[b] = seen[b] /\ task'[b] = task[b]
         /\ \A b \in Admins : seen'[b] # None => b # p
         /\ \A b \in Admins : task'[b] # None => task'[b] = task[b]
         /\ \A e \in Entities : e # call[p].entity => attempts'[e] = attempts[e]
<1>1. TypeOK /\ call[p].entity \in Entities
  BY CallForms DEF IInv, Commit
<1>2. /\ \A q \in People : q # p => call'[q] = call[q]
      /\ call'[p] # None => /\ call'[p].at = "reply" /\ call'[p].entity = call[p].entity
                            /\ call'[p] \in Replies
  <2>1. attempts[call[p].entity] + 1 \in Nat
    BY <1>1 DEF TypeOK
  <2> QED
    BY <1>1, <2>1 DEF Commit, TypeOK, Replies
<1>3. /\ \A b \in Admins : b # p => seen'[b] = seen[b]
      /\ \A b \in Admins : seen'[b] # None => b # p
  BY <1>1 DEF Commit, TypeOK
<1>4. \A b \in Admins : /\ b # p => task'[b] = task[b]
                        /\ task'[b] # None => task'[b] = task[b]
  BY <1>1 DEF Commit, TypeOK
<1>5. \A e \in Entities : e # call[p].entity => attempts'[e] = attempts[e]
  BY <1>1 DEF Commit, TypeOK
<1> QED
  BY <1>2, <1>3, <1>4, <1>5

LEMMA CommitTyped == ASSUME IInv, NEW p \in People, Commit(p) PROVE TypeOK'
<1> DEFINE c == call[p]
<1>1. TypeOK /\ c \in Writes /\ c.entity \in Entities /\ c.to \in Row /\ c.action \in AuditAction
        /\ c.sub \in Submission \cup {None}
  BY CommitShape DEF IInv, Writes
<1>2. rows' \in [Entities -> Row \cup {None}]
  BY <1>1, CommitShape DEF TypeOK
<1>3. audit' \in [Entities -> AuditAction \cup {None}]
  BY <1>1 DEF TypeOK, Commit
<1>4. submissions' \in [Entities -> Seq(Submission)]
  <2>1. CASE c.sub = None
    BY <1>1, <2>1 DEF TypeOK, Commit
  <2>2. CASE c.sub # None
    <3>1. submissions[c.entity] \in Seq(Submission) /\ c.sub \in Submission
      BY <1>1, <2>2 DEF TypeOK
    <3>2. Append(submissions[c.entity], c.sub) \in Seq(Submission)
      BY <3>1
    <3>3. submissions' = [submissions EXCEPT ![c.entity] = Append(@, c.sub)]
      BY <2>2 DEF Commit
    <3> QED
      BY <1>1, <3>2, <3>3 DEF TypeOK
  <2> QED
    BY <2>1, <2>2
<1>5. call' \in [People -> Call \cup {None}]
  <2>1. PICK x : call' = [call EXCEPT ![p] = x]
    BY DEF Commit
  <2>2. x = call'[p]
    BY <1>1, <2>1 DEF TypeOK
  <2>3. x \in Call \cup {None}
    BY <2>2, CommitOthers, Forms
  <2> QED
    BY <1>1, <2>1, <2>3 DEF TypeOK
<1>6. seen' \in [Admins -> Seen \cup {None}] /\ task' \in [Admins -> Task \cup {None}]
  BY <1>1 DEF TypeOK, Commit
<1>7. attempts' \in [Entities -> Nat]
  BY <1>1 DEF TypeOK, Commit
<1> QED
  BY <1>1, <1>2, <1>3, <1>4, <1>5, <1>6, <1>7 DEF TypeOK, Commit

LEMMA CommitAudited == ASSUME IInv, NEW p \in People, Commit(p) PROVE AuditTellsState'
<1> SUFFICES ASSUME NEW e \in Entities
             PROVE  IF rows'[e] = None THEN audit'[e] = None /\ submissions'[e] = <<>>
                    ELSE /\ audit'[e] # None
                         /\ Triple(rows'[e]) = StateAfter(audit'[e])
                         /\ submissions'[e] # <<>>
                         /\ rows'[e].payload = submissions'[e][Len(submissions'[e])].payload
  BY DEF AuditTellsState, Triple
<1> DEFINE c == call[p]
<1>1. TypeOK /\ c \in Writes /\ Fits(p, c) /\ c.entity \in Entities /\ c.to \in Row
        /\ c.action \in AuditAction /\ c.sub \in Submission \cup {None}
  BY CommitShape DEF IInv, Writes
<1>2. CASE e # c.entity
  <2>1. rows'[e] = rows[e]
    BY <1>2, CommitShape
  <2>2. audit'[e] = audit[e] /\ submissions'[e] = submissions[e]
    BY <1>1, <1>2 DEF TypeOK, Commit
  <2> QED
    BY <2>1, <2>2 DEF IInv, AuditTellsState, Triple
<1>3. CASE e = c.entity
  <2>1. rows'[e] = c.to /\ c.to # None
    BY <1>1, <1>3, CommitShape, Forms
  <2>2. audit'[e] = c.action /\ c.action # None
    BY <1>1, <1>3, Forms DEF TypeOK, Commit
  <2>3. Triple(c.to) = StateAfter(c.action)
    BY <1>1 DEF Fits
  <2>4. CASE c.sub # None
    <3>1. submissions'[e] = Append(submissions[e], c.sub) /\ submissions[e] \in Seq(Submission)
            /\ c.sub \in Submission
      BY <1>1, <1>3, <2>4 DEF TypeOK, Commit
    <3>2. submissions'[e] # <<>> /\ submissions'[e][Len(submissions'[e])] = c.sub
      BY <3>1
    <3>3. c.to.payload = c.sub.payload
      BY <1>1, <2>4 DEF Fits, OfSubmitter, OfAdmin
    <3> QED
      BY <2>1, <2>2, <2>3, <3>2, <3>3
  <2>5. CASE c.sub = None
    <3>1. submissions'[e] = submissions[e]
      BY <2>5 DEF Commit
    <3>2. p \notin Submitters /\ c.from # None
      BY <1>1, <2>5 DEF Fits, OfSubmitter, OfAdmin
    <3>3. rows[e] # None /\ StillRead(c)
      BY <1>3, <3>2, CommitShape DEF StillRead
    <3>4. c.to.payload = rows[e].payload
      BY <1>1, <1>3, <2>5, <3>3 DEF Fits, Suits
    <3> QED
      BY <2>1, <2>2, <2>3, <3>1, <3>3, <3>4 DEF IInv, AuditTellsState
  <2> QED
    BY <2>4, <2>5
<1> QED
  BY <1>2, <1>3

LEMMA CommitKeyed == ASSUME IInv, NEW p \in People, Commit(p) PROVE KeyOnce'
<1> DEFINE c == call[p]
<1>1. TypeOK /\ c \in Writes /\ c.entity \in Entities /\ c.sub \in Submission \cup {None}
        /\ KeyOnce
  BY CommitShape DEF IInv, Writes
<1>2. CASE c.sub = None
  <2>1. submissions' = submissions
    BY <1>2 DEF Commit
  <2> QED
    BY <1>1, <2>1 DEF KeyOnce
<1>3. CASE c.sub # None
  <2>1. /\ submissions' = [submissions EXCEPT ![c.entity] = Append(@, c.sub)]
        /\ c.sub.key # None => KeyUnused(c.sub.key)
    BY <1>3 DEF Commit, Accepts
  <2> DEFINE old == submissions[c.entity]
  <2>2. old \in Seq(Submission) /\ submissions'[c.entity] = Append(old, c.sub)
          /\ \A e \in Entities : e # c.entity => submissions'[e] = submissions[e]
    BY <1>1, <2>1 DEF TypeOK
  <2>3. /\ DOMAIN submissions'[c.entity] = DOMAIN old \cup {Len(old) + 1}
        /\ \A i \in DOMAIN old : submissions'[c.entity][i] = old[i]
        /\ submissions'[c.entity][Len(old) + 1] = c.sub
    BY <1>1, <1>3, <2>2
  <2>4. ASSUME NEW e \in Entities, NEW i \in DOMAIN submissions'[e]
        PROVE  \/ i \in DOMAIN submissions[e] /\ submissions'[e][i] = submissions[e][i]
               \/ e = c.entity /\ i = Len(old) + 1 /\ submissions'[e][i] = c.sub
    BY <2>2, <2>3
  <2> HIDE DEF c, old
  <2> SUFFICES ASSUME NEW e \in Entities, NEW f \in Entities,
                      NEW i \in DOMAIN submissions'[e], NEW j \in DOMAIN submissions'[f],
                      submissions'[e][i].key = submissions'[f][j].key,
                      submissions'[e][i].key # None
               PROVE  e = f /\ i = j
    BY DEF KeyOnce
  <2>5. CASE submissions'[e][i] = c.sub /\ e = c.entity /\ i = Len(old) + 1
    <3>1. KeyUnused(submissions'[f][j].key)
      BY <2>1, <2>5
    <3> QED
      BY <2>4, <2>5, <3>1 DEF KeyUnused
  <2>6. CASE submissions'[f][j] = c.sub /\ f = c.entity /\ j = Len(old) + 1
    <3>1. KeyUnused(submissions'[e][i].key)
      BY <2>1, <2>6
    <3> QED
      BY <2>4, <2>6, <3>1 DEF KeyUnused
  <2>7. CASE /\ i \in DOMAIN submissions[e] /\ submissions'[e][i] = submissions[e][i]
             /\ j \in DOMAIN submissions[f] /\ submissions'[f][j] = submissions[f][j]
    BY <1>1, <2>7 DEF KeyOnce
  <2> QED
    BY <2>4, <2>5, <2>6, <2>7
<1> QED
  BY <1>2, <1>3

LEMMA CommitFits ==
  ASSUME IInv, NEW p \in People, Commit(p)
  PROVE  WritesFit' /\ RepliesFit' /\ SeenFits' /\ TasksFit'
<1> DEFINE c == call[p]
<1> DEFINE x == c.entity
<1>1. TypeOK /\ c \in Writes /\ Fits(p, c) /\ x \in Entities /\ c.to \in Row
        /\ c.to.updatedAt \in Nat /\ rows'[x] = c.to /\ c.to # None
        /\ \A e \in Entities : e # x => rows'[e] = rows[e]
  BY CommitShape, Forms DEF IInv
<1>2. rows[x] # None => rows[x].updatedAt \in Nat /\ rows[x].updatedAt < c.to.updatedAt
  BY CommitShape
<1>3. UNCHANGED clock
  BY DEF Commit
<1> HIDE DEF x, c
<1>4. WritesFit'
  <2> SUFFICES ASSUME NEW q \in People, call'[q] # None, call'[q].at = "write"
               PROVE  Fits(q, call[q])'
    BY DEF WritesFit
  <2>1. q # p /\ call'[q] = call[q]
    BY CommitOthers
  <2> DEFINE d == call[q]
  <2>2. Fits(q, d) /\ d \in Writes /\ d.entity \in Entities /\ d.from \in Nat \cup {None}
    BY <1>1, <2>1, CallForms DEF IInv, WritesFit, Writes
  <2>3. q \in Admins => seen'[q] = seen[q] /\ task'[q] = task[q]
    BY <2>1, CommitOthers
  <2>4. Versions(d) /\ Suits(d)
    BY <2>2 DEF Fits
  <2>5. d.from # None =>
          /\ rows'[d.entity] # None
          /\ d.from <= rows'[d.entity].updatedAt /\ d.from < d.to.updatedAt
          /\ d.entity = x => d.from < rows'[d.entity].updatedAt
    <3>1. CASE d.entity = x
      BY <1>1, <1>2, <2>2, <2>4, <3>1 DEF Versions
    <3>2. CASE d.entity # x
      BY <1>1, <2>2, <2>4, <3>2 DEF Versions
    <3> QED
      BY <3>1, <3>2
  <2>6. d.entity = x => rows'[d.entity].updatedAt # d.from
    <3>1. rows'[x].updatedAt # None /\ rows'[x].updatedAt \in Nat
      BY <1>1, Forms
    <3> QED
      BY <2>2, <2>5, <3>1
  <2>7. d.entity # x => rows'[d.entity] = rows[d.entity]
    BY <1>1, <2>2
  <2> HIDE DEF d
  <2>8. Versions(d)' /\ Suits(d)'
    <3>1. d' = d
      BY <2>1 DEF d
    <3>2. Versions(d)'
      BY <2>5, <3>1 DEF Versions
    <3>3. Suits(d)'
      BY <1>3, <2>4, <2>6, <2>7, <3>1 DEF Suits, StillRead
    <3> QED
      BY <3>2, <3>3
  <2>9. (Triple(d.to) = StateAfter(d.action))'
          /\ (IF q \in Submitters THEN OfSubmitter(d) ELSE OfAdmin(q, d))'
    <3>1. d' = d
      BY <2>1 DEF d
    <3> QED
      BY <2>2, <2>3, <3>1 DEF Fits, Triple, OfSubmitter, OfAdmin, People
  <2> QED
    BY <2>8, <2>9 DEF Fits, d
<1>5. RepliesFit'
  <2> SUFFICES ASSUME NEW q \in People, call'[q] # None, call'[q].at = "reply"
               PROVE  rows'[call'[q].entity] # None
    BY DEF RepliesFit
  <2>1. CASE q = p
    BY <1>1, <2>1, CommitOthers DEF x, c
  <2>2. CASE q # p
    <3>1. call'[q] = call[q] /\ rows[call[q].entity] # None /\ call[q].entity \in Entities
      BY <1>1, <2>2, CommitOthers, CallForms DEF IInv, RepliesFit
    <3> QED
      BY <1>1, <3>1
  <2> QED
    BY <2>1, <2>2
<1>6. SeenFits'
  <2> SUFFICES ASSUME NEW b \in Admins, seen'[b] # None
               PROVE  /\ rows'[seen'[b].entity] # None
                      /\ seen'[b].row.updatedAt <= rows'[seen'[b].entity].updatedAt
                      /\ seen'[b].row.updatedAt = rows'[seen'[b].entity].updatedAt
                           => seen'[b].row = rows'[seen'[b].entity]
    BY DEF SeenFits
  <2>1. seen'[b] = seen[b]
    BY CommitOthers
  <2>2. seen[b] \in Seen /\ seen[b].row.updatedAt \in Nat /\ seen[b].entity \in Entities
    BY <1>1, <2>1 DEF TypeOK, Seen, Row
  <2>3. CASE seen[b].entity = x
    <3>1. rows[x] # None /\ seen[b].row.updatedAt <= rows[x].updatedAt
      BY <2>1, <2>3 DEF IInv, SeenFits
    <3> QED
      BY <1>1, <1>2, <2>1, <2>2, <2>3, <3>1
  <2>4. CASE seen[b].entity # x
    BY <1>1, <2>1, <2>2, <2>4 DEF IInv, SeenFits
  <2> QED
    BY <2>3, <2>4
<1>7. TasksFit'
  <2> SUFFICES ASSUME NEW b \in Admins, task'[b] # None
               PROVE  /\ rows'[task'[b].entity] # None
                      /\ task'[b].token <= rows'[task'[b].entity].updatedAt
                      /\ task'[b].token = rows'[task'[b].entity].updatedAt
                           => task'[b].told = attempts'[task'[b].entity]
    BY DEF TasksFit
  <2>1. task'[b] = task[b]
    BY CommitOthers
  <2>2. task[b] \in Task /\ task[b].token \in Nat /\ task[b].entity \in Entities
    BY <1>1, <2>1 DEF TypeOK, Task
  <2>3. CASE task[b].entity = x
    <3>1. rows[x] # None /\ task[b].token <= rows[x].updatedAt
      BY <2>1, <2>3 DEF IInv, TasksFit
    <3> QED
      BY <1>1, <1>2, <2>1, <2>2, <2>3, <3>1
  <2>4. CASE task[b].entity # x
    <3>1. attempts'[task[b].entity] = attempts[task[b].entity]
      BY <2>2, <2>4, CommitOthers DEF x, c
    <3> QED
      BY <1>1, <2>1, <2>2, <2>4, <3>1 DEF IInv, TasksFit
  <2> QED
    BY <2>3, <2>4
<1> QED
  BY <1>4, <1>5, <1>6, <1>7

-----------------------------------------------------------------------------
LEMMA InvInit == Init => IInv
<1> SUFFICES ASSUME Init PROVE IInv
  OBVIOUS
<1>1. TypeOK
  BY DEF Init, TypeOK
<1>2. AuditTellsState /\ KeyOnce /\ WritesFit /\ RepliesFit /\ SeenFits /\ TasksFit
  BY DEF Init, AuditTellsState, KeyOnce, WritesFit, RepliesFit, SeenFits, TasksFit
<1> QED
  BY <1>1, <1>2 DEF IInv

LEMMA InvStep == IInv /\ [Next]_vars => IInv'
<1> SUFFICES ASSUME IInv, [Next]_vars PROVE IInv'
  OBVIOUS
<1>1. ASSUME NEW s \in Submitters, NEW e \in Entities, NEW k \in Keys \cup {None},
             NEW p \in Payloads,
             LET sub == [key |-> k, payload |-> p]
             IN  LookUpKey(s, e, sub) \/ Propose(s, e, sub)
      PROVE  IInv'
  <2> DEFINE sub == [key |-> k, payload |-> p]
  <2>1. sub \in Submission
    BY DEF Submission
  <2>2. LookUpKey(s, e, sub) \/ Propose(s, e, sub)
    BY <1>1
  <2> HIDE DEF sub
  <2> QED
    BY <2>1, <2>2, LookUpStep, ProposeStep
<1>2. ASSUME NEW a \in Admins, NEW e \in Entities, AdminStep(a, e) PROVE IInv'
  BY <1>2, ViewStep, DecisionStep, MarkStep DEF AdminStep
<1>3. ASSUME NEW p \in People, Commit(p) PROVE IInv'
  BY <1>3, CommitTyped, CommitAudited, CommitKeyed, CommitFits DEF IInv
<1>4. ASSUME NEW p \in People, Refused(p) PROVE IInv'
  BY <1>4, RefusedStep
<1>5. ASSUME NEW a \in Admins, Reply(a) \/ Work(a) PROVE IInv'
  BY <1>5, ReplyStep, WorkStep
<1>6. ASSUME Tick PROVE IInv'
  BY <1>6, TickStep
<1>7. ASSUME UNCHANGED vars PROVE IInv'
  <2>1. TypeOK' /\ AuditTellsState' /\ KeyOnce' /\ RepliesFit' /\ SeenFits' /\ TasksFit'
    BY <1>7 DEF IInv, vars, TypeOK, AuditTellsState, KeyOnce, RepliesFit, SeenFits, TasksFit
  <2>2. WritesFit'
    BY <1>7 DEF IInv, vars, WritesFit, Fits, Versions, Suits, StillRead, OfSubmitter, OfAdmin,
       Triple
  <2> QED
    BY <2>1, <2>2 DEF IInv
<1> QED
  BY <1>1, <1>2, <1>3, <1>4, <1>5, <1>6, <1>7 DEF Next

LEMMA Invariance == Spec => []IInv
BY InvInit, InvStep, PTL DEF Spec

-----------------------------------------------------------------------------
(* The tables, requests and tasks have their types in every reachable       *)
(* state, for any number of people, entities and keys.                      *)
THEOREM ModerationTyped == Spec => []TypeOK
<1>1. IInv => TypeOK
  BY DEF IInv
<1> QED
  BY <1>1, Invariance, PTL

(* The row, the newest audit entry and the newest submission never          *)
(* disagree, however the calls of submitters and admins interleave.         *)
THEOREM LogAndRowAgree == Spec => []AuditTellsState
<1>1. IInv => AuditTellsState
  BY DEF IInv
<1> QED
  BY <1>1, Invariance, PTL

(* An idempotency key is recorded with one submission at most: the look-up  *)
(* races, the unique index decides.                                         *)
THEOREM KeysAreUsedOnce == Spec => []KeyOnce
<1>1. IInv => KeyOnce
  BY DEF IInv
<1> QED
  BY <1>1, Invariance, PTL

(* What the queue shows as actionable is what approve and remove accept.    *)
THEOREM QueueIsRight == Spec => []QueueMatchesGuards
<1>1. IInv => QueueMatchesGuards
  <2> SUFFICES ASSUME IInv, NEW e \in Entities, rows[e] # None
               PROVE  Actionable(rows[e]) <=>
                        CanApprove(rows[e]) \/ (CanRemove(rows[e]) /\ RetriesRemove(rows[e]))
    BY DEF QueueMatchesGuards
  <2>1. \/ Pending(rows[e]) \/ Rejected(rows[e]) \/ Applying(rows[e])
        \/ Removing(rows[e]) \/ Removed(rows[e])
    BY Shapes DEF IInv
  <2>2. rows[e].updatedAt \in Nat /\ clock \in Nat
    BY RowIsRow DEF IInv, TypeOK, Row
  <2>3. rows[e].updatedAt <= clock - Timeout <=> lifecycleTimedOut(rows[e])
    BY <2>2 DEF lifecycleTimedOut
  <2> QED
    BY <2>1, <2>3 DEF Actionable, CanApprove, RetriesApply, CanRemove, RetriesRemove, Pending,
       Rejected, Applying, Removing, Removed
<1> QED
  BY <1>1, Invariance, PTL

(* Only a commit changes a row.                                             *)
LEMMA OnlyCommitsWrite ==
  ASSUME IInv, Next, NEW e \in Entities, rows'[e] # rows[e]
  PROVE  \E p \in People :
           /\ Commit(p) /\ call[p].entity = e /\ rows'[e] = call[p].to
           /\ call[p] # None /\ call[p].at = "write" /\ call'[p] # call[p]
<1>1. rows' # rows
  OBVIOUS
<1>2. PICK p \in People : Commit(p)
  <2>1. ASSUME NEW a \in Admins, NEW f \in Entities, AdminStep(a, f) PROVE UNCHANGED rows
    BY <2>1 DEF AdminStep, View, Approve, Reject, Reopen, Remove, MarkApplied,
       MarkApplyFailed, MarkRemoved, MarkRemoveFailed, WriteLater
  <2>2. ASSUME NEW s, NEW f, NEW sub, LookUpKey(s, f, sub) \/ Propose(s, f, sub)
        PROVE  UNCHANGED rows
    BY <2>2 DEF LookUpKey, Propose
  <2>3. ASSUME NEW p \in People, Refused(p) PROVE UNCHANGED rows
    BY <2>3 DEF Refused
  <2>4. ASSUME NEW a \in Admins, Reply(a) \/ Work(a) PROVE UNCHANGED rows
    BY <2>4 DEF Reply, Work
  <2>5. Tick => UNCHANGED rows
    BY DEF Tick
  <2> QED
    BY <1>1, <2>1, <2>2, <2>3, <2>4, <2>5 DEF Next
<1>3. call[p].entity = e
  BY <1>2, CommitShape
<1>4. call[p] # None /\ call[p].at = "write"
  BY <1>2 DEF Commit
<1>5. call'[p] # call[p]
  BY <1>2, <1>4, CommitOthers
<1> QED
  BY <1>2, <1>3, <1>4, <1>5, CommitShape

(* A pending proposal is approved or rejected only by an admin who was      *)
(* shown exactly that row: the version compared in the transaction names    *)
(* one content.                                                             *)
THEOREM DecisionsAreInformed == Spec => DecisionOnWhatWasSeen
<1>1. ASSUME IInv, Next, NEW e \in Entities, rows[e] # None, rows[e].review = "pending",
             rows'[e].review # "pending"
      PROVE  \E a \in Admins : /\ call[a] # None /\ call'[a] # call[a]
                               /\ seen[a] = [entity |-> e, row |-> rows[e]]
  <2>1. PICK p \in People : /\ Commit(p) /\ call[p].entity = e /\ rows'[e] = call[p].to
                            /\ call[p] # None /\ call'[p] # call[p]
    BY <1>1, OnlyCommitsWrite
  <2> DEFINE c == call[p]
  <2>2. Fits(p, c) /\ StillRead(c) /\ c.from = rows[e].updatedAt
    BY <1>1, <2>1, CommitShape DEF StillRead
  <2>3. c.action # "proposed"
    BY <1>1, <2>1, <2>2 DEF Fits, Triple, StateAfter
  <2>4. p \in Admins /\ OfAdmin(p, c) /\ c.action \notin Marks
    BY <1>1, <2>1, <2>2, <2>3 DEF Fits, OfSubmitter, Suits, People
  <2>5. seen[p] # None /\ seen[p].entity = e /\ seen[p].row.updatedAt = rows[e].updatedAt
    BY <2>1, <2>2, <2>4 DEF OfAdmin
  <2>6. seen[p].row = rows[e] /\ seen[p] \in Seen
    BY <1>1, <2>4, <2>5 DEF IInv, SeenFits, TypeOK
  <2>7. seen[p] = [entity |-> e, row |-> rows[e]]
    BY <2>5, <2>6 DEF Seen
  <2> QED
    BY <2>1, <2>4, <2>7
<1>2. IInv /\ [Next]_vars =>
        [\A e \in Entities :
           /\ rows[e] # None /\ rows[e].review = "pending"
           /\ rows'[e].review # "pending"
           => \E a \in Admins :
                /\ call[a] # None /\ call'[a] # call[a]
                /\ seen[a] = [entity |-> e, row |-> rows[e]]]_vars
  BY <1>1
<1> QED
  BY <1>2, Invariance, PTL DEF Spec, DecisionOnWhatWasSeen

(* While a resource is being applied or removed, the row changes only by    *)
(* a report made on the current attempt's row (by whom approve or remove    *)
(* had answered with it), or by a retry after the timeout.                  *)
THEOREM AttemptOwnsRow == Spec => LifecycleOwnsRow
<1> DEFINE Owned(e) ==
      \E a \in Admins :
        /\ call[a] # None /\ call[a].at = "write" /\ call'[a] # call[a]
        /\ \/ /\ call[a].action \in Marks
              /\ \/ task[a].attempt = attempts[e]
                 \/ Mistaken(task[a]) /\ task[a].told = attempts[e]
           \/ /\ call[a].action \in {"apply_retried", "removal_retried"}
              /\ clock - rows[e].updatedAt >= Timeout
<1>1. ASSUME IInv, Next, NEW e \in Entities, rows[e] # None, rows[e] # rows'[e],
             rows[e].apply = "applying" \/ rows[e].remove = "removing"
      PROVE  Owned(e)
  <2>1. PICK p \in People : /\ Commit(p) /\ call[p].entity = e /\ call[p].at = "write"
                            /\ call[p] # None /\ call'[p] # call[p]
    BY <1>1, OnlyCommitsWrite
  <2> DEFINE c == call[p]
  <2>2. Fits(p, c) /\ StillRead(c) /\ c.from = rows[e].updatedAt
    BY <1>1, <2>1, CommitShape DEF StillRead
  <2>3. \/ c.action \in Marks
        \/ /\ c.action \in {"apply_retried", "removal_retried"}
           /\ clock - rows[e].updatedAt >= Timeout
    BY <1>1, <2>1, <2>2 DEF Fits, Suits
  <2>4. p \in Admins /\ OfAdmin(p, c)
    BY <2>2, <2>3, Forms DEF Fits, OfSubmitter, People
  <2>5. c.action \in Marks => task[p].told = attempts[e]
    BY <1>1, <2>1, <2>2, <2>4 DEF OfAdmin, IInv, TasksFit
  <2> QED
    BY <2>1, <2>3, <2>4, <2>5 DEF Mistaken
<1>2. IInv /\ [Next]_vars =>
        [\A e \in Entities :
           /\ rows[e] # None /\ rows[e] # rows'[e]
           /\ rows[e].apply = "applying" \/ rows[e].remove = "removing"
           => Owned(e)]_vars
  BY <1>1
<1> QED
  BY <1>2, Invariance, PTL DEF Spec, LifecycleOwnsRow

=============================================================================
