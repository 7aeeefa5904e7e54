----------------------- MODULE InstanceWorkflowProofs -----------------------
(***************************************************************************)
(* Theorems about InstanceWorkflow, for every workflow graph, every set of *)
(* rules and users and every bound: what its rows are, that they implement *)
(* WorkflowLedger, and that the audit log tells what happened to them.     *)
(***************************************************************************)
EXTENDS ObjectCopies, SequenceTheorems, FiniteSetTheorems, WellFoundedInduction, TLAPS

-----------------------------------------------------------------------------
(* What the operators on rows return.                                       *)

\* A function on the positions of a sequence is a sequence of the same length.
LEMMA SequenceOfFunction ==
  ASSUME NEW S, NEW n \in Nat, NEW f \in [1..n -> S]
  PROVE  f \in Seq(S) /\ Len(f) = n /\ DOMAIN f = 1..n
  BY SeqDef, LenProperties

\* initialize_approvals creates new rows.
LEMMA InitialRowsType == InitialRows \in Seq(NewTransition)
<1>1. \A m \in Reached : InitialRow(m) \in NewTransition
  <2> SUFFICES ASSUME NEW m \in Reached
               PROVE  InitialRow(m) \in NewTransition
    OBVIOUS
  <2>1. Round(m) \in Rounds
    BY DEF Round, Reached
  <2>2. Cardinality(Meta) \in Nat
    BY FS_CardinalityType, BoundAssumption
  <2>3. Round(m) \in Nat
    BY <2>1, <2>2 DEF Rounds
  <2> QED
    BY <2>3 DEF InitialRow, NewTransition, Reached
<1>2. IsFiniteSet(Reached)
  BY FS_Subset, BoundAssumption DEF Reached
<1> DEFINE n == Cardinality(Reached)
           order == SetToSeq(Reached)
<1>3. n \in Nat /\ ExistsBijection(1..n, Reached)
  BY <1>2, FS_CardinalityType
<1>4. order \in [1..n -> Reached]
  <2>1. \E f \in [1..n -> Reached] : IsInjective(f)
    BY <1>3 DEF ExistsBijection, Bijection, Injection
  <2> QED
    BY <2>1 DEF SetToSeq
<1>5. InitialRows = [k \in DOMAIN order |-> InitialRow(order[k])]
  BY DEF InitialRows
<1> HIDE DEF n, order
<1>6. InitialRows \in [1..n -> NewTransition]
  BY <1>1, <1>4, <1>5
<1> QED
  BY <1>3, <1>6, SequenceOfFunction

\* Cancelling and jumping keep the rows and set those that are marked.
LEMMA SetStatusRows ==
  ASSUME NEW rows \in Seq(Transition), NEW marked,
         NEW status \in {"cancelled", "jumped"}
  PROVE  /\ SetStatus(rows, marked, status) \in Seq(Transition)
         /\ Len(SetStatus(rows, marked, status)) = Len(rows)
         /\ DOMAIN SetStatus(rows, marked, status) = DOMAIN rows
         /\ \A t \in DOMAIN rows :
              SetStatus(rows, marked, status)[t] =
                IF t \in marked THEN Stamped(rows[t], status) ELSE rows[t]
<1> DEFINE new == SetStatus(rows, marked, status)
<1>1. \A t \in DOMAIN rows : rows[t] \in Transition
  BY ElementOfSeq
<1>2. \A row \in Transition : Stamped(row, status) \in Transition
  BY DEF Stamped, Transition, Status, Approvals, ApprovalStatus
<1>3. Len(rows) \in Nat /\ DOMAIN rows = 1..Len(rows)
  BY LenProperties
<1>4. new \in [1..Len(rows) -> Transition]
  BY <1>1, <1>2, <1>3 DEF SetStatus
<1> QED
  BY <1>3, <1>4, SequenceOfFunction DEF SetStatus

\* A signature keeps the rows and approves one approval of one of them.
LEMMA SignRows ==
  ASSUME NEW rows \in Seq(Transition), NEW a \in (DOMAIN rows) \X Rule
  PROVE  /\ Sign(rows, a) \in Seq(Transition)
         /\ Len(Sign(rows, a)) = Len(rows)
         /\ DOMAIN Sign(rows, a) = DOMAIN rows
         /\ \A t \in DOMAIN rows :
              Sign(rows, a)[t] =
                IF t = a[1] THEN [rows[t] EXCEPT !.approvals[a[2]] = "approved"] ELSE rows[t]
<1>1. rows[a[1]] \in Transition
  BY ElementOfSeq
<1>2. [rows[a[1]] EXCEPT !.approvals[a[2]] = "approved"] \in Transition
  BY <1>1 DEF Transition, Approvals, ApprovalStatus
<1>3. Sign(rows, a) = [rows EXCEPT ![a[1]] = [rows[a[1]] EXCEPT !.approvals[a[2]] = "approved"]]
  BY DEF Sign
<1>4. DOMAIN rows = 1..Len(rows)
  BY LenProperties
<1> QED
  BY <1>2, <1>3, <1>4, ExceptSeq, LenProperties

\* Completing a transition keeps the rows and sets the status of one of them.
LEMMA CompleteRows ==
  ASSUME NEW rows \in Seq(Transition), NEW t \in DOMAIN rows
  PROVE  /\ Complete(rows, t) \in Seq(Transition)
         /\ Len(Complete(rows, t)) = Len(rows)
         /\ DOMAIN Complete(rows, t) = DOMAIN rows
         /\ \A k \in DOMAIN rows :
              Complete(rows, t)[k] =
                IF k = t THEN [rows[t] EXCEPT !.status = "done"] ELSE rows[k]
<1>1. DOMAIN rows = 1..Len(rows)
  BY LenProperties
<1>2. [rows[t] EXCEPT !.status = "done"] \in Transition
  <2>1. rows[t] \in Transition
    BY <1>1, ElementOfSeq
  <2> QED
    BY <2>1 DEF Transition, Status
<1>3. Complete(rows, t) = [rows EXCEPT ![t] = [rows[t] EXCEPT !.status = "done"]]
  BY DEF Complete
<1> QED
  BY <1>1, <1>2, <1>3, ExceptSeq, LenProperties

\* approve() signs one approval and, with next_state, cancels other open rows.
LEMMA AfterSignatureRows ==
  ASSUME NEW a \in (DOMAIN transitions) \X Rule, NEW next, TypeOK
  PROVE  /\ AfterSignature(a, next) \in Seq(Transition)
         /\ Len(AfterSignature(a, next)) = Len(transitions)
         /\ DOMAIN AfterSignature(a, next) = DOMAIN transitions
         /\ Cancelled(a, next) \subseteq Pending(transitions) \ {a[1]}
         /\ AfterSignature(a, next)[a[1]] =
              [transitions[a[1]] EXCEPT !.approvals[a[2]] = "approved"]
         /\ \A t \in DOMAIN transitions \ {a[1]} :
              AfterSignature(a, next)[t] =
                IF t \in Cancelled(a, next) THEN Stamped(transitions[t], "cancelled")
                ELSE transitions[t]
<1> DEFINE signed == Sign(transitions, a)
           rows == SetStatus(signed, Cancelled(a, next), "cancelled")
<1>1. transitions \in Seq(Transition)
  BY DEF TypeOK
<1>2. /\ signed \in Seq(Transition)
      /\ Len(signed) = Len(transitions)
      /\ DOMAIN signed = DOMAIN transitions
      /\ \A t \in DOMAIN transitions :
           signed[t] = IF t = a[1] THEN [transitions[t] EXCEPT !.approvals[a[2]] = "approved"]
                       ELSE transitions[t]
  BY <1>1, SignRows
<1>3. Cancelled(a, next) \subseteq Pending(transitions) \ {a[1]}
  BY <1>2 DEF Cancelled, Impossible, Pending
<1>4. /\ rows \in Seq(Transition)
      /\ Len(rows) = Len(signed)
      /\ DOMAIN rows = DOMAIN signed
      /\ \A t \in DOMAIN signed :
           rows[t] = IF t \in Cancelled(a, next) THEN Stamped(signed[t], "cancelled")
                     ELSE signed[t]
  BY <1>2, SetStatusRows
<1> HIDE DEF rows, signed
<1>5. a[1] \in DOMAIN transitions /\ a[1] \notin Cancelled(a, next)
  BY <1>3
<1>6. rows[a[1]] = [transitions[a[1]] EXCEPT !.approvals[a[2]] = "approved"]
  BY <1>2, <1>4, <1>5
<1>7. AfterSignature(a, next) = rows
  BY DEF AfterSignature, rows, signed
<1> QED
  BY <1>2, <1>3, <1>4, <1>6, <1>7

\* What approve() picks is a pending approval of an open place in the table.
LEMMA EligibleApproval ==
  ASSUME NEW u, NEW next, NEW a \in Eligible(u, next)
  PROVE  /\ a \in (DOMAIN transitions) \X Rule
         /\ transitions[a[1]].approvals[a[2]] = "pending"
         /\ \A r \in PendingApprovals(transitions[a[1]]) : Priority[a[2]] <= Priority[r]
         /\ From(transitions, a[1]) = state
  BY DEF Eligible, AvailableTo, Available, From

\* An audit entry about existing rows.
LEMMA LoggedType ==
  ASSUME NEW action \in {"approved", "cancelled", "jumped"},
         NEW marked \in SUBSET (Nat \ {0}), NEW u \in User
  PROVE  Logged(action, marked, u) \in Seq(AuditEntry)
<1> DEFINE entry == [action |-> action, transitions |-> marked, actor |-> u]
<1>1. entry \in AuditEntry
  BY DEF AuditEntry
<1>2. <<entry>> \in Seq(AuditEntry)
  BY <1>1
<1> QED
  BY <1>2, EmptySeq DEF Logged

\* What approve() appends to the log is made of audit entries.
LEMMA ApproveAuditType ==
  ASSUME TypeOK, NEW a \in (DOMAIN transitions) \X Rule, NEW u \in User, NEW next
  PROVE  ApproveAudit(a, u, next) \in Seq(AuditEntry)
<1>1. DOMAIN transitions \in SUBSET (Nat \ {0})
  BY LenProperties DEF TypeOK
<1>2. Logged("approved", {a[1]}, u) \in Seq(AuditEntry)
  BY <1>1, LoggedType
<1>3. Cancelled(a, next) \in SUBSET (Nat \ {0})
  BY <1>1, AfterSignatureRows DEF Pending
<1>4. Logged("cancelled", Cancelled(a, next), u) \in Seq(AuditEntry)
  BY <1>3, LoggedType
<1> QED
  BY <1>2, <1>4, ConcatProperties DEF TypeOK, ApproveAudit

\* Appending new rows to rows gives rows.
LEMMA AppendRows ==
  ASSUME NEW rows \in Seq(Transition), NEW new \in Seq(NewTransition)
  PROVE  /\ rows \o new \in Seq(Transition)
         /\ Len(rows \o new) = Len(rows) + Len(new)
         /\ DOMAIN rows \subseteq DOMAIN (rows \o new)
         /\ \A t \in DOMAIN rows : (rows \o new)[t] = rows[t]
         /\ \A t \in DOMAIN (rows \o new) \ DOMAIN rows : (rows \o new)[t] \in NewTransition
<1>1. NewTransition \subseteq Transition
  BY DEF NewTransition, Transition, Status, Approvals, ApprovalStatus
<1>2. new \in Seq(Transition)
  BY <1>1, SeqMonotonic
<1>3. /\ Len(rows) \in Nat /\ DOMAIN rows = 1..Len(rows)
      /\ Len(new) \in Nat /\ DOMAIN new = 1..Len(new)
  BY LenProperties
<1>4. /\ rows \o new \in Seq(Transition)
      /\ Len(rows \o new) = Len(rows) + Len(new)
      /\ \A i \in 1..Len(rows) + Len(new) :
           (rows \o new)[i] = IF i <= Len(rows) THEN rows[i] ELSE new[i - Len(rows)]
  BY <1>2, ConcatProperties
<1>5. DOMAIN (rows \o new) = 1..Len(rows) + Len(new)
  BY <1>4, LenProperties
<1>6. ASSUME NEW t \in DOMAIN (rows \o new) \ DOMAIN rows
      PROVE  (rows \o new)[t] \in NewTransition
  <2>1. t - Len(rows) \in 1..Len(new)
    BY <1>3, <1>5
  <2>2. new[t - Len(rows)] \in NewTransition
    BY <2>1, ElementOfSeq
  <2> QED
    BY <1>3, <1>4, <1>5, <2>2
<1> QED
  BY <1>3, <1>4, <1>5, <1>6

\* The rows after the last signature: those of AfterSignature with one done, and
\* new rows if the object has come back to a state.
LEMMA ApproveLastRows ==
  ASSUME TypeOK, NEW u, NEW next, NEW a \in Eligible(u, next),
         LET done == Complete(AfterSignature(a, next), a[1])
         IN \E new \in IF Cycled(done, a[1]) THEN ReCreated(done, a[1]) ELSE {<<>>} :
              transitions' = done \o new
  PROVE  LET signed == AfterSignature(a, next)
             done == Complete(signed, a[1])
         IN /\ transitions' \in Seq(Transition)
            /\ Len(transitions) <= Len(transitions')
            /\ DOMAIN transitions \subseteq DOMAIN transitions'
            /\ DOMAIN done = DOMAIN transitions
            /\ done[a[1]] = [signed[a[1]] EXCEPT !.status = "done"]
            /\ \A t \in DOMAIN transitions \ {a[1]} : done[t] = signed[t]
            /\ \A t \in DOMAIN transitions : transitions'[t] = done[t]
            /\ \A t \in DOMAIN transitions' \ DOMAIN transitions :
                 Cycled(done, a[1]) /\ transitions'[t] \in NewTransition
<1> DEFINE signed == AfterSignature(a, next)
           done == Complete(signed, a[1])
<1>1. a \in (DOMAIN transitions) \X Rule
  BY EligibleApproval
<1>2. /\ signed \in Seq(Transition)
      /\ Len(signed) = Len(transitions)
      /\ DOMAIN signed = DOMAIN transitions
  BY <1>1, AfterSignatureRows
<1>3. /\ done \in Seq(Transition)
      /\ Len(done) = Len(signed)
      /\ DOMAIN done = DOMAIN signed
      /\ \A k \in DOMAIN signed :
           done[k] = IF k = a[1] THEN [signed[a[1]] EXCEPT !.status = "done"] ELSE signed[k]
  BY <1>1, <1>2, CompleteRows
<1>4. PICK new \in IF Cycled(done, a[1]) THEN ReCreated(done, a[1]) ELSE {<<>>} :
        transitions' = done \o new
  OBVIOUS
<1> HIDE DEF signed, done
<1>5. new \in Seq(NewTransition)
  BY <1>4, EmptySeq DEF ReCreated
<1>6. ~Cycled(done, a[1]) => new = <<>>
  BY <1>4
<1>7. /\ transitions' \in Seq(Transition)
      /\ Len(transitions') = Len(done) + Len(new)
      /\ DOMAIN done \subseteq DOMAIN transitions'
      /\ \A t \in DOMAIN done : transitions'[t] = done[t]
      /\ \A t \in DOMAIN transitions' \ DOMAIN done : transitions'[t] \in NewTransition
  BY <1>3, <1>4, <1>5, AppendRows
<1>8. Len(new) \in Nat /\ Len(done) \in Nat
  BY <1>3, <1>5, LenProperties
<1>9. ~Cycled(done, a[1]) => transitions' = done
  BY <1>3, <1>4, <1>6, ConcatEmptySeq
<1>10. a[1] \in DOMAIN transitions
  BY <1>1
<1>11. Len(transitions) <= Len(transitions')
  BY <1>2, <1>3, <1>7, <1>8
<1>12. done[a[1]] = [signed[a[1]] EXCEPT !.status = "done"]
  BY <1>2, <1>3, <1>10
<1>13. \A t \in DOMAIN transitions \ {a[1]} : done[t] = signed[t]
  BY <1>2, <1>3
<1>14. /\ DOMAIN done = DOMAIN transitions
       /\ \A t \in DOMAIN transitions : transitions'[t] = done[t]
       /\ \A t \in DOMAIN transitions' \ DOMAIN transitions :
            Cycled(done, a[1]) /\ transitions'[t] \in NewTransition
  BY <1>2, <1>3, <1>7, <1>9
<1> QED
  BY <1>7, <1>11, <1>12, <1>13, <1>14 DEF signed, done

-----------------------------------------------------------------------------
(* The inductive invariant: every row is well formed by itself.             *)

\* Approvals are of the rules of the row's edge.
OfItsRules(row) == \A r \in Rule : row.approvals[r] # NoApproval => RuleMeta[r] = row.meta

\* A row by itself, when the rules that have not been deleted are those of rest.
RowInv(row, rest) ==
  /\ FollowsTransition(row)
  /\ SignedInTurn(row)
  /\ OfItsRules(row)
  /\ {r \in Rule : RuleMeta[r] = row.meta} \subseteq rest => AsksSomeone(row)

IInv ==
  /\ TypeOK
  /\ state = NoObject => transitions = <<>> /\ recent = 0
  /\ \A t \in DOMAIN transitions : RowInv(transitions[t], rules)

\* New rows only have pending approvals.
LEMMA NewRowInv ==
  ASSUME NEW row \in NewTransition, NEW rest
  PROVE  RowInv(row, rest)
  BY NoApprovalAssumption DEF RowInv, NewTransition, FollowsTransition, SignedInTurn, OfItsRules,
     AsksSomeone, PendingApprovals, ApprovalStatus

\* Cancelling or jumping a row closes all its approvals.
LEMMA StampedRowInv ==
  ASSUME NEW row \in Transition, NEW rest, OfItsRules(row), NEW status \in {"cancelled", "jumped"}
  PROVE  RowInv(Stamped(row, status), rest) /\ Stamped(row, status).status = status
  BY NoApprovalAssumption DEF RowInv, Stamped, Transition, Approvals, FollowsTransition,
     SignedInTurn, OfItsRules, AsksSomeone, ApprovalStatus

\* Signing the pending approval whose turn it is.
LEMMA SignedRowInv ==
  ASSUME NEW row \in Transition, NEW rest, RowInv(row, rest), NEW r \in Rule, row.approvals[r] = "pending",
         \A q \in PendingApprovals(row) : Priority[r] <= Priority[q],
         NEW signed, signed = [row EXCEPT !.approvals[r] = "approved"]
  PROVE  /\ row.status = "pending"
         /\ FollowsTransition(signed)
         /\ SignedInTurn(signed)
         /\ OfItsRules(signed)
         /\ PendingApprovals(signed) # {} => AsksSomeone(signed)
<1>1. /\ signed.status = row.status
      /\ \A q \in Rule : signed.approvals[q] = IF q = r THEN "approved" ELSE row.approvals[q]
  BY DEF Transition, Approvals
<1>2. row.status = "pending"
  BY NoApprovalAssumption DEF RowInv, FollowsTransition, Transition, Status, ApprovalStatus
<1>3. FollowsTransition(signed)
  BY <1>1, <1>2 DEF RowInv, FollowsTransition
<1>4. SignedInTurn(signed)
  <2> SUFFICES ASSUME NEW r1 \in Rule, NEW r2 \in Rule,
                      signed.approvals[r1] = "approved", signed.approvals[r2] = "pending"
               PROVE  Priority[r1] <= Priority[r2]
    BY DEF SignedInTurn
  <2>1. row.approvals[r2] = "pending"
    BY <1>1
  <2>2. CASE r1 = r
    BY <2>1, <2>2 DEF PendingApprovals
  <2>3. CASE r1 # r
    BY <1>1, <2>1, <2>3 DEF RowInv, SignedInTurn
  <2> QED
    BY <2>2, <2>3
<1>5. PendingApprovals(signed) # {} => AsksSomeone(signed)
  BY DEF AsksSomeone
<1>6. OfItsRules(signed)
  <2>1. row.approvals[r] # NoApproval /\ signed.meta = row.meta
    BY NoApprovalAssumption DEF ApprovalStatus, Transition
  <2> QED
    BY <1>1, <2>1 DEF RowInv, OfItsRules
<1> QED
  BY <1>2, <1>3, <1>4, <1>5, <1>6

\* Completing a row with no pending approval left.
LEMMA DoneRowInv ==
  ASSUME NEW row \in Transition, NEW rest, FollowsTransition(row), OfItsRules(row),
         row.status = "pending", PendingApprovals(row) = {}
  PROVE  RowInv([row EXCEPT !.status = "done"], rest)
  BY DEF RowInv, Transition, FollowsTransition, SignedInTurn, OfItsRules, AsksSomeone,
     PendingApprovals

\* Deleting the pending approval of a rule: the rules of its edge do not remain.
LEMMA DeletedRowInv ==
  ASSUME NEW row \in Transition, NEW rest, RowInv(row, rest), NEW r \in Rule, row.approvals[r] = "pending"
  PROVE  LET new == [row EXCEPT !.approvals[r] = NoApproval]
         IN /\ new \in Transition
            /\ FollowsTransition(new) /\ SignedInTurn(new) /\ OfItsRules(new)
            /\ RuleMeta[r] = new.meta
<1> DEFINE new == [row EXCEPT !.approvals[r] = NoApproval]
<1>1. new \in Transition
  BY DEF Transition, Approvals
<1>2. /\ new.status = row.status /\ new.meta = row.meta
      /\ \A q \in Rule : new.approvals[q] = IF q = r THEN NoApproval ELSE row.approvals[q]
  BY DEF Transition, Approvals
<1> HIDE DEF new
<1>3. FollowsTransition(new) /\ SignedInTurn(new) /\ OfItsRules(new)
  BY <1>2, NoApprovalAssumption
     DEF RowInv, FollowsTransition, SignedInTurn, OfItsRules, ApprovalStatus
<1>4. RuleMeta[r] = new.meta
  BY <1>2, NoApprovalAssumption DEF RowInv, OfItsRules, ApprovalStatus
<1> QED
  BY <1>1, <1>3, <1>4 DEF new

-----------------------------------------------------------------------------
(* Every operation keeps the invariant.                                     *)

\* The rows of TypeOK, one by one.
LEMMA RowType ==
  ASSUME TypeOK, NEW t \in DOMAIN transitions
  PROVE  transitions[t] \in Transition /\ t \in 1..Len(transitions)
  BY LenProperties, ElementOfSeq DEF TypeOK

\* What a signature does to the rows, in terms of the invariant: the signed row is
\* open, the others stay as they are or are open and cancelled.
LEMMA AfterSignatureInv ==
  ASSUME IInv, NEW u, NEW next, NEW a \in Eligible(u, next)
  PROVE  LET rows == AfterSignature(a, next)
         IN /\ transitions[a[1]].status = "pending"
            /\ rows[a[1]] \in Transition
            /\ rows[a[1]].status = "pending"
            /\ rows[a[1]].meta = transitions[a[1]].meta
            /\ FollowsTransition(rows[a[1]])
            /\ SignedInTurn(rows[a[1]])
            /\ OfItsRules(rows[a[1]])
            /\ PendingApprovals(rows[a[1]]) # {} => AsksSomeone(rows[a[1]])
            /\ \A t \in DOMAIN transitions \ {a[1]} :
                 /\ RowInv(rows[t], rules)
                 /\ \/ rows[t] = transitions[t]
                    \/ /\ transitions[t].status = "pending"
                       /\ rows[t] = Stamped(transitions[t], "cancelled")
<1> DEFINE rows == AfterSignature(a, next)
           row == transitions[a[1]]
<1>1. /\ a \in (DOMAIN transitions) \X Rule
      /\ row.approvals[a[2]] = "pending"
      /\ \A r \in PendingApprovals(row) : Priority[a[2]] <= Priority[r]
  BY EligibleApproval
<1>2. TypeOK /\ row \in Transition /\ RowInv(row, rules)
  BY <1>1, RowType DEF IInv
<1>3. /\ rows \in Seq(Transition)
      /\ Len(rows) = Len(transitions)
      /\ Cancelled(a, next) \subseteq Pending(transitions) \ {a[1]}
      /\ rows[a[1]] = [row EXCEPT !.approvals[a[2]] = "approved"]
      /\ \A t \in DOMAIN transitions \ {a[1]} :
           rows[t] = IF t \in Cancelled(a, next) THEN Stamped(transitions[t], "cancelled")
                     ELSE transitions[t]
  BY <1>1, <1>2, AfterSignatureRows
<1> HIDE DEF rows
<1>4. a[1] \in 1..Len(rows) /\ a[2] \in Rule
  BY <1>1, <1>2, <1>3, RowType
<1>5. rows[a[1]] \in Transition
  BY <1>3, <1>4, ElementOfSeq
<1>6. /\ row.status = "pending"
      /\ FollowsTransition(rows[a[1]])
      /\ SignedInTurn(rows[a[1]])
      /\ OfItsRules(rows[a[1]])
      /\ PendingApprovals(rows[a[1]]) # {} => AsksSomeone(rows[a[1]])
  <2> HIDE DEF row
  <2> QED
    BY <1>1, <1>2, <1>3, <1>4, SignedRowInv
<1>7. rows[a[1]].status = row.status /\ rows[a[1]].meta = row.meta
  BY <1>2, <1>3 DEF Transition
<1>8. ASSUME NEW t \in DOMAIN transitions \ {a[1]}
      PROVE  /\ RowInv(rows[t], rules)
             /\ \/ rows[t] = transitions[t]
                \/ /\ transitions[t].status = "pending"
                   /\ rows[t] = Stamped(transitions[t], "cancelled")
  <2>1. transitions[t] \in Transition /\ RowInv(transitions[t], rules)
    BY <1>2, RowType DEF IInv
  <2>2. RowInv(Stamped(transitions[t], "cancelled"), rules)
    BY <2>1, StampedRowInv DEF RowInv
  <2> QED
    BY <1>3, <2>1, <2>2 DEF Pending
<1> QED
  BY <1>5, <1>6, <1>7, <1>8 DEF rows

\* No operation touches a closed row or removes one.
RowsStay ==
  /\ DOMAIN transitions \subseteq DOMAIN transitions'
  /\ \A t \in DOMAIN transitions :
       transitions[t].status # "pending" => transitions'[t] = transitions[t]

\* The first save keeps the invariant: all rows are new.
LEMMA CreateInv ==
  ASSUME IInv, NEW given \in Given \cup {NotGiven}, Create(given) PROVE IInv' /\ transitions' \in Seq(NewTransition)
<1>1. transitions' \in Seq(NewTransition)
  BY InitialRowsType DEF Create
<1>2. NewTransition \subseteq Transition
  BY DEF NewTransition, Transition, Status, Approvals, ApprovalStatus
<1>3. transitions' \in Seq(Transition)
  BY <1>1, <1>2, SeqMonotonic
<1>4. \A t \in DOMAIN transitions' : RowInv(transitions'[t], rules)
  BY <1>1, LenProperties, ElementOfSeq, NewRowInv
<1>5. state' \in State /\ state' # NoObject
  BY GraphAssumption DEF Create
<1>6. Len(transitions') \in Nat
  BY <1>3, LenProperties
<1> QED
  BY <1>1, <1>3, <1>4, <1>5, <1>6 DEF IInv, TypeOK, Create

\* A signature that is not the last of its transition keeps the invariant, with whatever
\* state the object is saved.
LEMMA SignPartInv ==
  ASSUME IInv, NEW u \in User, NEW next, SignPart(u, next), state' \in State
  PROVE  IInv' /\ RowsStay
<1>1. PICK a \in Eligible(u, next) :
        /\ PendingApprovals(AfterSignature(a, next)[a[1]]) # {}
        /\ transitions' = AfterSignature(a, next)
        /\ recent' = a[1]
        /\ auditLog' = ApproveAudit(a, u, next)
        /\ UNCHANGED rules
  BY DEF SignPart
<1>2. TypeOK /\ a \in (DOMAIN transitions) \X Rule
  BY EligibleApproval DEF IInv
<1>3. /\ transitions' \in Seq(Transition)
      /\ Len(transitions') = Len(transitions)
      /\ DOMAIN transitions' = DOMAIN transitions
  BY <1>1, <1>2, AfterSignatureRows
<1>4. auditLog' \in Seq(AuditEntry)
  BY <1>1, <1>2, ApproveAuditType
<1>5. /\ transitions[a[1]].status = "pending"
      /\ RowInv(transitions'[a[1]], rules)
      /\ \A t \in DOMAIN transitions \ {a[1]} :
           /\ RowInv(transitions'[t], rules)
           /\ transitions'[t] = transitions[t] \/ transitions[t].status = "pending"
  BY <1>1, AfterSignatureInv DEF RowInv
<1>6. recent' \in 0..Len(transitions')
  BY <1>1, <1>2, <1>3, RowType, LenProperties
<1>7. state' # NoObject
  BY GraphAssumption
<1>8. TypeOK'
  BY <1>1, <1>2, <1>3, <1>4, <1>6 DEF TypeOK
<1>9. rules' = rules /\ \A t \in DOMAIN transitions' : RowInv(transitions'[t], rules)
  BY <1>1, <1>3, <1>5
<1> QED
  BY <1>3, <1>5, <1>7, <1>8, <1>9 DEF IInv, RowsStay

\* The state in which somebody has a turn is one of the workflow.
LEMMA SignedState ==
  ASSUME TypeOK, NEW u, NEW next, NEW a \in Eligible(u, next)
  PROVE  state \in State
<1>1. a \in (DOMAIN transitions) \X Rule /\ From(transitions, a[1]) = state
  BY EligibleApproval
<1>2. transitions[a[1]] \in Transition
  BY <1>1, RowType
<1> QED
  BY <1>1, <1>2, GraphAssumption DEF From, Transition

\* approve() of an object that has just been loaded.
LEMMA ApprovePartInv ==
  ASSUME IInv, NEW u \in User, NEW next, ApprovePart(u, next)
  PROVE  IInv' /\ RowsStay
<1>1. SignPart(u, next) /\ state' = state
  BY DEF ApprovePart
<1>2. PICK a \in Eligible(u, next) : TRUE
  BY <1>1 DEF SignPart
<1>3. state' \in State
  BY <1>1, <1>2, SignedState DEF IInv
<1> QED
  BY <1>1, <1>3, SignPartInv

\* The last signature keeps it, with the row it completes and the rows it adds.
LEMMA ApproveLastInv ==
  ASSUME IInv, NEW u \in User, NEW next, ApproveLast(u, next)
  PROVE  IInv' /\ RowsStay
<1>1. PICK a \in Eligible(u, next) :
        LET done == Complete(AfterSignature(a, next), a[1])
        IN /\ PendingApprovals(done[a[1]]) = {}
           /\ \E new \in IF Cycled(done, a[1]) THEN ReCreated(done, a[1]) ELSE {<<>>} :
                transitions' = done \o new
           /\ state' = To(done, a[1])
           /\ recent' = a[1]
           /\ auditLog' = ApproveAudit(a, u, next)
           /\ UNCHANGED rules
  BY DEF ApproveLast
<1> DEFINE t == a[1]
           signed == AfterSignature(a, next)
           done == Complete(signed, t)
<1>2. TypeOK /\ a \in (DOMAIN transitions) \X Rule
  BY EligibleApproval DEF IInv
<1>3. /\ transitions' \in Seq(Transition)
      /\ Len(transitions) <= Len(transitions')
      /\ DOMAIN transitions \subseteq DOMAIN transitions'
      /\ done[t] = [signed[t] EXCEPT !.status = "done"]
      /\ \A k \in DOMAIN transitions \ {t} : done[k] = signed[k]
      /\ \A k \in DOMAIN transitions : transitions'[k] = done[k]
      /\ \A k \in DOMAIN transitions' \ DOMAIN transitions : transitions'[k] \in NewTransition
  BY <1>1, <1>2, ApproveLastRows
<1>4. /\ transitions[t].status = "pending"
      /\ signed[t] \in Transition
      /\ signed[t].status = "pending"
      /\ FollowsTransition(signed[t])
      /\ OfItsRules(signed[t])
      /\ \A k \in DOMAIN transitions \ {t} :
           /\ RowInv(signed[k], rules)
           /\ signed[k] = transitions[k] \/ transitions[k].status = "pending"
  BY AfterSignatureInv
<1>5. /\ PendingApprovals(done[t]) = {}
      /\ state' = To(done, t)
      /\ recent' = t
      /\ auditLog' = ApproveAudit(a, u, next)
      /\ rules' = rules
  BY <1>1
<1> HIDE DEF signed, done
<1>6. done[t] \in Transition /\ PendingApprovals(signed[t]) = {}
  <2>1. /\ done[t] \in Transition
        /\ done[t].approvals = signed[t].approvals
    BY <1>3, <1>4 DEF Transition, Status
  <2> QED
    BY <1>5, <2>1 DEF PendingApprovals
<1>7. RowInv(done[t], rules)
  BY <1>3, <1>4, <1>6, DoneRowInv
<1>8. \A k \in DOMAIN transitions' : RowInv(transitions'[k], rules)
  BY <1>2, <1>3, <1>4, <1>7, NewRowInv
<1>9. state' \in State /\ state' # NoObject
  BY <1>5, <1>6, GraphAssumption DEF To, Transition
<1>10. auditLog' \in Seq(AuditEntry)
  BY <1>2, <1>5, ApproveAuditType
<1>11. recent' \in 0..Len(transitions')
  <2>1. t \in 1..Len(transitions)
    BY <1>2, RowType
  <2>2. Len(transitions) \in Nat /\ Len(transitions') \in Nat
    BY <1>2, <1>3, LenProperties DEF TypeOK
  <2> QED
    BY <1>3, <1>5, <2>1, <2>2
<1>12. TypeOK'
  BY <1>2, <1>3, <1>5, <1>9, <1>10, <1>11 DEF TypeOK
<1>13. RowsStay
  BY <1>2, <1>3, <1>4 DEF RowsStay
<1> QED
  BY <1>5, <1>8, <1>9, <1>12, <1>13 DEF IInv

\* jump_to keeps it: it closes open rows with their approvals.
LEMMA JumpToInv ==
  ASSUME IInv, NEW u \in User, NEW s \in State, JumpTo(u, s)
  PROVE  IInv' /\ RowsStay
<1>1. TypeOK /\ transitions \in Seq(Transition) /\ Jumped(s) \subseteq Pending(transitions)
  BY DEF IInv, TypeOK, Jumped
<1>2. /\ transitions' \in Seq(Transition)
      /\ Len(transitions') = Len(transitions)
      /\ DOMAIN transitions' = DOMAIN transitions
      /\ \A t \in DOMAIN transitions :
           transitions'[t] = IF t \in Jumped(s) THEN Stamped(transitions[t], "jumped")
                             ELSE transitions[t]
  BY <1>1, SetStatusRows DEF JumpTo
<1>3. \A t \in DOMAIN transitions : RowInv(transitions'[t], rules)
  <2> SUFFICES ASSUME NEW t \in DOMAIN transitions
               PROVE  RowInv(transitions'[t], rules)
    OBVIOUS
  <2>1. transitions[t] \in Transition /\ RowInv(transitions[t], rules)
    BY <1>1, RowType DEF IInv
  <2>2. RowInv(Stamped(transitions[t], "jumped"), rules)
    BY <2>1, StampedRowInv DEF RowInv
  <2> QED
    BY <1>2, <2>1, <2>2
<1>4. auditLog' \in Seq(AuditEntry)
  <2>1. Jumped(s) \in SUBSET (Nat \ {0})
    BY <1>1, LenProperties DEF Pending
  <2>2. Logged("jumped", Jumped(s), u) \in Seq(AuditEntry)
    BY <2>1, LoggedType
  <2> QED
    BY <1>1, <2>2, ConcatProperties DEF TypeOK, JumpTo
<1>5. TypeOK'
  BY <1>1, <1>2, <1>4 DEF TypeOK, JumpTo
<1>6. RowsStay
  BY <1>1, <1>2 DEF RowsStay, Pending
<1>7. state' # NoObject /\ rules' = rules
  BY GraphAssumption DEF JumpTo
<1> QED
  BY <1>2, <1>3, <1>5, <1>6, <1>7 DEF IInv

\* Deleting a rule keeps it: only pending approvals go, and done rows have none.
LEMMA DeleteRuleInv ==
  ASSUME IInv, NEW r \in Rule, DeleteRule(r)
  PROVE  IInv' /\ RowsStay
<1>1. TypeOK /\ transitions \in Seq(Transition)
  BY DEF IInv, TypeOK
<1>2. Len(transitions) \in Nat /\ DOMAIN transitions = 1..Len(transitions)
  BY <1>1, LenProperties
<1> DEFINE row(t) == IF transitions[t].approvals[r] = "pending"
                     THEN [transitions[t] EXCEPT !.approvals[r] = NoApproval]
                     ELSE transitions[t]
<1>3. transitions' = [t \in 1..Len(transitions) |-> row(t)]
  BY <1>2 DEF DeleteRule
<1>4. ASSUME NEW t \in DOMAIN transitions
      PROVE  /\ row(t) \in Transition
             /\ RowInv(row(t), rules')
             /\ transitions[t].status # "pending" => row(t) = transitions[t]
  <2>1. transitions[t] \in Transition /\ RowInv(transitions[t], rules)
    BY <1>1, RowType DEF IInv
  <2>2. CASE transitions[t].approvals[r] = "pending"
    <3>1. /\ row(t) \in Transition
          /\ FollowsTransition(row(t)) /\ SignedInTurn(row(t)) /\ OfItsRules(row(t))
          /\ RuleMeta[r] = row(t).meta
      BY <2>1, <2>2, DeletedRowInv
    <3>3. RowInv(row(t), rules')
      BY <3>1 DEF RowInv, DeleteRule
    <3>2. transitions[t].status = "pending"
      BY <2>1, <2>2, NoApprovalAssumption
         DEF RowInv, FollowsTransition, Transition, Status, ApprovalStatus
    <3> QED
      BY <3>1, <3>2, <3>3
  <2>3. CASE transitions[t].approvals[r] # "pending"
    <3>1. RowInv(transitions[t], rules')
      BY <2>1 DEF RowInv, DeleteRule
    <3> QED
      BY <2>1, <2>3, <3>1
  <2> QED
    BY <2>2, <2>3
<1> HIDE DEF row
<1>5. transitions' \in [1..Len(transitions) -> Transition]
  BY <1>2, <1>3, <1>4
<1>6. /\ transitions' \in Seq(Transition)
      /\ Len(transitions') = Len(transitions)
      /\ DOMAIN transitions' = DOMAIN transitions
  BY <1>2, <1>5, SequenceOfFunction
<1>7. \A t \in DOMAIN transitions : transitions'[t] = row(t)
  BY <1>2, <1>3
<1>8. TypeOK'
  BY <1>1, <1>6 DEF TypeOK, DeleteRule
<1> QED
  BY <1>4, <1>6, <1>7, <1>8 DEF IInv, RowsStay, DeleteRule

\* One step of the specification.
LEMMA StepInv == IInv /\ [Next]_vars => IInv' /\ RowsStay
<1> SUFFICES ASSUME IInv, [Next]_vars
             PROVE  IInv' /\ RowsStay
  OBVIOUS
<1>1. CASE \E given \in Given \cup {NotGiven} : Create(given)
  <2>1. IInv' /\ transitions = <<>>
    BY <1>1, CreateInv DEF IInv, Create
  <2> QED
    BY <2>1 DEF RowsStay
<1>2. CASE \E u \in User, next \in State \cup {NotGiven} : ApprovePart(u, next)
  BY <1>2, ApprovePartInv
<1>3. CASE \E u \in User, next \in State \cup {NotGiven} : ApproveLast(u, next)
  BY <1>3, ApproveLastInv
<1>4. CASE \E u \in User, s \in State : JumpTo(u, s)
  BY <1>4, JumpToInv
<1>5. CASE \E r \in Rule : DeleteRule(r)
  BY <1>5, DeleteRuleInv
<1>6. CASE UNCHANGED vars
  BY <1>6 DEF vars, IInv, TypeOK, RowsStay
<1> QED
  BY <1>1, <1>2, <1>3, <1>4, <1>5, <1>6 DEF Next

-----------------------------------------------------------------------------
(* The theorems about the rows.                                             *)

\* The strengthened invariant holds in every reachable state, for every workflow
\* graph and whatever the order in which the database returns rows.
THEOREM Invariance == Spec => []IInv
<1>1. Init => IInv
  BY EmptySeq DEF Init, IInv, TypeOK
<1>2. IInv /\ [Next]_vars => IInv'
  BY StepInv
<1> QED
  BY <1>1, <1>2, PTL DEF Spec

\* Type correctness of the rows, the log and the state of instanceworkflowobject.py.
THEOREM TypeCorrect == Spec => []TypeOK
<1>1. IInv => TypeOK
  BY DEF IInv
<1> QED
  BY <1>1, Invariance, PTL

\* A transition the code marks DONE carries every signature it asked for.
THEOREM DoneFullySigned == Spec => []DoneIsFullySigned
<1>1. IInv => DoneIsFullySigned
  BY NoApprovalAssumption DEF IInv, RowInv, FollowsTransition, DoneIsFullySigned
<1> QED
  BY <1>1, Invariance, PTL

\* approve() never lets a signature overtake one of lower priority on the same
\* transition.
THEOREM PriorityOrder == Spec => []SignedInOrder
<1>1. IInv => SignedInOrder
  BY DEF IInv, RowInv, SignedInOrder
<1> QED
  BY <1>1, Invariance, PTL

\* The approvals of a transition close with it, in approve(), jump_to() and
\* cancel_impossible_future() alike.
THEOREM ApprovalsFollow == Spec => []ApprovalsFollowTransition
<1>1. IInv => ApprovalsFollowTransition
  BY DEF IInv, RowInv, ApprovalsFollowTransition
<1> QED
  BY <1>1, Invariance, PTL

\* Every open transition that has approvals waits for one that is pending, as long as
\* no rule of its edge is deleted.
THEOREM OpenCanBeSigned == Spec => []OpenTransitionsCanBeSigned
<1>1. IInv => OpenTransitionsCanBeSigned
  BY DEF IInv, RowInv, RulesRemain, OpenTransitionsCanBeSigned
<1> QED
  BY <1>1, Invariance, PTL

\* No operation changes or removes a transition that is done, cancelled or jumped.
THEOREM ClosedIsFinal == Spec => ClosedStaysClosed
<1>1. IInv /\ [Next]_vars => [RowsStay]_vars
  BY StepInv
<1>2. RowsStay => \A t \in DOMAIN transitions : transitions[t].status # "pending" =>
                    t \in DOMAIN transitions' /\ transitions'[t] = transitions[t]
  BY DEF RowsStay
<1> QED
  BY <1>1, <1>2, Invariance, PTL DEF Spec, ClosedStaysClosed

-----------------------------------------------------------------------------
(* The rows implement the ledger.                                           *)

\* What the ledger holds of the rows.
Entries(rows) == [t \in DOMAIN rows |-> [edge |-> rows[t].meta, status |-> rows[t].status]]

\* The initial rows are those of the edges that were reached.
LEMMA ReachedCreated ==
  /\ \A m \in Reached : \E t \in DOMAIN InitialRows : InitialRows[t].meta = m
  /\ \A t \in DOMAIN InitialRows : InitialRows[t].meta \in Reached
<1> DEFINE n == Cardinality(Reached)
           order == SetToSeq(Reached)
<1>1. IsFiniteSet(Reached)
  BY FS_Subset, BoundAssumption DEF Reached
<1>2. n \in Nat /\ ExistsBijection(1..n, Reached)
  BY <1>1, FS_CardinalityType
<1>3. order \in [1..n -> Reached] /\ IsInjective(order)
  <2>1. \E f \in [1..n -> Reached] : IsInjective(f)
    BY <1>2 DEF ExistsBijection, Bijection, Injection
  <2> QED
    BY <2>1 DEF SetToSeq
<1>4. order \in Injection(1..n, Reached)
  BY <1>3 DEF Injection
<1>5. Cardinality(1..n) = n
  BY <1>2, FS_Interval
<1>6. order \in Surjection(1..n, Reached)
  BY <1>1, <1>4, <1>5, FS_Injection
<1>7. InitialRows = [k \in DOMAIN order |-> InitialRow(order[k])]
  BY DEF InitialRows
<1> HIDE DEF n, order
<1>8. \A m \in Reached : \E k \in 1..n : order[k] = m
  BY <1>6 DEF Surjection
<1>9. DOMAIN InitialRows = 1..n /\ \A k \in 1..n : InitialRows[k].meta = order[k] /\ order[k] \in Reached
  BY <1>3, <1>7 DEF InitialRow
<1> QED
  BY <1>8, <1>9

\* initialize_approvals creates a row for every edge out of the initial state.
LEMMA FirstEdgesCreated ==
  \A m \in FirstEdges : \E t \in DOMAIN InitialRows : InitialRows[t].meta = m
<1>1. Cardinality(Meta) \in Nat
  BY FS_CardinalityType, BoundAssumption
<1>2. 0 \in Rounds /\ EdgesOfRound(0) = FirstEdges
  BY <1>1 DEF Rounds, EdgesOfRound
<1>3. FirstEdges \subseteq Reached
  BY <1>2 DEF Reached, FirstEdges
<1> QED
  BY <1>3, ReachedCreated

\* jump_to takes the transition of the lowest iteration, so it closes one of those
\* that lead to the state.
LEMMA JumpedTarget ==
  ASSUME TypeOK, NEW s, Jumps(s) # {}
  PROVE  \E t \in Jumps(s) : t \in Jumped(s)
<1> DEFINE iterations == {transitions[t].iteration : t \in Jumps(s)}
<1>1. \A t \in DOMAIN transitions : transitions[t].iteration \in Nat
  BY RowType DEF Transition
<1>2. iterations \subseteq Nat /\ iterations # {}
  BY <1>1 DEF Jumps, Pending
<1> DEFINE less == {p \in Nat \X Nat : p[1] < p[2]}
<1>3. IsWellFoundedOn(less, Nat)
  BY NatLessThanWellFounded, Zenon DEF OpToRel
<1>4. PICK least \in iterations : \A i \in iterations : <<i, least>> \notin less
  <2> HIDE DEF iterations, less
  <2> QED
    BY <1>2, <1>3, WFMin
<1>5. ASSUME NEW i \in iterations PROVE least <= i
  <2>1. i \in Nat /\ least \in Nat
    BY <1>2
  <2>2. <<i, least>> \in Nat \X Nat => ~(i < least)
    BY <1>4
  <2> HIDE DEF iterations, less
  <2> QED
    BY <2>1, <2>2
<1>6. PICK t \in Jumps(s) : transitions[t].iteration = least
  OBVIOUS
<1> QED
  BY <1>5, <1>6 DEF Jumped, Jumps

\* A cancelled or jumped row keeps its edge.
LEMMA StampedEntry ==
  ASSUME NEW row \in Transition, NEW status
  PROVE  Stamped(row, status).meta = row.meta /\ Stamped(row, status).status = status
  BY DEF Stamped, Transition

-----------------------------------------------------------------------------
(* Every operation is a step of the ledger.                                 *)

\* The first save starts the ledger.
LEMMA CreateStarts ==
  ASSUME IInv, NEW given \in Given \cup {NotGiven}, Create(given)
  PROVE  Ledger!Start
<1> DEFINE new == Entries(transitions)'
           Opened == [edge : Meta, status : {"pending"}]
<1>1. transitions' \in Seq(NewTransition)
  BY CreateInv
<1>2. /\ DOMAIN transitions' = 1..Len(transitions') /\ Len(transitions') \in Nat
      /\ \A t \in DOMAIN transitions' : transitions'[t] \in NewTransition
  BY <1>1, LenProperties, ElementOfSeq
<1>3. new \in [1..Len(transitions') -> Opened]
  BY <1>2 DEF Entries, NewTransition
<1>4. new \in Seq(Opened)
  BY <1>2, <1>3, SequenceOfFunction
<1>5. \A m \in Meta : Source[m] = InitialState => \E t \in DOMAIN new : new[t].edge = m
  BY FirstEdgesCreated DEF FirstEdges, Create, Entries
<1>6. state = NoObject /\ state' \in State
  BY GraphAssumption DEF Create
<1> QED
  BY <1>4, <1>5, <1>6 DEF Ledger!Start, Entries

\* A signature that is not the last one of its transition.
LEMMA ApprovePartSigns ==
  ASSUME IInv, NEW u \in User, NEW next, ApprovePart(u, next)
  PROVE  Ledger!Sign
<1>1. PICK a \in Eligible(u, next) : transitions' = AfterSignature(a, next) /\ state' = state
  BY DEF ApprovePart, SignPart
<1>2. TypeOK /\ a \in (DOMAIN transitions) \X Rule
  BY EligibleApproval DEF IInv
<1>3. DOMAIN transitions' = DOMAIN transitions
  BY <1>1, <1>2, AfterSignatureRows
<1>4. ASSUME NEW t \in DOMAIN transitions
      PROVE  /\ transitions'[t].meta = transitions[t].meta
             /\ \/ transitions'[t].status = transitions[t].status
                \/ transitions[t].status = "pending" /\ transitions'[t].status = "cancelled"
  <2>1. CASE t = a[1]
    BY <1>1, <2>1, AfterSignatureInv
  <2>2. CASE t # a[1]
    BY <1>1, <1>2, <2>2, AfterSignatureInv, RowType, StampedEntry
  <2> QED
    BY <2>1, <2>2
<1> QED
  BY <1>1, <1>3, <1>4 DEF Ledger!Sign, Ledger!Keeps, Ledger!Open

\* The last signature.
LEMMA ApproveLastMoves ==
  ASSUME IInv, NEW u \in User, NEW next, ApproveLast(u, next)
  PROVE  Ledger!Move
<1>1. PICK a \in Eligible(u, next) :
        LET done == Complete(AfterSignature(a, next), a[1])
        IN /\ \E new \in IF Cycled(done, a[1]) THEN ReCreated(done, a[1]) ELSE {<<>>} :
                transitions' = done \o new
           /\ state' = To(done, a[1])
  BY DEF ApproveLast
<1> DEFINE t == a[1]
           signed == AfterSignature(a, next)
           done == Complete(signed, t)
<1>2. TypeOK /\ t \in DOMAIN transitions /\ From(transitions, t) = state
  BY EligibleApproval DEF IInv
<1>3. /\ DOMAIN transitions \subseteq DOMAIN transitions'
      /\ DOMAIN done = DOMAIN transitions
      /\ done[t] = [signed[t] EXCEPT !.status = "done"]
      /\ \A k \in DOMAIN transitions \ {t} : done[k] = signed[k]
      /\ \A k \in DOMAIN transitions : transitions'[k] = done[k]
      /\ \A k \in DOMAIN transitions' \ DOMAIN transitions :
           Cycled(done, t) /\ transitions'[k] \in NewTransition
  BY <1>1, <1>2, ApproveLastRows
<1>4. /\ transitions[t].status = "pending"
      /\ signed[t] \in Transition
      /\ signed[t].meta = transitions[t].meta
      /\ \A k \in DOMAIN transitions \ {t} :
           \/ signed[k] = transitions[k]
           \/ /\ transitions[k].status = "pending"
              /\ signed[k] = Stamped(transitions[k], "cancelled")
  BY AfterSignatureInv
<1>5. state' = To(done, t)
  BY <1>1
<1> HIDE DEF signed, done
<1>6. /\ done[t].meta = transitions[t].meta
      /\ done[t].status = "done"
  BY <1>3, <1>4 DEF Transition
<1>7. ASSUME NEW k \in DOMAIN transitions \ {t}
      PROVE  /\ done[k].meta = transitions[k].meta
             /\ \/ done[k].status = transitions[k].status
                \/ transitions[k].status = "pending" /\ done[k].status = "cancelled"
  BY <1>2, <1>3, <1>4, RowType, StampedEntry
<1>8. \A k \in DOMAIN transitions : From(done, k) = Source[transitions[k].meta]
  BY <1>6, <1>7 DEF From
<1>9. state = Source[transitions[t].meta] /\ state' = Destination[transitions[t].meta]
  BY <1>2, <1>5, <1>6 DEF From, To
<1>10. DOMAIN transitions' # DOMAIN transitions =>
         /\ \E k \in DOMAIN transitions : /\ transitions'[k].status = "done"
                                          /\ Source[transitions[k].meta] = state'
         /\ \A k \in DOMAIN transitions : Source[transitions[k].meta] = state' =>
              transitions'[k].status # "pending"
  <2> SUFFICES ASSUME DOMAIN transitions' # DOMAIN transitions
               PROVE  /\ \E k \in DOMAIN transitions : /\ transitions'[k].status = "done"
                                                       /\ Source[transitions[k].meta] = state'
                      /\ \A k \in DOMAIN transitions : Source[transitions[k].meta] = state' =>
                           transitions'[k].status # "pending"
    OBVIOUS
  <2>1. Cycled(done, t)
    BY <1>3
  <2> QED
    BY <1>3, <1>5, <1>8, <2>1 DEF Cycled
<1>11. \A k \in DOMAIN transitions' \ DOMAIN transitions : transitions'[k].status = "pending"
  BY <1>3 DEF NewTransition
<1>12. /\ transitions'[t].meta = transitions[t].meta /\ transitions'[t].status = "done"
       /\ \A k \in DOMAIN transitions \ {t} :
            /\ transitions'[k].meta = transitions[k].meta
            /\ \/ transitions'[k].status = transitions[k].status
               \/ transitions[k].status = "pending" /\ transitions'[k].status = "cancelled"
  BY <1>2, <1>3, <1>6, <1>7
<1> HIDE DEF t
<1> DEFINE old == Entries(transitions)
           new == Entries(transitions)'
<1>13. /\ DOMAIN old = DOMAIN transitions /\ DOMAIN new = DOMAIN transitions'
       /\ \A k \in DOMAIN transitions :
            /\ old[k].edge = transitions[k].meta /\ old[k].status = transitions[k].status
            /\ old[k] = [edge |-> transitions[k].meta, status |-> transitions[k].status]
       /\ \A k \in DOMAIN transitions' :
            /\ new[k].status = transitions'[k].status
            /\ new[k] = [edge |-> transitions'[k].meta, status |-> transitions'[k].status]
  BY DEF Entries
<1> HIDE DEF old, new
<1>14. /\ t \in DOMAIN old /\ old[t].status = "pending"
       /\ state = Source[old[t].edge] /\ state' = Destination[old[t].edge]
       /\ new[t] = [old[t] EXCEPT !.status = "done"]
  BY <1>2, <1>3, <1>4, <1>9, <1>12, <1>13
<1>15. \A k \in DOMAIN old \ {t} :
         \/ new[k] = old[k]
         \/ old[k].status = "pending" /\ new[k] = [old[k] EXCEPT !.status = "cancelled"]
  BY <1>3, <1>12, <1>13
<1>16. /\ DOMAIN old \subseteq DOMAIN new
       /\ \A k \in DOMAIN new \ DOMAIN old : new[k].status = "pending"
  BY <1>3, <1>11, <1>13
<1>17. DOMAIN new # DOMAIN old =>
         /\ \E k \in DOMAIN old : new[k].status = "done" /\ Source[old[k].edge] = state'
         /\ \A k \in DOMAIN old : Source[old[k].edge] = state' => new[k].status # "pending"
  BY <1>3, <1>10, <1>13
<1> QED
  BY <1>14, <1>15, <1>16, <1>17
     DEF Ledger!Move, Ledger!Keeps, Ledger!Open, old, new, Entries

\* jump_to.
LEMMA JumpToJumps ==
  ASSUME IInv, NEW u \in User, NEW s \in State, JumpTo(u, s)
  PROVE  Ledger!Jump
<1>1. TypeOK /\ transitions \in Seq(Transition) /\ state' = s
  BY DEF IInv, TypeOK, JumpTo
<1>2. /\ DOMAIN transitions' = DOMAIN transitions
      /\ \A t \in DOMAIN transitions :
           transitions'[t] = IF t \in Jumped(s) THEN Stamped(transitions[t], "jumped")
                             ELSE transitions[t]
  BY <1>1, SetStatusRows DEF JumpTo
<1>3. PICK t \in Jumps(s) : t \in Jumped(s)
  BY <1>1, JumpedTarget DEF JumpTo
<1>4. /\ t \in DOMAIN transitions /\ transitions[t].status = "pending"
      /\ Destination[transitions[t].meta] = s
  BY <1>3 DEF Jumps, Pending, To
<1>5. \A k \in DOMAIN transitions :
        /\ transitions'[k].meta = transitions[k].meta
        /\ IF k \in Jumped(s) THEN transitions'[k].status = "jumped"
           ELSE transitions'[k].status = transitions[k].status
  BY <1>1, <1>2, RowType, StampedEntry
<1>6. \A k \in Jumped(s) : transitions[k].status = "pending"
  BY DEF Jumped, Pending
<1> QED
  BY <1>1, <1>2, <1>3, <1>4, <1>5, <1>6 DEF Ledger!Jump, Ledger!Keeps, Ledger!Open

\* The deletion of a rule is not seen in the ledger.
LEMMA DeleteRuleStutters ==
  ASSUME IInv, NEW r \in Rule, DeleteRule(r)
  PROVE  UNCHANGED <<state, Entries(transitions)>>
<1>1. /\ DOMAIN transitions' = DOMAIN transitions
      /\ \A t \in DOMAIN transitions :
           transitions'[t] = IF transitions[t].approvals[r] = "pending"
                             THEN [transitions[t] EXCEPT !.approvals[r] = NoApproval]
                             ELSE transitions[t]
  BY DEF DeleteRule
<1>2. \A t \in DOMAIN transitions : /\ transitions'[t].meta = transitions[t].meta
                                    /\ transitions'[t].status = transitions[t].status
  BY <1>1, RowType DEF IInv, Transition
<1> QED
  BY <1>1, <1>2 DEF Entries, DeleteRule

-----------------------------------------------------------------------------
(* The refinement.                                                          *)

\* The rows of instanceworkflowobject.py implement the ledger: an object moves only
\* over an open transition out of its state or jumps to where one leads, closed
\* entries stay, and a return adds entries only where none is open.
THEOREM LedgerImplemented == Spec => ImplementsLedger
<1>1. Init => Ledger!Init
  <2> SUFFICES ASSUME Init
               PROVE  Ledger!Init
    OBVIOUS
  <2>1. Entries(transitions) \in [1..0 -> {}]
    BY DEF Entries, Init
  <2>2. Entries(transitions) \in Seq({}) /\ Len(Entries(transitions)) = 0
    BY <2>1, SequenceOfFunction
  <2>3. Entries(transitions) = <<>>
    BY <2>2, EmptySeq
  <2> QED
    BY <2>3 DEF Init, Ledger!Init, Entries
<1>2. IInv /\ [Next]_vars => [Ledger!Next]_<<state, Entries(transitions)>>
  <2> SUFFICES ASSUME IInv, [Next]_vars
               PROVE  Ledger!Next \/ UNCHANGED <<state, Entries(transitions)>>
    OBVIOUS
  <2>1. CASE \E given \in Given \cup {NotGiven} : Create(given)
    BY <2>1, CreateStarts DEF Ledger!Next
  <2>2. CASE \E u \in User, next \in State \cup {NotGiven} : ApprovePart(u, next)
    BY <2>2, ApprovePartSigns DEF Ledger!Next
  <2>3. CASE \E u \in User, next \in State \cup {NotGiven} : ApproveLast(u, next)
    BY <2>3, ApproveLastMoves DEF Ledger!Next
  <2>4. CASE \E u \in User, s \in State : JumpTo(u, s)
    BY <2>4, JumpToJumps DEF Ledger!Next
  <2>5. CASE \E r \in Rule : DeleteRule(r)
    BY <2>5, DeleteRuleStutters
  <2>6. CASE UNCHANGED vars
    BY <2>6 DEF vars, Entries
  <2> QED
    BY <2>1, <2>2, <2>3, <2>4, <2>5, <2>6 DEF Next
<1>3. Entries(transitions) = [t \in DOMAIN transitions |->
                                [edge |-> transitions[t].meta, status |-> transitions[t].status]]
  BY DEF Entries
<1> QED
  BY <1>1, <1>2, Invariance, PTL DEF Spec, ImplementsLedger, Ledger!Spec, Entries

-----------------------------------------------------------------------------
(* Every move is in the audit log.                                          *)

\* The first entry that is appended.
LEMMA AppendedEntry ==
  ASSUME NEW S, NEW log \in Seq(S), NEW more \in Seq(S), NEW e \in S,
         NEW longer, longer = log \o <<e>> \o more
  PROVE  Len(log) + 1 \in DOMAIN longer \ DOMAIN log /\ longer[Len(log) + 1] = e
<1> DEFINE first == log \o <<e>>
<1>1. /\ first \in Seq(S) /\ Len(first) = Len(log) + 1 /\ first[Len(log) + 1] = e
      /\ Len(log) \in Nat /\ DOMAIN log = 1..Len(log)
  BY ConcatProperties, LenProperties
<1>0. longer = first \o more
  OBVIOUS
<1> HIDE DEF first
<1>2. /\ longer \in Seq(S) /\ Len(longer) = Len(first) + Len(more)
      /\ \A i \in 1..(Len(first) + Len(more)) :
           longer[i] = IF i <= Len(first) THEN first[i] ELSE more[i - Len(first)]
  BY <1>0, <1>1, ConcatProperties
<1>3. DOMAIN longer = 1..(Len(first) + Len(more)) /\ Len(more) \in Nat
  BY <1>2, LenProperties
<1>4. Len(log) + 1 \in DOMAIN longer \ DOMAIN log /\ longer[Len(log) + 1] = e
  BY <1>1, <1>2, <1>3
<1> QED
  BY <1>4 DEF first

\* approve() logs the signature it moves the object with.
LEMMA ApproveLastAudited ==
  ASSUME IInv, NEW u \in User, NEW next, ApproveLast(u, next)
  PROVE  \E k \in DOMAIN auditLog' \ DOMAIN auditLog :
           /\ auditLog'[k].action = "approved"
           /\ \E t \in auditLog'[k].transitions : To(transitions, t) = state'
<1>1. PICK a \in Eligible(u, next) :
        /\ state' = To(Complete(AfterSignature(a, next), a[1]), a[1])
        /\ auditLog' = ApproveAudit(a, u, next)
  BY DEF ApproveLast
<1>2. TypeOK /\ a \in (DOMAIN transitions) \X Rule
  BY EligibleApproval DEF IInv
<1> DEFINE e == [action |-> "approved", transitions |-> {a[1]}, actor |-> u]
<1>3. DOMAIN transitions \in SUBSET (Nat \ {0}) /\ auditLog \in Seq(AuditEntry)
  BY <1>2, LenProperties DEF TypeOK
<1>4. e \in AuditEntry
  BY <1>2, <1>3 DEF AuditEntry
<1>5. Logged("cancelled", Cancelled(a, next), u) \in Seq(AuditEntry)
  BY <1>2, <1>3, AfterSignatureRows, LoggedType DEF Pending
<1>6. PICK more \in Seq(AuditEntry) : auditLog' = auditLog \o <<e>> \o more
  BY <1>1, <1>5 DEF ApproveAudit, Logged
<1>7. state' = To(transitions, a[1])
  <2>1. /\ AfterSignature(a, next) \in Seq(Transition)
        /\ DOMAIN AfterSignature(a, next) = DOMAIN transitions
        /\ AfterSignature(a, next)[a[1]] = [transitions[a[1]] EXCEPT !.approvals[a[2]] = "approved"]
    BY <1>2, AfterSignatureRows
  <2>2. Complete(AfterSignature(a, next), a[1])[a[1]] =
          [AfterSignature(a, next)[a[1]] EXCEPT !.status = "done"]
    BY <1>2, <2>1, CompleteRows
  <2>3. transitions[a[1]] \in Transition
    BY <1>2, RowType
  <2>4. Complete(AfterSignature(a, next), a[1])[a[1]].meta = transitions[a[1]].meta
    BY <2>1, <2>2, <2>3 DEF Transition
  <2> QED
    BY <1>1, <2>4 DEF To
<1>8. Len(auditLog) + 1 \in DOMAIN auditLog' \ DOMAIN auditLog /\ auditLog'[Len(auditLog) + 1] = e
  BY <1>3, <1>4, <1>6, AppendedEntry
<1> QED
  BY <1>7, <1>8

\* jump_to() logs the transitions it closes, one of which leads to the state.
LEMMA JumpToAudited ==
  ASSUME IInv, NEW u \in User, NEW s \in State, JumpTo(u, s)
  PROVE  \E k \in DOMAIN auditLog' \ DOMAIN auditLog :
           /\ auditLog'[k].action = "jumped"
           /\ \E t \in auditLog'[k].transitions : To(transitions, t) = state'
<1>1. TypeOK /\ state' = s /\ auditLog' = auditLog \o Logged("jumped", Jumped(s), u)
  BY DEF IInv, JumpTo
<1>2. PICK t \in Jumps(s) : t \in Jumped(s)
  BY <1>1, JumpedTarget DEF JumpTo
<1> DEFINE e == [action |-> "jumped", transitions |-> Jumped(s), actor |-> u]
<1>3. auditLog \in Seq(AuditEntry) /\ Jumped(s) \in SUBSET (Nat \ {0})
  BY <1>1, LenProperties DEF TypeOK, Jumped, Pending
<1>4. e \in AuditEntry
  BY <1>3 DEF AuditEntry
<1>5. auditLog' = auditLog \o <<e>> \o <<>>
  <2>1. auditLog \o <<e>> \in Seq(AuditEntry)
    BY <1>3, <1>4, ConcatProperties
  <2> QED
    BY <1>1, <1>2, <2>1, ConcatEmptySeq DEF Logged
<1>6. Len(auditLog) + 1 \in DOMAIN auditLog' \ DOMAIN auditLog /\ auditLog'[Len(auditLog) + 1] = e
  BY <1>3, <1>4, <1>5, EmptySeq, AppendedEntry
<1>7. To(transitions, t) = state'
  BY <1>1, <1>2 DEF Jumps
<1>8. e.action = "jumped" /\ t \in e.transitions
  BY <1>2
<1> QED
  BY <1>6, <1>7, <1>8

\* Every change of the state of an object is in its audit log, with a signature or a
\* jump on a transition that leads to the new state.
THEOREM EveryMoveAudited == Spec => StateChangesAreAudited
<1> DEFINE Audited ==
      state' # state /\ state # NoObject =>
        \E k \in DOMAIN auditLog' \ DOMAIN auditLog :
          /\ auditLog'[k].action \in {"approved", "jumped"}
          /\ \E t \in auditLog'[k].transitions : To(transitions, t) = state'
<1>1. IInv /\ [Next]_vars => [Audited]_vars
  <2> SUFFICES ASSUME IInv, Next
               PROVE  Audited
    OBVIOUS
  <2>1. CASE \E given \in Given \cup {NotGiven} : Create(given)
    BY <2>1 DEF Create
  <2>2. CASE \E u \in User, next \in State \cup {NotGiven} : ApprovePart(u, next)
    BY <2>2 DEF ApprovePart
  <2>3. CASE \E u \in User, next \in State \cup {NotGiven} : ApproveLast(u, next)
    BY <2>3, ApproveLastAudited
  <2>4. CASE \E u \in User, s \in State : JumpTo(u, s)
    BY <2>4, JumpToAudited
  <2>5. CASE \E r \in Rule : DeleteRule(r)
    BY <2>5 DEF DeleteRule
  <2> QED
    BY <2>1, <2>2, <2>3, <2>4, <2>5 DEF Next
<1> QED
  BY <1>1, Invariance, PTL DEF Spec, StateChangesAreAudited

-----------------------------------------------------------------------------
(* What every step does to the rows that exist and to the log.              *)

\* approve() with the approval a: its row is signed and stays open or is done, some
\* others are cancelled, and the rest stay as they are.
Signs(a, u, next) ==
  /\ a \in (DOMAIN transitions) \X Rule
  /\ recent' = a[1]
  /\ transitions[a[1]].status = "pending" /\ transitions'[a[1]].status \in {"pending", "done"}
  /\ transitions[a[1]].approvals[a[2]] = "pending"
  /\ transitions'[a[1]].approvals = [transitions[a[1]].approvals EXCEPT ![a[2]] = "approved"]
  /\ DOMAIN transitions \subseteq DOMAIN transitions'
  /\ Cancelled(a, next) \subseteq Pending(transitions) \ {a[1]}
  /\ \A p \in DOMAIN transitions \ {a[1]} :
       /\ p \in Cancelled(a, next) => transitions'[p].status = "cancelled"
       /\ p \notin Cancelled(a, next) => transitions'[p] = transitions[p]
  /\ \A p \in DOMAIN transitions : /\ transitions'[p].meta = transitions[p].meta
                                   /\ transitions'[p].iteration = transitions[p].iteration
  /\ \A p \in DOMAIN transitions' \ DOMAIN transitions : transitions'[p] \in NewTransition
  /\ auditLog' = ApproveAudit(a, u, next)

\* approve() signs one of the approvals it may pick, and closes its row or leaves it open.
LEMMA ApprovedRows ==
  ASSUME IInv, NEW u \in User, NEW next, SignPart(u, next) \/ ApproveLast(u, next)
  PROVE  \E a \in Eligible(u, next) :
           /\ Signs(a, u, next)
           /\ ApproveLast(u, next) => transitions'[a[1]].status = "done" /\ state' = To(transitions, a[1])
           /\ ~ApproveLast(u, next) => /\ transitions'[a[1]].status = "pending"
                                       /\ DOMAIN transitions' = DOMAIN transitions
<1>1. TypeOK
  BY DEF IInv
<1> DEFINE Signed(a, rows) ==
      /\ a \in (DOMAIN transitions) \X Rule
      /\ transitions[a[1]].status = "pending" /\ transitions[a[1]].approvals[a[2]] = "pending"
      /\ rows[a[1]] \in Transition
      /\ rows[a[1]].status = "pending"
      /\ rows[a[1]].meta = transitions[a[1]].meta
      /\ rows[a[1]].iteration = transitions[a[1]].iteration
      /\ rows[a[1]].approvals = [transitions[a[1]].approvals EXCEPT ![a[2]] = "approved"]
      /\ DOMAIN rows = DOMAIN transitions
      /\ Cancelled(a, next) \subseteq Pending(transitions) \ {a[1]}
      /\ \A p \in DOMAIN transitions \ {a[1]} :
           /\ p \in Cancelled(a, next) => rows[p].status = "cancelled"
           /\ p \notin Cancelled(a, next) => rows[p] = transitions[p]
           /\ rows[p].meta = transitions[p].meta
           /\ rows[p].iteration = transitions[p].iteration
<1>2. ASSUME NEW a \in Eligible(u, next), NEW rows, rows = AfterSignature(a, next)
      PROVE  Signed(a, rows)
  <2>1. a \in (DOMAIN transitions) \X Rule /\ transitions[a[1]].approvals[a[2]] = "pending"
    BY EligibleApproval
  <2>2. a[1] \in DOMAIN transitions
    BY <2>1
  <2>3. /\ DOMAIN rows = DOMAIN transitions
        /\ Cancelled(a, next) \subseteq Pending(transitions) \ {a[1]}
        /\ rows[a[1]] = [transitions[a[1]] EXCEPT !.approvals[a[2]] = "approved"]
        /\ \A t \in DOMAIN transitions \ {a[1]} :
             rows[t] = IF t \in Cancelled(a, next) THEN Stamped(transitions[t], "cancelled")
                       ELSE transitions[t]
    BY <1>1, <1>2, <2>1, AfterSignatureRows
  <2>4. transitions[a[1]].status = "pending" /\ rows[a[1]] \in Transition /\ rows[a[1]].status = "pending"
    BY <1>2, AfterSignatureInv
  <2>5. \A t \in DOMAIN transitions : transitions[t] \in Transition
    BY <1>1, RowType
  <2>6. \A row \in Transition : /\ Stamped(row, "cancelled").meta = row.meta
                                /\ Stamped(row, "cancelled").iteration = row.iteration
                                /\ Stamped(row, "cancelled").status = "cancelled"
    BY DEF Stamped, Transition
  <2>7. /\ rows[a[1]].meta = transitions[a[1]].meta /\ rows[a[1]].iteration = transitions[a[1]].iteration
        /\ rows[a[1]].approvals = [transitions[a[1]].approvals EXCEPT ![a[2]] = "approved"]
    BY <2>2, <2>3, <2>5 DEF Transition
  <2>8. \A p \in DOMAIN transitions \ {a[1]} :
          /\ p \in Cancelled(a, next) => rows[p].status = "cancelled"
          /\ p \notin Cancelled(a, next) => rows[p] = transitions[p]
          /\ rows[p].meta = transitions[p].meta
          /\ rows[p].iteration = transitions[p].iteration
    <3> SUFFICES ASSUME NEW p \in DOMAIN transitions \ {a[1]}
                 PROVE  /\ p \in Cancelled(a, next) => rows[p].status = "cancelled"
                        /\ p \notin Cancelled(a, next) => rows[p] = transitions[p]
                        /\ rows[p].meta = transitions[p].meta
                        /\ rows[p].iteration = transitions[p].iteration
      OBVIOUS
    <3>1. CASE p \in Cancelled(a, next)
      <4>1. rows[p] = Stamped(transitions[p], "cancelled") /\ transitions[p] \in Transition
        BY <2>3, <2>5, <3>1
      <4> QED
        BY <2>6, <3>1, <4>1
    <3>2. CASE p \notin Cancelled(a, next)
      BY <2>3, <3>2
    <3> QED
      BY <3>1, <3>2
  <2> QED
    BY <2>1, <2>3, <2>4, <2>7, <2>8
<1>3. CASE ApproveLast(u, next)
  <2> HIDE DEF Signed
  <2>1. PICK a \in Eligible(u, next) :
          LET done == Complete(AfterSignature(a, next), a[1])
          IN /\ \E new \in IF Cycled(done, a[1]) THEN ReCreated(done, a[1]) ELSE {<<>>} :
                  transitions' = done \o new
             /\ state' = To(done, a[1])
             /\ recent' = a[1]
             /\ auditLog' = ApproveAudit(a, u, next)
    BY <1>3 DEF ApproveLast
  <2>2. PICK rows, done : rows = AfterSignature(a, next) /\ done = Complete(rows, a[1])
    OBVIOUS
  <2>0. Signed(a, rows)
    BY <1>2, <2>2
  <2>3. /\ DOMAIN transitions \subseteq DOMAIN transitions'
        /\ done[a[1]] = [rows[a[1]] EXCEPT !.status = "done"]
        /\ \A k \in DOMAIN transitions \ {a[1]} : done[k] = rows[k]
        /\ \A k \in DOMAIN transitions : transitions'[k] = done[k]
        /\ \A k \in DOMAIN transitions' \ DOMAIN transitions : transitions'[k] \in NewTransition
    BY <1>1, <2>1, <2>2, ApproveLastRows
  <2>4. /\ a \in (DOMAIN transitions) \X Rule /\ rows[a[1]] \in Transition
        /\ transitions[a[1]].status = "pending" /\ transitions[a[1]].approvals[a[2]] = "pending"
        /\ rows[a[1]].meta = transitions[a[1]].meta
        /\ rows[a[1]].iteration = transitions[a[1]].iteration
        /\ rows[a[1]].approvals = [transitions[a[1]].approvals EXCEPT ![a[2]] = "approved"]
        /\ Cancelled(a, next) \subseteq Pending(transitions) \ {a[1]}
    BY <2>0 DEF Signed
  <2>5. \A p \in DOMAIN transitions \ {a[1]} :
          /\ p \in Cancelled(a, next) => rows[p].status = "cancelled"
          /\ p \notin Cancelled(a, next) => rows[p] = transitions[p]
          /\ rows[p].meta = transitions[p].meta
          /\ rows[p].iteration = transitions[p].iteration
    BY <2>0 DEF Signed
  <2>6. a[1] \in DOMAIN transitions
    BY <2>4
  <2>7. /\ done[a[1]].status = "done" /\ done[a[1]].meta = transitions[a[1]].meta
        /\ done[a[1]].iteration = transitions[a[1]].iteration
        /\ done[a[1]].approvals = [transitions[a[1]].approvals EXCEPT ![a[2]] = "approved"]
    BY <2>3, <2>4 DEF Transition
  <2>8. state' = To(transitions, a[1])
    BY <2>1, <2>2, <2>7 DEF To
  <2>9. /\ transitions'[a[1]].status = "done" /\ transitions'[a[1]].meta = transitions[a[1]].meta
        /\ transitions'[a[1]].iteration = transitions[a[1]].iteration
        /\ transitions'[a[1]].approvals = [transitions[a[1]].approvals EXCEPT ![a[2]] = "approved"]
    BY <2>3, <2>6, <2>7
  <2>10. \A p \in DOMAIN transitions \ {a[1]} : transitions'[p] = rows[p]
    BY <2>3
  <2>11. \A p \in DOMAIN transitions \ {a[1]} :
           /\ p \in Cancelled(a, next) => transitions'[p].status = "cancelled"
           /\ p \notin Cancelled(a, next) => transitions'[p] = transitions[p]
           /\ transitions'[p].meta = transitions[p].meta
           /\ transitions'[p].iteration = transitions[p].iteration
    BY <2>5, <2>10
  <2>12. \A p \in DOMAIN transitions : /\ transitions'[p].meta = transitions[p].meta
                                        /\ transitions'[p].iteration = transitions[p].iteration
    BY <2>9, <2>11
  <2>13. Signs(a, u, next)
    BY <2>1, <2>3, <2>4, <2>9, <2>11, <2>12 DEF Signs
  <2> QED
    BY <1>3, <2>8, <2>9, <2>13
<1>4. CASE SignPart(u, next) /\ ~ApproveLast(u, next)
  <2>1. PICK a \in Eligible(u, next) : /\ transitions' = AfterSignature(a, next)
                                       /\ recent' = a[1]
                                       /\ auditLog' = ApproveAudit(a, u, next)
    BY <1>4 DEF SignPart
  <2>2. /\ a \in (DOMAIN transitions) \X Rule
        /\ transitions[a[1]].status = "pending" /\ transitions[a[1]].approvals[a[2]] = "pending"
        /\ transitions'[a[1]].status = "pending"
        /\ transitions'[a[1]].meta = transitions[a[1]].meta
        /\ transitions'[a[1]].iteration = transitions[a[1]].iteration
        /\ transitions'[a[1]].approvals = [transitions[a[1]].approvals EXCEPT ![a[2]] = "approved"]
        /\ DOMAIN transitions' = DOMAIN transitions
        /\ Cancelled(a, next) \subseteq Pending(transitions) \ {a[1]}
        /\ \A p \in DOMAIN transitions \ {a[1]} :
             /\ p \in Cancelled(a, next) => transitions'[p].status = "cancelled"
             /\ p \notin Cancelled(a, next) => transitions'[p] = transitions[p]
             /\ transitions'[p].meta = transitions[p].meta
             /\ transitions'[p].iteration = transitions[p].iteration
    BY <1>2, <2>1
  <2>3. \A p \in DOMAIN transitions : /\ transitions'[p].meta = transitions[p].meta
                                       /\ transitions'[p].iteration = transitions[p].iteration
    BY <2>2
  <2>4. Signs(a, u, next)
    BY <2>1, <2>2, <2>3 DEF Signs
  <2> QED
    BY <1>4, <2>1, <2>2, <2>4
<1> QED
  BY <1>3, <1>4

\* One call of _log_audit.
Appends(log, longer, action, marked) ==
  /\ longer \in Seq(AuditEntry)
  /\ Len(log) \in Nat /\ DOMAIN log = 1..Len(log)
  /\ Len(longer) \in Nat /\ DOMAIN longer = 1..Len(longer)
  /\ marked = {} => Len(longer) = Len(log)
  /\ \A k \in DOMAIN log : longer[k] = log[k]
  /\ marked # {} => /\ Len(longer) = Len(log) + 1
                    /\ longer[Len(log) + 1].action = action
                    /\ longer[Len(log) + 1].transitions = marked

\* _log_audit adds one entry when there are rows to log, and none otherwise.
LEMMA LoggedEntry ==
  ASSUME NEW log \in Seq(AuditEntry), NEW action \in {"approved", "cancelled", "jumped"},
         NEW marked \in SUBSET (Nat \ {0}), NEW u \in User
  PROVE  Appends(log, log \o Logged(action, marked, u), action, marked)
<1>1. PICK longer : longer = log \o Logged(action, marked, u)
  OBVIOUS
<1>2. Len(log) \in Nat /\ DOMAIN log = 1..Len(log)
  BY LenProperties
<1>3. CASE marked = {}
  <2>1. longer = log
    BY <1>1, <1>3, ConcatEmptySeq DEF Logged
  <2>2. Appends(log, longer, action, marked)
    BY <1>2, <1>3, <2>1 DEF Appends
  <2> QED
    BY <1>1, <2>2
<1>4. CASE marked # {}
  <2>1. PICK e : e = [action |-> action, transitions |-> marked, actor |-> u]
    OBVIOUS
  <2>2. e \in AuditEntry /\ e.action = action /\ e.transitions = marked
    BY <2>1 DEF AuditEntry
  <2>3. longer = log \o <<e>>
    BY <1>1, <1>4, <2>1 DEF Logged
  <2>4. <<e>> \in Seq(AuditEntry) /\ Len(<<e>>) = 1 /\ <<e>>[1] = e
    BY <2>2
  <2>5. /\ longer \in Seq(AuditEntry) /\ Len(longer) = Len(log) + 1
        /\ \A k \in 1..(Len(log) + 1) : longer[k] = IF k <= Len(log) THEN log[k] ELSE <<e>>[k - Len(log)]
    BY <2>3, <2>4, ConcatProperties
  <2>6. DOMAIN longer = 1..Len(longer) /\ Len(longer) \in Nat
    BY <2>5, LenProperties
  <2>7. \A k \in DOMAIN log : longer[k] = log[k]
    BY <1>2, <2>5
  <2>8. longer[Len(log) + 1] = e
    BY <1>2, <2>4, <2>5
  <2>9. Appends(log, longer, action, marked)
    BY <1>2, <1>4, <2>2, <2>5, <2>6, <2>7, <2>8 DEF Appends
  <2> QED
    BY <1>1, <2>9
<1> QED
  BY <1>3, <1>4

\* A log that has grown.
Longer(log, longer) ==
  /\ Len(log) \in Nat /\ DOMAIN log = 1..Len(log)
  /\ Len(longer) \in Nat /\ DOMAIN longer = 1..Len(longer)
  /\ Len(log) <= Len(longer)
  /\ \A k \in DOMAIN log : longer[k] = log[k]

LogGrows == Longer(auditLog, auditLog')

\* A signature and after it what it cancels.
SignedThenCancelled(log, longer, marked, cancelled) ==
  /\ Longer(log, longer)
  /\ longer[Len(log) + 1].action = "approved"
  /\ longer[Len(log) + 1].transitions = marked
  /\ cancelled = {} => Len(longer) = Len(log) + 1
  /\ cancelled # {} => /\ Len(longer) = Len(log) + 2
                       /\ longer[Len(log) + 2].action = "cancelled"
                       /\ longer[Len(log) + 2].transitions = cancelled

\* Two calls of _log_audit, one after the other.
LEMMA TwoEntries ==
  ASSUME NEW log, NEW signed, NEW longer, NEW marked, NEW cancelled, marked # {},
         Appends(log, signed, "approved", marked), Appends(signed, longer, "cancelled", cancelled)
  PROVE  SignedThenCancelled(log, longer, marked, cancelled)
<1>1. /\ Len(log) \in Nat /\ DOMAIN log = 1..Len(log)
      /\ DOMAIN signed = 1..Len(signed) /\ Len(signed) = Len(log) + 1
      /\ \A k \in DOMAIN log : signed[k] = log[k]
      /\ signed[Len(log) + 1].action = "approved" /\ signed[Len(log) + 1].transitions = marked
  BY DEF Appends
<1>2. /\ Len(longer) \in Nat /\ DOMAIN longer = 1..Len(longer)
      /\ \A k \in DOMAIN signed : longer[k] = signed[k]
      /\ cancelled = {} => Len(longer) = Len(signed)
      /\ cancelled # {} => /\ Len(longer) = Len(signed) + 1
                           /\ longer[Len(signed) + 1].action = "cancelled"
                           /\ longer[Len(signed) + 1].transitions = cancelled
  BY DEF Appends
<1>3. /\ Len(log) \in Nat /\ Len(signed) = Len(log) + 1
      /\ cancelled = {} => Len(longer) = Len(signed)
      /\ cancelled # {} => Len(longer) = Len(signed) + 1
  BY <1>1, <1>2
<1>4. /\ Len(signed) + 1 = Len(log) + 2 /\ Len(log) <= Len(longer)
      /\ cancelled = {} => Len(longer) = Len(log) + 1
      /\ cancelled # {} => Len(longer) = Len(log) + 2
  BY <1>3
<1>5. Len(log) + 1 \in DOMAIN signed /\ \A k \in DOMAIN log : k \in DOMAIN signed
  BY <1>1
<1>6. \A k \in DOMAIN log : longer[k] = log[k]
  BY <1>1, <1>2, <1>5
<1>7. Longer(log, longer)
  BY <1>1, <1>2, <1>4, <1>6 DEF Longer
<1>8. longer[Len(log) + 1] = signed[Len(log) + 1]
  BY <1>2, <1>5
<1> QED
  BY <1>1, <1>2, <1>4, <1>7, <1>8 DEF SignedThenCancelled

\* The entries that are new.
LEMMA NewEntry ==
  ASSUME NEW log, NEW longer, NEW action, NEW marked, marked # {}, Appends(log, longer, action, marked)
  PROVE  /\ Longer(log, longer)
         /\ \E n \in DOMAIN longer \ DOMAIN log : /\ longer[n].action = action /\ longer[n].transitions = marked
                                                 /\ \A k \in DOMAIN longer \ DOMAIN log : k = n
<1>1. /\ Len(log) \in Nat /\ DOMAIN log = 1..Len(log) /\ DOMAIN longer = 1..Len(longer)
      /\ Len(longer) = Len(log) + 1
      /\ \A k \in DOMAIN log : longer[k] = log[k]
      /\ longer[Len(log) + 1].action = action /\ longer[Len(log) + 1].transitions = marked
  BY DEF Appends
<1>2. PICK l, m, n : l = Len(log) /\ m = Len(longer) /\ n = Len(log) + 1
  OBVIOUS
<1>3. l \in Nat /\ m = l + 1 /\ n = l + 1
  BY <1>1, <1>2
<1>4. m \in Nat /\ n \in (1..m) \ (1..l) /\ l <= m /\ \A k \in (1..m) \ (1..l) : k = n
  BY <1>3
<1>5. DOMAIN log = 1..l /\ DOMAIN longer = 1..m
  BY <1>1, <1>2
<1>6. Longer(log, longer)
  BY <1>1, <1>2, <1>4 DEF Longer
<1> QED
  BY <1>1, <1>2, <1>4, <1>5, <1>6

\* The entries that a signature of the row t adds: its own and, after it, the one of
\* the rows c that it cancels.
SignatureEntries(log, longer, t, c) ==
  \E n \in DOMAIN longer \ DOMAIN log :
    /\ longer[n].action = "approved" /\ longer[n].transitions = {t}
    /\ c = {} => \A k \in DOMAIN longer \ DOMAIN log : k = n
    /\ c # {} => \E i \in DOMAIN longer \ DOMAIN log :
                   /\ i = n + 1 /\ longer[i].action = "cancelled" /\ longer[i].transitions = c
                   /\ \A k \in DOMAIN longer \ DOMAIN log : k \in {n, i}

\* A signature that is logged before what it cancels adds just these entries.
LEMMA NewEntries ==
  ASSUME NEW log, NEW longer, NEW t, NEW c, SignedThenCancelled(log, longer, {t}, c)
  PROVE  Longer(log, longer) /\ SignatureEntries(log, longer, t, c)
<1>1. /\ Longer(log, longer)
      /\ longer[Len(log) + 1].action = "approved" /\ longer[Len(log) + 1].transitions = {t}
      /\ c = {} => Len(longer) = Len(log) + 1
      /\ c # {} => /\ Len(longer) = Len(log) + 2
                   /\ longer[Len(log) + 2].action = "cancelled" /\ longer[Len(log) + 2].transitions = c
  BY DEF SignedThenCancelled
<1>2. PICK l, m, n, i : l = Len(log) /\ m = Len(longer) /\ n = Len(log) + 1 /\ i = Len(log) + 2
  OBVIOUS
<1>3. l \in Nat /\ m \in Nat /\ DOMAIN log = 1..l /\ DOMAIN longer = 1..m
  BY <1>1, <1>2 DEF Longer
<1>4. n = l + 1 /\ i = n + 1
  BY <1>2, <1>3
<1>5. (c = {} => m = l + 1) /\ (c # {} => m = l + 2)
  BY <1>1, <1>2
<1>6. /\ n \in (1..m) \ (1..l)
      /\ c = {} => \A k \in (1..m) \ (1..l) : k = n
      /\ c # {} => i \in (1..m) \ (1..l) /\ \A k \in (1..m) \ (1..l) : k \in {n, i}
  BY <1>3, <1>4, <1>5
<1>7. SignatureEntries(log, longer, t, c)
  BY <1>1, <1>2, <1>3, <1>4, <1>6 DEF SignatureEntries
<1> QED
  BY <1>1, <1>7

\* What approve() logs: its signature, and after it what it cancels.
LEMMA ApproveLog ==
  ASSUME TypeOK, NEW a \in (DOMAIN transitions) \X Rule, NEW u \in User, NEW next
  PROVE  SignedThenCancelled(auditLog, ApproveAudit(a, u, next), {a[1]}, Cancelled(a, next))
<1>1. DOMAIN transitions \subseteq Nat \ {0} /\ auditLog \in Seq(AuditEntry)
  BY LenProperties DEF TypeOK
<1>2. PICK c : c = Cancelled(a, next)
  OBVIOUS
<1>3. c \in SUBSET (Nat \ {0}) /\ {a[1]} \in SUBSET (Nat \ {0}) /\ {a[1]} # {}
  BY <1>1, <1>2, AfterSignatureRows DEF Pending
<1>4. PICK signed : signed = auditLog \o Logged("approved", {a[1]}, u)
  OBVIOUS
<1>5. Appends(auditLog, signed, "approved", {a[1]})
  BY <1>1, <1>3, <1>4, LoggedEntry
<1>6. ApproveAudit(a, u, next) = signed \o Logged("cancelled", c, u)
  BY <1>2, <1>4 DEF ApproveAudit
<1>7. Appends(signed, ApproveAudit(a, u, next), "cancelled", c)
  <2>1. signed \in Seq(AuditEntry)
    BY <1>5 DEF Appends
  <2> QED
    BY <1>3, <1>6, <2>1, LoggedEntry
<1> QED
  BY <1>2, <1>3, <1>5, <1>7, TwoEntries

\* What jump_to() logs: one entry for what it closes.
LEMMA JumpLog ==
  ASSUME TypeOK, NEW u \in User, NEW s \in State, JumpTo(u, s)
  PROVE  Jumped(s) # {} /\ Appends(auditLog, auditLog', "jumped", Jumped(s))
<1>1. DOMAIN transitions \subseteq Nat \ {0} /\ auditLog \in Seq(AuditEntry)
  BY LenProperties DEF TypeOK
<1>2. Jumped(s) # {}
  BY JumpedTarget DEF JumpTo
<1>3. Jumped(s) \in SUBSET (Nat \ {0})
  BY <1>1 DEF Jumped, Pending
<1>4. auditLog' = auditLog \o Logged("jumped", Jumped(s), u)
  BY DEF JumpTo
<1> QED
  BY <1>1, <1>2, <1>3, <1>4, LoggedEntry

\* jump_to() closes the rows it jumps and leaves the others as they are.
LEMMA JumpedRows ==
  ASSUME IInv, NEW u, NEW s \in State, JumpTo(u, s)
  PROVE  /\ DOMAIN transitions' = DOMAIN transitions
         /\ Jumped(s) \subseteq Pending(transitions)
         /\ \A p \in DOMAIN transitions :
              /\ p \in Jumped(s) => transitions'[p].status = "jumped"
              /\ p \notin Jumped(s) => transitions'[p] = transitions[p]
              /\ transitions'[p].meta = transitions[p].meta
              /\ transitions'[p].iteration = transitions[p].iteration
<1>1. /\ DOMAIN transitions' = DOMAIN transitions
      /\ \A p \in DOMAIN transitions :
           transitions'[p] = IF p \in Jumped(s) THEN Stamped(transitions[p], "jumped") ELSE transitions[p]
  BY SetStatusRows DEF IInv, TypeOK, JumpTo
<1>2. \A row \in Transition : /\ Stamped(row, "jumped").meta = row.meta
                              /\ Stamped(row, "jumped").iteration = row.iteration
                              /\ Stamped(row, "jumped").status = "jumped"
  BY DEF Stamped, Transition
<1>3. ASSUME NEW p \in DOMAIN transitions
      PROVE  /\ p \in Jumped(s) => transitions'[p].status = "jumped"
             /\ p \notin Jumped(s) => transitions'[p] = transitions[p]
             /\ transitions'[p].meta = transitions[p].meta
             /\ transitions'[p].iteration = transitions[p].iteration
  <2>1. transitions[p] \in Transition
    BY RowType DEF IInv
  <2>2. CASE p \in Jumped(s)
    <3>1. transitions'[p] = Stamped(transitions[p], "jumped")
      BY <1>1, <2>2
    <3> QED
      BY <1>2, <2>1, <2>2, <3>1
  <2>3. CASE p \notin Jumped(s)
    BY <1>1, <2>3
  <2> QED
    BY <2>2, <2>3
<1> QED
  BY <1>1, <1>3 DEF Jumped

-----------------------------------------------------------------------------
(* The log and the rows.                                                    *)

\* The rules whose approvals have been given.
SignedRules(row) == {r \in Rule : row.approvals[r] = "approved"}

\* The log tells what happened to the row t.
RowAudited(t) ==
  /\ transitions[t].status # "cancelled" => Events(t, "cancelled") = {}
  /\ transitions[t].status # "jumped" => Events(t, "jumped") = {}
  /\ transitions[t].status \in {"cancelled", "jumped"} =>
       \E k \in DOMAIN auditLog : /\ Events(t, transitions[t].status) = {k}
                                  /\ \A j \in DOMAIN auditLog : j > k => t \notin auditLog[j].transitions
  /\ transitions[t].status \in {"pending", "done"} =>
       /\ IsFiniteSet(Events(t, "approved")) /\ IsFiniteSet(SignedRules(transitions[t]))
       /\ Cardinality(Events(t, "approved")) = Cardinality(SignedRules(transitions[t]))

\* The inductive invariant of the log: it names rows, and tells what happened to each.
AuditInv ==
  /\ \A k \in DOMAIN auditLog : auditLog[k].transitions \subseteq DOMAIN transitions
  /\ \A t \in DOMAIN transitions : RowAudited(t)

\* A row that the new entries do not name.
LEMMA UntouchedAudited ==
  ASSUME NEW t \in DOMAIN transitions, RowAudited(t), LogGrows,
         transitions'[t].status = transitions[t].status,
         SignedRules(transitions'[t]) = SignedRules(transitions[t]),
         \A k \in DOMAIN auditLog' \ DOMAIN auditLog : t \notin auditLog'[k].transitions
  PROVE  RowAudited(t)'
<1>1. /\ DOMAIN auditLog \subseteq DOMAIN auditLog'
      /\ \A k \in DOMAIN auditLog : auditLog'[k] = auditLog[k]
  BY DEF LogGrows, Longer
<1>2. ASSUME NEW action  PROVE Events(t, action)' = Events(t, action)
  BY <1>1 DEF Events
<1> QED
  BY <1>1, <1>2 DEF RowAudited

\* A row that is signed.
LEMMA SignedAudited ==
  ASSUME NEW t \in DOMAIN transitions, RowAudited(t), LogGrows, NEW r \in Rule, NEW n \in DOMAIN auditLog' \ DOMAIN auditLog,
         transitions[t].status = "pending", transitions'[t].status \in {"pending", "done"},
         r \notin SignedRules(transitions[t]),
         SignedRules(transitions'[t]) = SignedRules(transitions[t]) \cup {r},
         auditLog'[n].action = "approved", t \in auditLog'[n].transitions,
         \A k \in DOMAIN auditLog' \ DOMAIN auditLog : k # n => t \notin auditLog'[k].transitions
  PROVE  RowAudited(t)'
<1>1. /\ DOMAIN auditLog \subseteq DOMAIN auditLog'
      /\ \A k \in DOMAIN auditLog : auditLog'[k] = auditLog[k]
  BY DEF LogGrows, Longer
<1>2. Events(t, "cancelled")' = Events(t, "cancelled") /\ Events(t, "jumped")' = Events(t, "jumped")
  BY <1>1 DEF Events
<1>3. Events(t, "approved")' = Events(t, "approved") \cup {n} /\ n \notin Events(t, "approved")
  BY <1>1 DEF Events
<1>4. /\ IsFiniteSet(Events(t, "approved")) /\ IsFiniteSet(SignedRules(transitions[t]))
      /\ Cardinality(Events(t, "approved")) = Cardinality(SignedRules(transitions[t]))
      /\ Events(t, "cancelled") = {} /\ Events(t, "jumped") = {}
  BY DEF RowAudited
<1>5. /\ IsFiniteSet(Events(t, "approved")')
      /\ Cardinality(Events(t, "approved")') = Cardinality(Events(t, "approved")) + 1
  BY <1>3, <1>4, FS_AddElement
<1>6. /\ IsFiniteSet(SignedRules(transitions'[t]))
      /\ Cardinality(SignedRules(transitions'[t])) = Cardinality(SignedRules(transitions[t])) + 1
  BY <1>4, FS_AddElement
<1> QED
  BY <1>2, <1>4, <1>5, <1>6 DEF RowAudited

\* A row that is cancelled or jumped.
LEMMA ClosedAudited ==
  ASSUME NEW t \in DOMAIN transitions, RowAudited(t), LogGrows, NEW n \in DOMAIN auditLog' \ DOMAIN auditLog,
         transitions[t].status = "pending", transitions'[t].status \in {"cancelled", "jumped"},
         auditLog'[n].action = transitions'[t].status, t \in auditLog'[n].transitions,
         \A k \in DOMAIN auditLog' \ DOMAIN auditLog : k # n => t \notin auditLog'[k].transitions
  PROVE  RowAudited(t)'
<1>1. /\ DOMAIN auditLog \subseteq DOMAIN auditLog'
      /\ \A k \in DOMAIN auditLog : auditLog'[k] = auditLog[k]
  BY DEF LogGrows, Longer
<1>2. Events(t, "cancelled") = {} /\ Events(t, "jumped") = {}
  BY DEF RowAudited
<1>3. PICK s \in {"cancelled", "jumped"} : s = transitions'[t].status
  OBVIOUS
<1>4. {k \in DOMAIN auditLog' : auditLog'[k].action = s /\ t \in auditLog'[k].transitions} = {n}
  BY <1>1, <1>2, <1>3 DEF Events
<1>5. /\ transitions'[t].status # "cancelled" => Events(t, "cancelled")' = {}
      /\ transitions'[t].status # "jumped" => Events(t, "jumped")' = {}
  BY <1>1, <1>2 DEF Events
<1>6. \A j \in DOMAIN auditLog' : j > n => t \notin auditLog'[j].transitions
  BY DEF LogGrows, Longer
<1> QED
  <2>1. /\ transitions'[t].status # "cancelled" => Events(t, "cancelled")' = {}
        /\ transitions'[t].status # "jumped" => Events(t, "jumped")' = {}
        /\ n \in DOMAIN auditLog'
        /\ Events(t, transitions[t].status)' = {n}
    BY <1>3, <1>5, <1>4 DEF Events
  <2> QED
    BY <1>6, <2>1 DEF RowAudited

\* A row that is new.
LEMMA NewAudited ==
  ASSUME NEW t \in DOMAIN transitions', transitions'[t] \in NewTransition,
         \A k \in DOMAIN auditLog' : t \notin auditLog'[k].transitions
  PROVE  RowAudited(t)'
<1>1. \A action : Events(t, action)' = {}
  BY DEF Events
<1>2. transitions'[t].status = "pending" /\ SignedRules(transitions'[t]) = {}
  BY NoApprovalAssumption DEF NewTransition, SignedRules, ApprovalStatus
<1>3. IsFiniteSet({}) /\ Cardinality({}) = 0
  BY FS_EmptySet
<1> QED
  BY <1>1, <1>2, <1>3 DEF RowAudited

\* A signature is logged as it is made: for its row and for every row it cancels.
LEMMA ApproveAudited ==
  ASSUME IInv, AuditInv, NEW u \in User, NEW next, SignPart(u, next) \/ ApproveLast(u, next)
  PROVE  AuditInv'
<1>1. PICK a \in Eligible(u, next) : Signs(a, u, next)
  BY ApprovedRows
<1>2. PICK c : c = Cancelled(a, next)
  OBVIOUS
<1>3. PICK t : t = a[1]
  OBVIOUS
<1>4. /\ t \in DOMAIN transitions /\ a[2] \in Rule
      /\ transitions[t].status = "pending" /\ transitions'[t].status \in {"pending", "done"}
      /\ transitions[t].approvals[a[2]] = "pending"
      /\ transitions'[t].approvals = [transitions[t].approvals EXCEPT ![a[2]] = "approved"]
      /\ DOMAIN transitions \subseteq DOMAIN transitions'
      /\ c \subseteq Pending(transitions) \ {t}
      /\ \A p \in DOMAIN transitions \ {t} : /\ p \in c => transitions'[p].status = "cancelled"
                                             /\ p \notin c => transitions'[p] = transitions[p]
      /\ \A p \in DOMAIN transitions' \ DOMAIN transitions : transitions'[p] \in NewTransition
  BY <1>1, <1>2, <1>3 DEF Signs
<1>5. SignedThenCancelled(auditLog, auditLog', {t}, c)
  BY <1>1, <1>2, <1>3, ApproveLog DEF IInv, Signs
<1>6. LogGrows
  BY <1>5 DEF SignedThenCancelled, LogGrows
<1>7. PICK n \in DOMAIN auditLog' \ DOMAIN auditLog :
        /\ auditLog'[n].action = "approved" /\ auditLog'[n].transitions = {t}
        /\ c = {} => \A k \in DOMAIN auditLog' \ DOMAIN auditLog : k = n
        /\ c # {} => \E i \in DOMAIN auditLog' \ DOMAIN auditLog :
                       /\ i = n + 1 /\ auditLog'[i].action = "cancelled" /\ auditLog'[i].transitions = c
                       /\ \A k \in DOMAIN auditLog' \ DOMAIN auditLog : k \in {n, i}
  <2>1. SignatureEntries(auditLog, auditLog', t, c)
    BY <1>5, NewEntries
  <2> QED
    BY <2>1 DEF SignatureEntries
<1>8. /\ c = {} => \A k \in DOMAIN auditLog' \ DOMAIN auditLog : auditLog'[k].transitions = {t}
      /\ c # {} => \A k \in DOMAIN auditLog' \ DOMAIN auditLog : auditLog'[k].transitions \in {{t}, c}
  BY <1>7
<1>9. \A k \in DOMAIN auditLog' : auditLog'[k].transitions \subseteq DOMAIN transitions
  <2>1. \A k \in DOMAIN auditLog : auditLog'[k] = auditLog[k]
    BY <1>6 DEF LogGrows, Longer
  <2>2. {t} \subseteq DOMAIN transitions /\ c \subseteq DOMAIN transitions
    BY <1>4 DEF Pending
  <2> QED
    BY <1>8, <2>1, <2>2 DEF AuditInv
<1>10. ASSUME NEW p \in DOMAIN transitions'  PROVE RowAudited(p)'
  <2>1. CASE p \notin DOMAIN transitions
    BY <1>4, <1>9, <2>1, NewAudited
  <2>2. CASE p = t
    <3>1. transitions[t] \in Transition
      BY <1>4, RowType DEF IInv
    <3>2. \A r \in Rule : transitions'[t].approvals[r] =
                            IF r = a[2] THEN "approved" ELSE transitions[t].approvals[r]
      BY <1>4, <3>1 DEF Transition, Approvals
    <3>3. a[2] \notin SignedRules(transitions[t])
      BY <1>4 DEF SignedRules
    <3>4. SignedRules(transitions'[t]) = SignedRules(transitions[t]) \cup {a[2]}
      BY <1>4, <3>2 DEF SignedRules
    <3>5. \A k \in DOMAIN auditLog' \ DOMAIN auditLog : k # n => t \notin auditLog'[k].transitions
      <4>1. t \notin c
        BY <1>4
      <4>2. CASE c = {}
        BY <1>7, <4>2
      <4>3. CASE c # {}
        BY <1>7, <4>1, <4>3
      <4> QED
        BY <4>2, <4>3
    <3>6. RowAudited(t) /\ t \in auditLog'[n].transitions
      BY <1>4, <1>7 DEF AuditInv
    <3> QED
      BY <1>4, <1>6, <1>7, <2>2, <3>3, <3>4, <3>5, <3>6, SignedAudited
  <2>3. CASE p \in DOMAIN transitions /\ p # t /\ p \in c
    <3>1. transitions[p].status = "pending" /\ transitions'[p].status = "cancelled"
      BY <1>4, <2>3 DEF Pending
    <3>2. PICK i \in DOMAIN auditLog' \ DOMAIN auditLog :
            /\ auditLog'[i].action = "cancelled" /\ auditLog'[i].transitions = c
            /\ \A k \in DOMAIN auditLog' \ DOMAIN auditLog : k \in {n, i}
      BY <1>7, <2>3
    <3>3. \A k \in DOMAIN auditLog' \ DOMAIN auditLog : k # i => p \notin auditLog'[k].transitions
      BY <1>7, <2>3, <3>2
    <3>4. RowAudited(p) /\ p \in auditLog'[i].transitions
      BY <2>3, <3>2 DEF AuditInv
    <3> QED
      BY <1>6, <2>3, <3>1, <3>2, <3>3, <3>4, ClosedAudited
  <2>4. CASE p \in DOMAIN transitions /\ p # t /\ p \notin c
    <3>1. transitions'[p] = transitions[p]
      BY <1>4, <2>4
    <3>2. \A k \in DOMAIN auditLog' \ DOMAIN auditLog : p \notin auditLog'[k].transitions
      BY <1>8, <2>4
    <3>3. RowAudited(p)
      BY <2>4 DEF AuditInv
    <3> QED
      BY <1>6, <2>4, <3>1, <3>2, <3>3, UntouchedAudited
  <2> QED
    BY <2>1, <2>2, <2>3, <2>4
<1> QED
  BY <1>4, <1>9, <1>10 DEF AuditInv

\* A jump is logged for every row it closes.
LEMMA JumpAudited ==
  ASSUME IInv, AuditInv, NEW u \in User, NEW s \in State, JumpTo(u, s)
  PROVE  AuditInv'
<1>1. PICK c : c = Jumped(s)
  OBVIOUS
<1>2. Appends(auditLog, auditLog', "jumped", c) /\ c # {}
  BY <1>1, JumpLog DEF IInv
<1>3. /\ DOMAIN transitions' = DOMAIN transitions
      /\ c \subseteq Pending(transitions)
      /\ \A p \in DOMAIN transitions : /\ p \in c => transitions'[p].status = "jumped"
                                       /\ p \notin c => transitions'[p] = transitions[p]
  BY <1>1, JumpedRows
<1>4. LogGrows
  BY <1>2, NewEntry DEF LogGrows
<1>5. PICK n \in DOMAIN auditLog' \ DOMAIN auditLog :
        /\ auditLog'[n].action = "jumped" /\ auditLog'[n].transitions = c
        /\ \A k \in DOMAIN auditLog' \ DOMAIN auditLog : k = n
  BY <1>2, NewEntry
<1>6. \A k \in DOMAIN auditLog' : auditLog'[k].transitions \subseteq DOMAIN transitions
  <2>1. \A k \in DOMAIN auditLog : auditLog'[k] = auditLog[k]
    BY <1>4 DEF LogGrows, Longer
  <2>2. c \subseteq DOMAIN transitions
    BY <1>3 DEF Pending
  <2> QED
    BY <1>5, <2>1, <2>2 DEF AuditInv
<1>7. ASSUME NEW p \in DOMAIN transitions  PROVE RowAudited(p)'
  <2>1. RowAudited(p)
    BY DEF AuditInv
  <2>2. CASE p \in c
    <3>1. transitions[p].status = "pending" /\ transitions'[p].status = "jumped"
      BY <1>3, <2>2 DEF Pending
    <3>2. p \in auditLog'[n].transitions
      BY <1>5, <2>2
    <3> QED
      BY <1>4, <1>5, <2>1, <3>1, <3>2, ClosedAudited
  <2>3. CASE p \notin c
    <3>1. transitions'[p] = transitions[p]
      BY <1>3, <2>3
    <3>2. \A k \in DOMAIN auditLog' \ DOMAIN auditLog : p \notin auditLog'[k].transitions
      BY <1>5, <2>3
    <3> QED
      BY <1>4, <2>1, <3>1, <3>2, UntouchedAudited
  <2> QED
    BY <2>2, <2>3
<1> QED
  BY <1>3, <1>6, <1>7 DEF AuditInv

\* A log that stays the same has grown by nothing.
LEMMA SameLog == ASSUME TypeOK, auditLog' = auditLog  PROVE LogGrows
<1>1. auditLog \in Seq(AuditEntry)
  BY DEF TypeOK
<1>2. Len(auditLog) \in Nat /\ DOMAIN auditLog = 1..Len(auditLog)
  BY <1>1, LenProperties
<1> QED
  BY <1>2 DEF LogGrows, Longer

\* No step lets the log and the rows disagree.
LEMMA AuditStep == IInv /\ AuditInv /\ [Next]_vars => AuditInv'
<1> SUFFICES ASSUME IInv, AuditInv, [Next]_vars
             PROVE  AuditInv'
  OBVIOUS
<1>1. CASE \E given \in Given \cup {NotGiven} : Create(given)
  <2>1. PICK given \in Given \cup {NotGiven} : Create(given)
    BY <1>1
  <2>2. transitions' \in Seq(NewTransition)
    BY <2>1, CreateInv
  <2>3. \A t \in DOMAIN transitions' : transitions'[t] \in NewTransition
    BY <2>2, ElementOfSeq, LenProperties
  <2>4. auditLog' = auditLog /\ transitions = <<>>
    BY <2>1 DEF Create, IInv
  <2>5. \A k \in DOMAIN auditLog' : auditLog'[k].transitions = {}
    BY <2>4 DEF AuditInv
  <2> QED
    BY <2>3, <2>5, NewAudited DEF AuditInv
<1>2. CASE \E u \in User, next \in State \cup {NotGiven} : ApprovePart(u, next) \/ ApproveLast(u, next)
  BY <1>2, ApproveAudited DEF ApprovePart
<1>3. CASE \E u \in User, s \in State : JumpTo(u, s)
  BY <1>3, JumpAudited
<1>4. CASE \E r \in Rule : DeleteRule(r)
  <2>1. PICK r \in Rule : DeleteRule(r)
    BY <1>4
  <2>2. auditLog' = auditLog /\ DOMAIN transitions' = DOMAIN transitions
    BY <2>1 DEF DeleteRule
  <2>3. ASSUME NEW t \in DOMAIN transitions  PROVE RowAudited(t)'
    <3>1. transitions[t] \in Transition
      BY RowType DEF IInv
    <3>2. /\ transitions'[t].status = transitions[t].status
          /\ \A q \in Rule : transitions'[t].approvals[q] = "approved" <=> transitions[t].approvals[q] = "approved"
      BY <2>1, <3>1, NoApprovalAssumption DEF DeleteRule, Transition, Approvals, ApprovalStatus
    <3>3. SignedRules(transitions'[t]) = SignedRules(transitions[t])
      BY <3>2 DEF SignedRules
    <3> QED
      BY <2>2, <3>2, <3>3, SameLog, UntouchedAudited DEF AuditInv, IInv
  <2> QED
    BY <2>2, <2>3 DEF AuditInv
<1>5. CASE UNCHANGED vars
  <2>1. AuditInv' <=> AuditInv
    BY <1>5 DEF vars, AuditInv, RowAudited, Events
  <2> QED
    BY <2>1
<1> QED
  BY <1>1, <1>2, <1>3, <1>4, <1>5 DEF Next

\* What the invariant of the log says in the words of the property.
LEMMA AuditedRows == IInv /\ AuditInv => AuditMatchesRows
<1> SUFFICES ASSUME IInv, AuditInv, NEW t \in DOMAIN transitions
             PROVE  /\ \A action \in {"cancelled", "jumped"} :
                         /\ Cardinality(Events(t, action)) = IF transitions[t].status = action THEN 1 ELSE 0
                         /\ \A k \in Events(t, action) : \A j \in DOMAIN auditLog :
                              j > k => t \notin auditLog[j].transitions
                    /\ transitions[t].status \in {"pending", "done"} =>
                         Cardinality(Events(t, "approved")) =
                           Cardinality({r \in Rule : transitions[t].approvals[r] = "approved"})
  BY DEF AuditMatchesRows
<1>1. RowAudited(t)
  BY DEF AuditInv
<1>2. ASSUME NEW action \in {"cancelled", "jumped"}
      PROVE  /\ Cardinality(Events(t, action)) = IF transitions[t].status = action THEN 1 ELSE 0
             /\ \A k \in Events(t, action) : \A j \in DOMAIN auditLog :
                  j > k => t \notin auditLog[j].transitions
  <2>1. CASE transitions[t].status = action
    <3>1. PICK k \in DOMAIN auditLog : /\ Events(t, action) = {k}
                                       /\ \A j \in DOMAIN auditLog : j > k => t \notin auditLog[j].transitions
      BY <1>1, <1>2, <2>1 DEF RowAudited
    <3>2. Cardinality(Events(t, action)) = 1
      BY <3>1, FS_Singleton
    <3> QED
      BY <2>1, <3>1, <3>2
  <2>2. CASE transitions[t].status # action
    <3>1. Events(t, action) = {}
      BY <1>1, <1>2, <2>2 DEF RowAudited
    <3> QED
      BY <2>2, <3>1, FS_EmptySet
  <2> QED
    BY <2>1, <2>2
<1>3. transitions[t].status \in {"pending", "done"} =>
        Cardinality(Events(t, "approved")) =
          Cardinality({r \in Rule : transitions[t].approvals[r] = "approved"})
  BY <1>1 DEF RowAudited, SignedRules
<1> QED
  BY <1>2, <1>3

\* The audit log agrees with the rows: one entry for every cancellation and jump, the last
\* one of its row, and one for every signature that a row carries.
THEOREM AuditMatches == Spec => []AuditMatchesRows
<1>1. Init => AuditInv
  BY DEF Init, AuditInv
<1>2. IInv /\ AuditInv /\ [Next]_vars => AuditInv'
  BY AuditStep
<1> QED
  BY <1>1, <1>2, AuditedRows, Invariance, PTL DEF Spec

-----------------------------------------------------------------------------
(* Callers that hold copies of the object: the state of its row may be     *)
(* overwritten, what its transitions and the log say stays right.          *)

\* The inductive invariant with copies: nothing relates a copy to the row.
CopiesIInv == IInv /\ AuditInv /\ held \in [Copy -> State \cup {NoObject}]

\* The state a copy moves to with its last signature is one of the workflow.
LEMMA SignedDestination ==
  ASSUME IInv, NEW u, NEW next, NEW a \in Eligible(u, next)
  PROVE  Destination[AfterSignature(a, next)[a[1]].meta] \in State
<1>1. AfterSignature(a, next)[a[1]] \in Transition
  BY AfterSignatureInv
<1> QED
  BY <1>1, GraphAssumption DEF Transition

\* A step of a copy is one of InstanceWorkflow, but for an approve() that saves the object
\* with the state of the copy.
LEMMA CopyStep ==
  ASSUME CopiesIInv, [CopiesNext]_copiesVars
  PROVE  /\ held' \in [Copy -> State \cup {NoObject}]
         /\ [Next]_vars \/ (state' \in State /\ \E u \in User, next \in State \cup {NotGiven} : SignPart(u, next))
<1> USE DEF CopiesIInv
<1>1. ASSUME NEW c \in Copy, CreateCopy(c)
      PROVE  Next /\ held' \in [Copy -> State \cup {NoObject}]
  <2>1. PICK given \in Given \cup {NotGiven} : Create(given) /\ held' = [held EXCEPT ![c] = state']
    BY <1>1 DEF CreateCopy
  <2>2. state' \in State
    BY <2>1, GraphAssumption DEF Create
  <2> QED
    BY <2>1, <2>2 DEF Next
<1>2. ASSUME NEW c \in Copy, Load(c)
      PROVE  UNCHANGED vars /\ held' \in [Copy -> State \cup {NoObject}]
  BY <1>2 DEF Load, IInv, TypeOK
<1>3. ASSUME NEW c \in Copy, NEW u \in User, NEW next \in State \cup {NotGiven}, ApprovePartOn(c, u, next)
      PROVE  SignPart(u, next) /\ state' \in State /\ held' \in [Copy -> State \cup {NoObject}]
  BY <1>3 DEF ApprovePartOn, Loaded
<1>4. ASSUME NEW c \in Copy, NEW u \in User, NEW next \in State \cup {NotGiven}, ApproveLastOn(c, u, next)
      PROVE  Next /\ held' \in [Copy -> State \cup {NoObject}]
  <2>1. ApproveLast(u, next) /\ held' = [held EXCEPT ![c] = state']
    BY <1>4 DEF ApproveLastOn
  <2>2. state' \in State \cup {NoObject}
    BY <2>1, ApproveLastInv DEF IInv, TypeOK
  <2> QED
    BY <2>1, <2>2 DEF Next
<1>5. ASSUME NEW c \in Copy, NEW u \in User, NEW next \in State \cup {NotGiven}, ApproveRollsBack(c, u, next)
      PROVE  UNCHANGED vars /\ held' \in [Copy -> State \cup {NoObject}]
  <2>1. PICK a \in Eligible(u, next) : held' = [held EXCEPT ![c] = Destination[AfterSignature(a, next)[a[1]].meta]]
    BY <1>5 DEF ApproveRollsBack
  <2>2. Destination[AfterSignature(a, next)[a[1]].meta] \in State
    BY SignedDestination
  <2> QED
    BY <1>5, <2>1, <2>2 DEF ApproveRollsBack
<1>6. ASSUME NEW c \in Copy, NEW u \in User, NEW s \in State, JumpToOn(c, u, s)
      PROVE  Next /\ held' \in [Copy -> State \cup {NoObject}]
  BY <1>6 DEF JumpToOn, Next
<1>7. ASSUME NEW r \in Rule, DeleteRule(r), UNCHANGED held
      PROVE  Next /\ held' \in [Copy -> State \cup {NoObject}]
  BY <1>7 DEF Next
<1>8. CASE UNCHANGED copiesVars
  BY <1>8 DEF copiesVars
<1>9. CASE CopiesNext
  BY <1>1, <1>2, <1>3, <1>4, <1>5, <1>6, <1>7, <1>9 DEF CopiesNext
<1> QED
  BY <1>8, <1>9

\* Every step keeps the invariant, and no closed row changes.
LEMMA CopiesStep == CopiesIInv /\ [CopiesNext]_copiesVars => CopiesIInv' /\ [RowsStay]_vars
<1> SUFFICES ASSUME CopiesIInv, [CopiesNext]_copiesVars
             PROVE  CopiesIInv' /\ [RowsStay]_vars
  OBVIOUS
<1>1. IInv /\ AuditInv /\ held' \in [Copy -> State \cup {NoObject}]
  BY CopyStep DEF CopiesIInv
<1>2. CASE [Next]_vars
  BY <1>1, <1>2, StepInv, AuditStep DEF CopiesIInv
<1>3. CASE state' \in State /\ \E u \in User, next \in State \cup {NotGiven} : SignPart(u, next)
  BY <1>1, <1>3, SignPartInv, ApproveAudited DEF CopiesIInv
<1> QED
  BY <1>2, <1>3, CopyStep

\* Whatever copies callers hold, and whichever calls are rolled back, the rows and the log
\* keep their invariants: no operation reads the state of a copy.
THEOREM CopiesInvariance == CopiesSpec => []CopiesIInv
<1>1. CopiesInit => CopiesIInv
  <2>1. CopiesInit => IInv
    BY EmptySeq DEF CopiesInit, Init, IInv, TypeOK
  <2>2. CopiesInit => AuditInv
    BY DEF CopiesInit, Init, AuditInv
  <2>3. CopiesInit => held \in [Copy -> State \cup {NoObject}]
    BY DEF CopiesInit
  <2> QED
    BY <2>1, <2>2, <2>3 DEF CopiesIInv
<1> QED
  BY <1>1, CopiesStep, PTL DEF CopiesSpec

\* A call that is rolled back leaves no trace in the audit log, and an approve() of a copy
\* that is not current is logged like any other.
THEOREM CopiesAuditMatches == CopiesSpec => []AuditMatchesRows
<1>1. CopiesIInv => AuditMatchesRows
  BY AuditedRows DEF CopiesIInv
<1> QED
  BY <1>1, CopiesInvariance, PTL

\* A copy that is not current changes and removes no transition that is closed.
THEOREM CopiesClosedIsFinal == CopiesSpec => ClosedStaysClosed
<1>1. RowsStay => \A t \in DOMAIN transitions : transitions[t].status # "pending" =>
                    t \in DOMAIN transitions' /\ transitions'[t] = transitions[t]
  BY DEF RowsStay
<1> QED
  BY <1>1, CopiesStep, CopiesInvariance, PTL DEF CopiesSpec, ClosedStaysClosed

\* What a copy overwrites is the state of the object alone: its transitions are signed in
\* order, done with every signature, and closed together with their approvals.
THEOREM CopiesRows ==
  CopiesSpec => [](DoneIsFullySigned /\ SignedInOrder /\ ApprovalsFollowTransition)
<1>1. CopiesIInv => DoneIsFullySigned
  BY NoApprovalAssumption DEF CopiesIInv, IInv, RowInv, FollowsTransition, DoneIsFullySigned
<1>2. CopiesIInv => SignedInOrder /\ ApprovalsFollowTransition
  BY DEF CopiesIInv, IInv, RowInv, SignedInOrder, ApprovalsFollowTransition
<1> QED
  BY <1>1, <1>2, CopiesInvariance, PTL
=============================================================================
