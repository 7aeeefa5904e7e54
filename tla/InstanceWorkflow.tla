-------------------------- MODULE InstanceWorkflow --------------------------
(***************************************************************************)
(* The life of one workflow object in one workflow: the Transition and     *)
(* TransitionApproval rows that core/instanceworkflowobject.py creates for *)
(* it, and how creation, approve(), jump_to() and the deletion of an       *)
(* approval rule change them.  Every operation is one database transaction *)
(* (@atomic), so it is one action.  A call that raises changes nothing and *)
(* is the absence of the action.  The Python object is freshly loaded by   *)
(* every call here; ObjectCopies drops that assumption.                    *)
(***************************************************************************)
EXTENDS Integers, Sequences, FiniteSets, SequencesExt

CONSTANTS
  State,         \* the State rows of the workflow
  InitialState,  \* Workflow.initial_state
  Label,         \* Label[s]: State.label, which is not unique
  Meta,          \* the TransitionMeta rows: the edges of the workflow
  Source,        \* Source[m]: TransitionMeta.source_state
  Destination,   \* Destination[m]: TransitionMeta.destination_state
  Rule,          \* the TransitionApprovalMeta rows: who has to sign an edge
  RuleMeta,      \* RuleMeta[r]: TransitionApprovalMeta.transition_meta
  Priority,      \* Priority[r]: TransitionApprovalMeta.priority
  Given,         \* the states, besides none, that objects are created with
  User,          \* the users who call approve() and jump_to()
  Matches,       \* Matches[u][r]: rows the authorization join yields for u and
                 \* an approval of r; 0 when u may not sign it
  NotGiven,      \* next_state=None
  NoObject,      \* the object has not been saved yet
  NoApproval,    \* a transition has no approval row for a rule
  RowBound,      \* bound: the Transition rows of the object
  Deletable      \* the rules that administrators may delete while the object lives

ASSUME GraphAssumption ==
  /\ InitialState \in State /\ Given \subseteq State
  /\ NotGiven \notin State /\ NoObject \notin State
  /\ DOMAIN Label = State
  /\ Source \in [Meta -> State] /\ Destination \in [Meta -> State]
  /\ \A m1, m2 \in Meta : /\ Source[m1] = Source[m2]
                          /\ Destination[m1] = Destination[m2]
                          => m1 = m2

ASSUME RuleAssumption ==
  /\ RuleMeta \in [Rule -> Meta]
  /\ Priority \in [Rule -> Nat]
  /\ \A r1, r2 \in Rule : /\ RuleMeta[r1] = RuleMeta[r2]
                          /\ Priority[r1] = Priority[r2]
                          => r1 = r2
  /\ Matches \in [User -> [Rule -> Nat]]

ASSUME BoundAssumption ==
  /\ IsFiniteSet(Meta) /\ IsFiniteSet(State)
  /\ RowBound \in Nat
  /\ Deletable \subseteq Rule

VARIABLES
  state,        \* the state field of the object's row, or NoObject
  transitions,  \* the Transition rows, by pk, each with its approvals
  recent,       \* the pk of the transition of recent_approval, 0 if None
  auditLog,     \* one record per _log_audit call: the rows of a bulk_create
  rules         \* the TransitionApprovalMeta rows that still exist

vars == <<state, transitions, recent, auditLog, rules>>

Status == {"pending", "cancelled", "jumped", "done"}
ApprovalStatus == {"pending", "approved", "cancelled", "jumped"}
Approvals == [Rule -> ApprovalStatus \cup {NoApproval}]
Transition == [meta : Meta, iteration : Nat, status : Status, approvals : Approvals]
NewTransition == {t \in [meta : Meta, iteration : Nat, status : {"pending"},
                          approvals : [Rule -> {"pending", NoApproval}]] :
                    \A r \in Rule : t.approvals[r] # NoApproval => RuleMeta[r] = t.meta}
AuditEntry == [action : {"approved", "cancelled", "jumped"},
               transitions : SUBSET (Nat \ {0}), actor : User]

ASSUME NoApprovalAssumption == NoApproval \notin ApprovalStatus

TypeOK ==
  /\ state \in State \cup {NoObject}
  /\ transitions \in Seq(Transition)
  /\ recent \in 0..Len(transitions)
  /\ auditLog \in Seq(AuditEntry)
  /\ rules \in SUBSET Rule

-----------------------------------------------------------------------------
(* Reading the rows.                                                        *)

Pending(rows) == {t \in DOMAIN rows : rows[t].status = "pending"}
From(rows, t) == Source[rows[t].meta]
To(rows, t) == Destination[rows[t].meta]

\* Mutant of PendingApprovals: the first signature is enough.
FirstSignatureSuffices(row) ==
  {r \in Rule : row.approvals[r] = "pending" /\ \A q \in Rule : row.approvals[q] # "approved"}

PendingApprovals(row) == {r \in Rule : row.approvals[r] = "pending"}

\* Mutants of Available: without the lowest priority; without the current state.
AvailableOutOfTurn(u) ==
  {a \in (DOMAIN transitions) \X Rule : /\ transitions[a[1]].approvals[a[2]] = "pending"
                                        /\ Matches[u][a[2]] > 0
                                        /\ From(transitions, a[1]) = state}
AvailableElsewhere(u) ==
  {a \in (DOMAIN transitions) \X Rule :
     /\ a[2] \in PendingApprovals(transitions[a[1]])
     /\ \A r \in PendingApprovals(transitions[a[1]]) : Priority[a[2]] <= Priority[r]
     /\ Matches[u][a[2]] > 0}

\* The approvals the driver offers: for every transition out of the state the
\* database holds, the pending approval of lowest priority, if u may sign it.
Available(u) ==
  {a \in {t \in DOMAIN transitions : From(transitions, t) = state} \X Rule :
     LET row == transitions[a[1]] IN
     /\ row.approvals[a[2]] = "pending"
     /\ \A r \in PendingApprovals(row) : Priority[a[2]] <= Priority[r]
     /\ Matches[u][a[2]] > 0}

AvailableTo(u, next) == {a \in Available(u) : To(transitions, a[1]) = next}

\* The approvals approve() may pick: with next_state any first() of those that
\* lead there, without it only an answer of exactly one row.
Eligible(u, next) ==
  IF next = NotGiven
  THEN {a \in Available(u) : Available(u) = {a} /\ Matches[u][a[2]] = 1}
  ELSE AvailableTo(u, next)

-----------------------------------------------------------------------------
(* initialize_approvals: breadth first from the initial state.              *)

FirstEdges == {m \in Meta : Source[m] = InitialState}

\* What the k-th pass of the loop finds, and what was processed until then.
Pass[k \in Nat] ==
  IF k = 0 THEN [edges |-> FirstEdges, processed |-> FirstEdges]
  ELSE LET before == Pass[k - 1]
           edges == {m \in Meta : \E b \in before.edges : Source[m] = Destination[b]}
                      \ before.processed
       IN [edges |-> edges, processed |-> before.processed \cup edges]

EdgesOfRound(k) == IF k = 0 THEN FirstEdges ELSE Pass[k].edges

\* A pass that finds nothing ends the loop, so there are at most as many as edges.
Rounds == 0..Cardinality(Meta)

Reached == {m \in Meta : \E k \in Rounds : m \in EdgesOfRound(k)}

Round(m) == CHOOSE k \in Rounds : m \in EdgesOfRound(k)

InitialRow(m) ==
  [meta |-> m, iteration |-> Round(m), status |-> "pending",
   approvals |-> [r \in Rule |-> IF RuleMeta[r] = m THEN "pending" ELSE NoApproval]]

\* SetToSeq stands for the order in which the rows get their keys: no query
\* relies on it.
InitialRows == LET order == SetToSeq(Reached)
               IN [k \in DOMAIN order |-> InitialRow(order[k])]

-----------------------------------------------------------------------------
(* cancel_impossible_future and jump_to set rows and all their approvals.   *)

\* Mutant of Stamped: the approvals are forgotten.
StampedRowOnly(row, status) == [row EXCEPT !.status = status]

Stamped(row, status) ==
  [row EXCEPT !.status = status,
              !.approvals = [r \in Rule |-> IF row.approvals[r] = NoApproval THEN NoApproval ELSE status]]

SetStatus(rows, marked, status) ==
  [t \in DOMAIN rows |-> IF t \in marked THEN Stamped(rows[t], status) ELSE rows[t]]

\* Mutant of FutureLabels: the loop looks one step ahead only.
NextLabels(rows, t) ==
  {Label[To(rows, t)]} \cup
    {Label[To(rows, p)] : p \in {q \in Pending(rows) \ {t} : From(rows, q) = To(rows, t)}}

\* The labels of the states that pending transitions lead to from the
\* destination of t, following labels as the query does.
FutureLabels(rows, t) ==
  LET within[k \in Nat] ==
        IF k = 0 THEN {Label[To(rows, t)]}
        ELSE LET before == within[k - 1] IN
             before \cup {Label[To(rows, p)] :
                            p \in {q \in Pending(rows) \ {t} : Label[From(rows, q)] \in before}}
  IN within[Cardinality(State)]

\* The rows that can no longer happen once t has been approved.
Impossible(rows, t) ==
  LET future == FutureLabels(rows, t)
  IN {p \in Pending(rows) \ {t} : /\ rows[p].iteration >= rows[t].iteration
                                  /\ Label[From(rows, p)] \notin future}

-----------------------------------------------------------------------------
(* _re_create_cycled_path: new rows for a state that has been left before.  *)

\* Mutant of Cycled: CANCELLED for DONE.
CycledIfCancelled(rows, t) ==
  LET onward == {p \in DOMAIN rows : From(rows, p) = To(rows, t)}
  IN /\ \E p \in onward : rows[p].status = "cancelled"
     /\ \A p \in onward : rows[p].status # "pending"

\* _check_if_it_cycled
Cycled(rows, t) ==
  LET onward == {p \in DOMAIN rows : From(rows, p) = To(rows, t)}
  IN /\ \E p \in onward : rows[p].status = "done"
     /\ \A p \in onward : rows[p].status # "pending"

\* _get_transition_images: of every edge out of the states, its latest rows.
Images(rows, sources) ==
  {t \in DOMAIN rows :
     /\ From(rows, t) \in sources
     /\ \A p \in DOMAIN rows :
          rows[p].meta = rows[t].meta => rows[p].iteration <= rows[t].iteration}

CycledRow(image, iteration) ==
  [meta |-> image.meta, iteration |-> iteration, status |-> "pending",
   approvals |-> [r \in Rule |-> IF image.approvals[r] = NoApproval
                                 THEN NoApproval ELSE "pending"]]

CycledRows(rows, batch, iteration) ==
  LET order == SetToSeq(batch)
  IN [k \in DOMAIN order |-> CycledRow(rows[order[k]], iteration)]

\* One round of the loop: every image of the batch gets a new row, but only the
\* edge of the row the query returned last is remembered as regenerated.
NextRounds(rows, o, iteration) ==
  {LET now == o.new \o CycledRows(rows \o o.new, o.batch, iteration)
       regenerated == o.regenerated \cup {(rows \o o.new)[last].meta}
       onward == {To(rows \o o.new, t) : t \in o.batch}
   IN [new |-> now, regenerated |-> regenerated,
       batch |-> {t \in Images(rows \o now, onward) : (rows \o now)[t].meta \notin regenerated}]
   : last \in o.batch}

\* What the loop may have created after k rounds, for every order in which the
\* queries may return their rows.
RoundOutcomes(rows, t) ==
  LET after[k \in Nat] ==
        IF k = 0 THEN {[new |-> <<>>, regenerated |-> {}, batch |-> Images(rows, {To(rows, t)})]}
        ELSE LET before == after[k - 1] IN
             UNION {IF o.batch = {} THEN {o}
                    ELSE NextRounds(rows, o, rows[t].iteration + k) : o \in before}
  IN after[Cardinality(Meta)]

\* Every round remembers one more edge, so the loop has ended after as many
\* rounds as there are edges.  The intersection states the type of its result.
ReCreated(rows, t) == {o.new : o \in RoundOutcomes(rows, t)} \cap Seq(NewTransition)

-----------------------------------------------------------------------------
(* The operations.                                                          *)

Logged(action, marked, u) ==
  IF marked = {} THEN <<>> ELSE <<[action |-> action, transitions |-> marked, actor |-> u]>>

\* The object is saved for the first time: post_save initializes its approvals
\* and, unless the caller has set it, its state.
Create(given) ==
  /\ state = NoObject
  /\ state' = IF given = NotGiven THEN InitialState ELSE given
  /\ transitions' = InitialRows
  /\ UNCHANGED <<recent, auditLog, rules>>

Sign(rows, a) == [rows EXCEPT ![a[1]].approvals[a[2]] = "approved"]

\* cancel_impossible_future is called only when next_state was given.
Cancelled(a, next) ==
  IF next = NotGiven THEN {} ELSE Impossible(Sign(transitions, a), a[1])

AfterSignature(a, next) == SetStatus(Sign(transitions, a), Cancelled(a, next), "cancelled")

\* Mutants of Complete: APPROVED of TransitionApproval for DONE of Transition; the
\* transition is not saved.
CompleteAsApproved(rows, t) == [rows EXCEPT ![t].status = "approved"]
CompleteUnsaved(rows, t) == rows

Complete(rows, t) == [rows EXCEPT ![t].status = "done"]

\* Mutants of ApproveAudit: the cancelled rows are queried after their update;
\* the signature is logged only when next_state is given.
AuditAfterUpdate(a, u, next) == auditLog \o Logged("approved", {a[1]}, u)
AuditIfGiven(a, u, next) ==
  IF next = NotGiven THEN auditLog
  ELSE auditLog \o Logged("approved", {a[1]}, u) \o Logged("cancelled", Cancelled(a, next), u)

ApproveAudit(a, u, next) ==
  auditLog \o Logged("approved", {a[1]}, u) \o Logged("cancelled", Cancelled(a, next), u)

\* What approve() writes besides the object when other approvals of the
\* transition are still pending.
SignPart(u, next) ==
  \E a \in Eligible(u, next) :
    LET rows == AfterSignature(a, next)
    IN /\ PendingApprovals(rows[a[1]]) # {}
       /\ transitions' = rows
       /\ recent' = a[1]
       /\ auditLog' = ApproveAudit(a, u, next)
       /\ UNCHANGED rules

\* It saves the object all the same, with the state it was loaded with.
ApprovePart(u, next) == SignPart(u, next) /\ UNCHANGED state

\* approve() when it gives the last signature: the object moves.
ApproveLast(u, next) ==
  \E a \in Eligible(u, next) :
    LET t == a[1]
        done == Complete(AfterSignature(a, next), t)
    IN /\ PendingApprovals(done[t]) = {}
       /\ \E new \in IF Cycled(done, t) THEN ReCreated(done, t) ELSE {<<>>} :
            /\ Len(done \o new) <= RowBound
            /\ transitions' = done \o new
       /\ state' = To(done, t)
       /\ recent' = t
       /\ auditLog' = ApproveAudit(a, u, next)
       /\ UNCHANGED rules

RecentIteration == IF recent = 0 THEN 0 ELSE transitions[recent].iteration

\* The pending transitions jump_to may take to s.
Jumps(s) == {t \in Pending(transitions) : /\ transitions[t].iteration >= RecentIteration
                                          /\ To(transitions, t) = s}

\* Mutant of Jumped: whatever its status.
JumpedWhateverStatus(s) ==
  {p \in DOMAIN transitions :
     \A t \in Jumps(s) : transitions[p].iteration <= transitions[t].iteration}

\* Everything pending up to the earliest of them.
Jumped(s) ==
  {p \in Pending(transitions) :
     \A t \in Jumps(s) : transitions[p].iteration <= transitions[t].iteration}

JumpTo(u, s) ==
  /\ Jumps(s) # {}
  /\ transitions' = SetStatus(transitions, Jumped(s), "jumped")
  /\ state' = s
  /\ auditLog' = auditLog \o Logged("jumped", Jumped(s), u)
  /\ UNCHANGED <<recent, rules>>

\* Mutant of DeleteRule: every approval of the rule is deleted with it.
DeleteRuleAndSignatures(r) ==
  /\ r \in Deletable \cap rules
  /\ state # NoObject
  /\ rules' = rules \ {r}
  /\ transitions' = [t \in DOMAIN transitions |->
                       [transitions[t] EXCEPT !.approvals[r] = NoApproval]]
  /\ UNCHANGED <<state, recent, auditLog>>

\* A rule is deleted: pre_delete deletes its pending approvals, the others stay
\* with meta = NULL.
DeleteRule(r) ==
  /\ r \in Deletable \cap rules
  /\ state # NoObject
  /\ rules' = rules \ {r}
  /\ transitions' = [t \in DOMAIN transitions |->
                       IF transitions[t].approvals[r] = "pending"
                       THEN [transitions[t] EXCEPT !.approvals[r] = NoApproval]
                       ELSE transitions[t]]
  /\ UNCHANGED <<state, recent, auditLog>>

Init ==
  /\ state = NoObject
  /\ transitions = <<>>
  /\ recent = 0
  /\ auditLog = <<>>
  /\ rules = Rule

Next ==
  \/ \E given \in Given \cup {NotGiven} : Create(given)
  \/ \E u \in User, next \in State \cup {NotGiven} : ApprovePart(u, next) \/ ApproveLast(u, next)
  \/ \E u \in User, s \in State : JumpTo(u, s)
  \/ \E r \in Rule : DeleteRule(r)

Spec == Init /\ [][Next]_vars

-----------------------------------------------------------------------------
(* Properties.                                                              *)

\* A transition is done only when everyone who had to sign it has: no later
\* cancellation, jump or deletion takes a signature of a done transition away.
DoneIsFullySigned ==
  \A t \in DOMAIN transitions : transitions[t].status = "done" =>
    \A r \in Rule : transitions[t].approvals[r] \in {"approved", NoApproval}

SignedInTurn(row) ==
  \A r1, r2 \in Rule : row.approvals[r1] = "approved" /\ row.approvals[r2] = "pending"
                         => Priority[r1] <= Priority[r2]

\* Signatures are given in the order of their priority: nobody's turn is skipped.
SignedInOrder == \A t \in DOMAIN transitions : SignedInTurn(transitions[t])

AsksSomeone(row) ==
  row.status = "pending" /\ (\E r \in Rule : row.approvals[r] # NoApproval)
    => PendingApprovals(row) # {}

RulesRemain(row) == {r \in Rule : RuleMeta[r] = row.meta} \subseteq rules

\* An open transition that needs signatures waits for one of them: it is not
\* left open with every signature given or nobody left to ask, unless a rule of its
\* own edge has been deleted.
OpenTransitionsCanBeSigned ==
  \A t \in DOMAIN transitions : RulesRemain(transitions[t]) => AsksSomeone(transitions[t])

FollowsTransition(row) ==
  \A r \in Rule : row.approvals[r] # NoApproval =>
    /\ row.status = "pending" => row.approvals[r] \in {"pending", "approved"}
    /\ row.status = "done" => row.approvals[r] = "approved"
    /\ row.status \in {"cancelled", "jumped"} => row.approvals[r] = row.status

\* The approvals of a transition close with it: a closed transition asks nobody for
\* a signature, and an open one has no closed approval.
ApprovalsFollowTransition == \A t \in DOMAIN transitions : FollowsTransition(transitions[t])

Events(t, action) == {k \in DOMAIN auditLog : /\ auditLog[k].action = action
                                              /\ t \in auditLog[k].transitions}

\* The audit log tells what happened to every transition: one entry for its
\* cancellation or its jump and none after it, and one for each of its signatures.
AuditMatchesRows ==
  \A t \in DOMAIN transitions :
    /\ \A action \in {"cancelled", "jumped"} :
         /\ Cardinality(Events(t, action)) = IF transitions[t].status = action THEN 1 ELSE 0
         /\ \A k \in Events(t, action) : \A j \in DOMAIN auditLog :
              j > k => t \notin auditLog[j].transitions
    /\ transitions[t].status \in {"pending", "done"} =>
         Cardinality(Events(t, "approved")) =
           Cardinality({r \in Rule : transitions[t].approvals[r] = "approved"})

HasJumped == \E k \in DOMAIN auditLog : auditLog[k].action = "jumped"

\* The row t was open after the k-th entry of the log: it still is, or a later entry
\* names it.
OpenAfter(t, k) ==
  \/ transitions[t].status = "pending"
  \/ \E j \in DOMAIN auditLog : j > k /\ t \in auditLog[j].transitions

\* A signature that left its transition open has cancelled others, although an older
\* transition out of the same state could still be taken instead.
CutShort ==
  \E k \in DOMAIN auditLog, t, p \in DOMAIN transitions :
    /\ k + 1 \in DOMAIN auditLog
    /\ auditLog[k].transitions = {t} /\ auditLog[k + 1].action = "cancelled"
    /\ OpenAfter(t, k + 1) /\ OpenAfter(p, k + 1)
    /\ From(transitions, p) = From(transitions, t)
    /\ transitions[p].iteration < transitions[t].iteration

\* Moved by approvals alone, an object is not stranded: in a state that has an edge
\* out of it there is an open transition, whatever was cancelled before and however
\* often the object has come back, unless a signature has cut short what an older
\* open transition leads to.
NotStranded ==
  state # NoObject /\ ~HasJumped /\ ~CutShort /\ (\E m \in Meta : Source[m] = state) =>
    \E t \in Pending(transitions) : From(transitions, t) = state

\* What is closed stays closed: no step changes a transition that is done,
\* cancelled or jumped, and no row disappears.
ClosedStaysClosed ==
  [][\A t \in DOMAIN transitions : transitions[t].status # "pending" =>
       t \in DOMAIN transitions' /\ transitions'[t] = transitions[t]]_vars

\* A cancellation leaves no dead end: what an open transition of the same or a later
\* iteration leads to stays open with it.
CancellationIsClosed ==
  [][\A k, p \in DOMAIN transitions : 
       /\ transitions[p].status = "pending" /\ transitions'[p].status = "cancelled"
       /\ transitions'[k].status = "pending"
       /\ k # recent' /\ transitions[k].iteration >= transitions[recent'].iteration
       => To(transitions, k) # From(transitions, p)]_vars

\* The log records every change of the state: with the entry of a signature or of
\* a jump on a transition that leads to the new state.
StateChangesAreAudited ==
  [][state' # state /\ state # NoObject =>
       \E k \in DOMAIN auditLog' \ DOMAIN auditLog :
         /\ auditLog'[k].action \in {"approved", "jumped"}
         /\ \E t \in auditLog'[k].transitions : To(transitions, t) = state']_vars

-----------------------------------------------------------------------------
(* What the object promises to its readers.                                 *)

Ledger == INSTANCE WorkflowLedger
            WITH place <- state,
                 ledger <- [t \in DOMAIN transitions |->
                              [edge |-> transitions[t].meta, status |-> transitions[t].status]]

\* The rows, approvals and loops above implement the ledger: the object moves only
\* over an open transition out of its state, or jumps to where one leads.
ImplementsLedger == Ledger!Spec
=============================================================================
