---------------------------- MODULE TwoWorkflows ----------------------------
(***************************************************************************)
(* An object whose model has several state fields, each with a workflow.   *)
(* The rows of all of them are related to the object, and the names of the *)
(* relations, <field>_transitions and <field>_transition_approvals, do not *)
(* keep them apart: each is every row of the object.  approve() and        *)
(* jump_to() are called for one field and read through both.               *)
(*                                                                         *)
(* A transition needs one signature here, and no workflow has a cycle;     *)
(* InstanceWorkflow has the rest of one workflow.                          *)
(***************************************************************************)
EXTENDS Integers, Sequences, FiniteSets, FiniteSetsExt

CONSTANTS
  Field, State, NoObject,
  InitialState,   \* field |-> initial state of its workflow
  Rows,           \* field |-> the transitions initialize_approvals creates, in order;
                  \* no transition is of two fields
  Transition, Source, Destination, Iteration,
  NoApproval

VARIABLES
  state,    \* state[f]: the field
  status,   \* status[t]: the status of a transition, of any field
  recent    \* the transition of the approval with the latest transaction_date

vars == <<state, status, recent>>

TransitionsOf(f) == {Rows[f][k] : k \in DOMAIN Rows[f]}
Pending == {t \in Transition : status[t] = "pending"}

TypeOK ==
  /\ \A f \in Field : state[f] \in {t \in State : \E u \in TransitionsOf(f) : t \in {Source[u], Destination[u]}} \cup {NoObject}
  /\ status \in [Transition -> {"none", "pending", "done", "cancelled", "jumped"}]
  /\ recent \in Transition \cup {NoApproval}

-----------------------------------------------------------------------------
\* The first save: initialize_approvals and the initial state, for each field.
Create ==
  /\ \A f \in Field : state[f] = NoObject
  /\ state' = InitialState
  /\ status' = [t \in Transition |-> "pending"]
  /\ UNCHANGED recent

\* The pending transitions of f that cannot be reached from the destination of t.
Impossible(f, t) ==
  LET pending == (TransitionsOf(f) \cap Pending) \ {t}
      reached[k \in Nat] ==
        IF k = 0 THEN {Destination[t]}
        ELSE reached[k - 1] \cup {Destination[u] : u \in {v \in pending : Source[v] \in reached[k - 1]}}
  IN {u \in pending : Iteration[u] >= Iteration[t] /\ Source[u] \notin reached[Cardinality(State)]}

\* The pending transitions out of the state: the driver asks for those of the workflow.
Alternatives(f) == {u \in TransitionsOf(f) \cap Pending : Source[u] = state[f]}

\* approve(), with a next_state when there are several.
Approve(f, t, given) ==
  /\ t \in Alternatives(f)
  /\ given \/ Alternatives(f) = {t}
  /\ status' = [u \in Transition |-> IF u = t THEN "done"
                                     ELSE IF given /\ u \in Impossible(f, t) THEN "cancelled" ELSE status[u]]
  /\ state' = [state EXCEPT ![f] = Destination[t]]
  /\ recent' = t

\* The iteration of recent_approval, an approval in whatever workflow.
RecentIteration == IF recent = NoApproval THEN 0 ELSE Iteration[recent]

\* jumped_transition: of the transitions to the state, in whatever workflow, one that
\* is earliest.
Targets(s, transitions, iteration) ==
  {t \in transitions \cap Pending : Destination[t] = s /\ Iteration[t] >= iteration}

Available(s) == Targets(s, Transition, RecentIteration) # {}

\* _transitions_before: those of the workflow.
Before(f, iteration) == {t \in TransitionsOf(f) \cap Pending : Iteration[t] <= iteration}

JumpTo(f, s) ==
  /\ state[f] # NoObject
  /\ Available(s)
  /\ LET earliest == Min({Iteration[t] : t \in Targets(s, Transition, RecentIteration)})
     IN status' = [t \in Transition |-> IF t \in Before(f, earliest) THEN "jumped" ELSE status[t]]
  /\ state' = [state EXCEPT ![f] = s]
  /\ UNCHANGED recent

\* Callers jump to states of the workflow they name.
StatesOf(f) == {Source[t] : t \in TransitionsOf(f)} \cup {Destination[t] : t \in TransitionsOf(f)}

Init ==
  /\ state = [f \in Field |-> NoObject]
  /\ status = [t \in Transition |-> "none"]
  /\ recent = NoApproval

Next ==
  \/ Create
  \/ \E f \in Field : \/ \E t \in Transition, given \in BOOLEAN : Approve(f, t, given)
                      \/ \E s \in StatesOf(f) : JumpTo(f, s)

Spec == Init /\ [][Next]_vars

-----------------------------------------------------------------------------
(* Properties.                                                             *)

\* Wherever the object goes in a workflow, it goes over a transition of that workflow,
\* which is open before and closed after.
MovesCloseTransitions ==
  [][\A f \in Field : state[f] # NoObject /\ state'[f] # state[f] =>
       \E t \in TransitionsOf(f) \cap Pending : Destination[t] = state'[f] /\ status'[t] # "pending"]_vars

=============================================================================
