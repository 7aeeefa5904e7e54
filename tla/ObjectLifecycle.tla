--------------------------- MODULE ObjectLifecycle ---------------------------
(***************************************************************************)
(* The birth and the death of a workflow object: what the signal handlers  *)
(* of models/fields/state.py do around its INSERT and its DELETE.  Django  *)
(* commits every statement that no transaction surrounds, so that others   *)
(* see an object that is half made, change it, delete it, or it stays so.  *)
(* A model may have several state fields, each with a workflow.            *)
(***************************************************************************)
EXTENDS Naturals, Sequences, FiniteSets

CONSTANTS
  Process,
  Fields,         \* the state fields of the model, in the order of its registry
  Defined,        \* those that have a Workflow row
  Initial, Moved, \* field |-> its workflow's initial state, and the next one
  Null,
  InTransaction   \* whether callers save in a transaction (ATOMIC_REQUESTS)

StateField == {Fields[k] : k \in DOMAIN Fields}

ASSUME LifecycleAssumption ==
  /\ Fields \in Seq(StateField) /\ Cardinality(StateField) = Len(Fields)
  /\ Defined \subseteq StateField
  /\ InTransaction \in BOOLEAN
  /\ \A f \in StateField : Initial[f] # Moved[f] /\ Null \notin {Initial[f], Moved[f]}

VARIABLES
  db,       \* the object's row, the fields whose Transition rows exist, and its own hooks
  program,  \* program[p]: the instance p has in memory, and the fields its handler still has to visit
  before,   \* db when the transaction of a save began
  created   \* the object has been created: it has no second life with another pk

lifecycleVars == <<db, program, before, created>>

States == [StateField -> (UNION {{Initial[f], Moved[f]} : f \in StateField}) \cup {Null}]
NoState == [f \in StateField |-> Null]
NoRow == [exists |-> FALSE, state |-> NoState, rows |-> {}, hooks |-> FALSE]
Idle == [at |-> "idle", memory |-> NoState, todo |-> <<>>]

Saving(p) == program[p].at \in {"initialize", "set_state"}

LifecycleTypeOK ==
  /\ {db, before} \subseteq [exists: BOOLEAN, state: States, rows: SUBSET StateField, hooks: BOOLEAN]
  /\ program \in [Process -> [at: {"idle", "loaded", "initialize", "set_state"},
                              memory: States, todo: Seq(StateField)]]
  /\ \A p \in Process : Saving(p) <=> program[p].todo # <<>>
  /\ created \in BOOLEAN

-----------------------------------------------------------------------------

\* A transaction around the save hides it from everyone else.
Visible == InTransaction => \A p \in Process : ~Saving(p)

\* Model.save of p's instance: an UPDATE of every column, an INSERT if there is no such
\* row.  After an INSERT the handler visits every field.
SavedRow(memory) == [db EXCEPT !.exists = TRUE, !.state = memory]

Saved(p, memory, rest) ==
  LET todo == IF db.exists THEN rest ELSE Fields \o rest
  IN /\ db' = SavedRow(memory)
     /\ program' = [program EXCEPT ![p] = [at |-> IF todo = <<>> THEN "loaded" ELSE "initialize",
                                           memory |-> memory, todo |-> todo]]

\* A new object, some of its states set by the caller.
Create(p, given) ==
  /\ Visible /\ ~created /\ program[p].at = "idle"
  /\ created' = TRUE
  /\ before' = db
  /\ Saved(p, [f \in StateField |-> IF f \in given THEN Initial[f] ELSE Null], <<>>)

\* Mutant of InitializeApprovals: the transactions of any workflow are found.
InitializeOnce(p) ==
  /\ program[p].at = "initialize"
  /\ db' = IF db.rows = {} THEN [db EXCEPT !.rows = @ \cup ({Head(program[p].todo)} \cap Defined)] ELSE db
  /\ program' = [program EXCEPT ![p].at = "set_state"]
  /\ UNCHANGED <<before, created>>

\* initialize_approvals, in a transaction of its own: nothing without a workflow or when
\* the object has approvals of this workflow.
InitializeApprovals(p) ==
  /\ program[p].at = "initialize"
  /\ db' = [db EXCEPT !.rows = @ \cup ({Head(program[p].todo)} \cap Defined)]
  /\ program' = [program EXCEPT ![p].at = "set_state"]
  /\ UNCHANGED <<before, created>>

\* Mutant of InitialOf: a save of the handler's is not needed.
InitialOfNothing(f) == Null

\* ClassWorkflowObject.initial_state
InitialOf(f) == IF f \in Defined THEN Initial[f] ELSE Null

\* Then its state is set, unless the caller has, and the object is saved again.
SetState(p) ==
  LET f == Head(program[p].todo)
      rest == Tail(program[p].todo)
  IN /\ program[p].at = "set_state"
     /\ IF program[p].memory[f] = Null
        THEN Saved(p, [program[p].memory EXCEPT ![f] = InitialOf(f)], rest)
        ELSE /\ program' = [program EXCEPT ![p].at = IF rest = <<>> THEN "loaded" ELSE "initialize",
                                           ![p].todo = rest]
             /\ UNCHANGED db
     /\ UNCHANGED <<before, created>>

Load(p) ==
  /\ Visible /\ db.exists /\ program[p].at \in {"idle", "loaded"}
  /\ program' = [program EXCEPT ![p] = [Idle EXCEPT !.at = "loaded", !.memory = db.state]]
  /\ UNCHANGED <<db, before, created>>

\* A field of the application's is changed and the object saved.
Edit(p) ==
  /\ Visible /\ program[p].at = "loaded"
  /\ before' = db
  /\ Saved(p, program[p].memory, <<>>)
  /\ UNCHANGED created

\* approve() gives the last signature of the way from the initial state: it finds its
\* approvals by the state in the database.
Approve(p, f) ==
  /\ Visible /\ program[p].at = "loaded"
  /\ f \in db.rows /\ db.exists /\ db.state[f] = Initial[f]
  /\ db' = SavedRow([program[p].memory EXCEPT ![f] = Moved[f]])
  /\ program' = [program EXCEPT ![p].memory[f] = Moved[f]]
  /\ UNCHANGED <<before, created>>

\* A hook of the object's own: OnApprovedHook, OnTransitHook or OnCompleteHook, saved for
\* an instance in memory.  Its generic key does not ask whether the object is still there.
AddHook(p) ==
  /\ Visible /\ program[p].at = "loaded"
  /\ db' = [db EXCEPT !.hooks = TRUE]
  /\ UNCHANGED <<program, before, created>>

\* One transaction: the object, by the GenericRelations its transitions with their
\* approvals, and by the handler its hooks.
Delete ==
  /\ Visible /\ db.exists
  /\ db' = NoRow
  /\ UNCHANGED <<program, before, created>>

\* The process ends; what no transaction has committed is undone.
Crash(p) ==
  /\ program[p].at # "idle"
  /\ db' = IF Saving(p) /\ InTransaction THEN before ELSE db
  /\ program' = [program EXCEPT ![p] = Idle]
  /\ UNCHANGED <<before, created>>

LifecycleInit ==
  /\ db = NoRow /\ before = NoRow
  /\ program = [p \in Process |-> Idle]
  /\ created = FALSE

LifecycleNext ==
  \/ \E p \in Process :
       \/ \E given \in SUBSET StateField : Create(p, given)
       \/ InitializeApprovals(p) \/ SetState(p) \/ Load(p) \/ Edit(p) \/ AddHook(p) \/ Crash(p)
       \/ \E f \in StateField : Approve(p, f)
  \/ Delete

\* A program that has begun to save goes on.
LifecycleSpec ==
  /\ LifecycleInit /\ [][LifecycleNext]_lifecycleVars
  /\ \A p \in Process : WF_lifecycleVars(InitializeApprovals(p) \/ SetState(p))

-----------------------------------------------------------------------------
(* Properties.                                                             *)

Ready == \A f \in Defined : db.state[f] # Null /\ f \in db.rows

\* An object that is there, and that nobody is saving, is in a state of each of its
\* workflows and has the transitions out of it.
CreatedIsReady == db.exists /\ (\A p \in Process : ~Saving(p)) => Ready

\* An object that is there becomes so, or is deleted first.
ReadyInTheEnd == db.exists /\ ~Ready ~> Ready \/ ~db.exists

\* models/fields/state.py of the GenericRelations: they "make Django's deletion collector
\* cascade" through the transitions "when the workflow object itself is deleted".  An
\* object that is gone has none.
NothingIsLeft == ~db.exists /\ (\A p \in Process : ~Saving(p)) => db.rows = {}

=============================================================================
