# xii-django-river in TLA+

xii-django-river is a Django library that moves objects through workflows kept
in the database. A workflow is a graph of `State` rows joined by
`TransitionMeta` rows; each edge has `TransitionApprovalMeta` rows, the rules
that say who has to sign it and in which order. When an object is first saved,
the library copies the graph that is reachable from the initial state into
`Transition` and `TransitionApproval` rows of the object's own, and from then on
`approve()` and `jump_to()` move the object over these rows. Hooks run Python
functions, kept in the database and reviewed there, around each move.

This directory specifies the library: TLA+ modules translated from the code, TLC
configurations that check them on small instances, and TLAPS proofs about
its core. Paths are relative to `src/xii/django_river/`.

## Inventory

| component | state | operations | interacts with | what is hard | module |
|---|---|---|---|---|---|
| instance workflow, `core/instanceworkflowobject.py` | the `Transition` and `TransitionApproval` rows of an object, its state field, its audit log | `initialize_approvals`, `approve`, `jump_to`, `cancel_impossible_future`, `_re_create_cycled_path` | asks the driver what a user may sign, is called by the state field's receiver, wraps the save in the signals | long sequences of legal calls: cancellation by closure over labels, cycles, jumps; overwritten signatures; queries re-read after an update | `InstanceWorkflow` |
| the same in overlapping transactions | what each transaction has read and written | the statements of `approve` | locks and isolation of the database | stale reads, duplicate signatures, deadlock, rollback half way | `ConcurrentApproval` |
| the same with several state fields | the rows of all workflows of an object | `approve`, `jump_to` of one of them | relations that do not tell workflows apart | reading rows of another workflow | `TwoWorkflows` |
| copies of the object | the fields of each Python object | load, and the save inside `approve` and `jump_to` | one database row, any number of copies | a stale copy that is saved; a rolled-back call whose copy has already moved | `ObjectCopies` |
| drivers, `driver/`, `sql/` | none | `get_available_approvals` | permissions and groups of `django.contrib.auth` | min-priority join, rows duplicated by joins, two implementations (ORM, MSSQL) | `Authorization` |
| state field, `models/fields/state.py` | the row of the object | the `post_save` and `post_delete` receivers | creates the rows and the initial state | several transactions, a crash between them; cascades | `ObjectLifecycle` |
| rules and graph, `models/transitionapprovalmeta.py`, `transitionmeta.py`, `workflow.py`; checks, `apps.py` | the definition of a workflow | edits by administrators | the copy an object gets, `final_states`, system checks | edits while objects are created and live | `WorkflowDefinition` |
| audit log, `models/transition_audit_log.py` | append-only rows | `_log_audit` | written by `approve`, `jump_to` and the cancellation | agreeing with rows that are changed in place | `InstanceWorkflow`, `ConcurrentApproval` |
| class workflow, `core/classworkflowobject.py` | cached driver | look-ups | drivers, definition | `final_states` changes with the graph | `WorkflowDefinition`, `Authorization` |
| hooks and signals, `signals.py`, `models/hook.py` | hook rows | BEFORE and AFTER hooks of approve, transit, complete | run inside `approve` around the save | exceptions, failed saves, re-entrant `approve` | `HookDispatch` |
| executors, `executors.py` | a thread pool and its queue | submit, run | hooks | two pools, loss at exit, exhaustion of the workers | `HookExecutor` |
| timeouts, `timeout.py` | SIGALRM handler and timer of the process | `enforce_timeout` | function bodies | nested calls share one timer; the alarm between statements | `FunctionTimeout` |
| database functions, `models/function.py`, `admin/function_admin.py` | function rows, revisions, cache of compiled bodies | edit, approve, `create_function`, `get` | hooks | review and edit of the same row through different copies and processes | `FunctionReview` |
| sandbox, configuration, other checks and forms, managers, factories | none that changes | | | | |

What can go wrong in each of them, at its line and with the properties that
cover it, is listed in `PROJECT.json` ("hazards").

## The modules

Every component has a module of its own, written so that the interleavings that
matter to it are steps and everything else is one. `InstanceWorkflow` takes a call
as one step and has all of its detail; `ObjectCopies` extends it with the Python
objects; `WorkflowLedger` is the abstract specification it implements. The others
take one aspect of the same methods apart and keep of the rest what that aspect
needs: `ConcurrentApproval` the statements of `approve` without cycles,
`HookDispatch` what happens around its save on a chain of states, `Authorization`
the query behind it on a single transition.

| module | what it is |
|---|---|
| `InstanceWorkflow` | the rows of one object in one workflow and every operation on them |
| `WorkflowLedger` | what the object promises its readers: a place and a ledger of transitions |
| `ObjectCopies` | `InstanceWorkflow` with the Python copies the operations are called on |
| `ConcurrentApproval` | calls of `approve` statement by statement in overlapping transactions |
| `TwoWorkflows` | several state fields of one object |
| `Authorization` | the two drivers, grants, rules and assigned approvals |
| `WorkflowDefinition` | edits of the definition while an object is created and moves; final states and the unused-state check |
| `ObjectLifecycle` | creation, saving and deletion of an object, with crashes |
| `FunctionReview` | one database function: edits, approvals, registration, revisions, cache |
| `HookDispatch` | the context managers, hooks and signals around the save of `approve` |
| `HookExecutor` | hooks on a thread pool |
| `FunctionTimeout` | `enforce_timeout` and its alarm |
| `MC...` | small instances for TLC |
| `InstanceWorkflowProofs` | proofs about the rows and the log of `InstanceWorkflow`, that it implements `WorkflowLedger`, and what remains true of it in `ObjectCopies` |
| `PathProofs` | proofs about its loops, and about the ways on that they leave |
| `CreationProofs` | proofs about what an object is created with: `WorkflowDefinition` and `ObjectLifecycle` |
| `ConcurrentApprovalProofs`, `HookDispatchProofs`, `AuthorizationProofs`, `FunctionReviewProofs`, `FunctionTimeoutProofs` | proofs about the module of that name |

### InstanceWorkflow

One workflow definition is the constants `State`, `Meta`, `Source`,
`Destination`, `Rule`, `RuleMeta`, `Priority` and `Label`; the assumptions on
them are the foreign keys and `unique_together` of the models. Who may sign is
the constant `Matches`: how many rows the authorization join returns for a user
and an approval of a rule. `Given` is the set of states callers create objects
in: `_on_workflow_object_saved` sets the initial state only `if not get_state()`
(`models/fields/state.py:72`), while the rows are always those of the whole graph.

`Deletable` are the rules that administrators may delete while the object lives.

| variable | in the code |
|---|---|
| `state` | the state column of the object's row; `NoObject` before the first save |
| `transitions` | the `Transition` rows by key, each with the edge, the iteration, the status and the status of its approval for every rule |
| `recent` | the transition of the approval with the latest `transaction_date`; only its iteration is read |
| `auditLog` | one record per `_log_audit` call: a `bulk_create` inserts the rows of a set |
| `rules` | the `TransitionApprovalMeta` rows that still exist |

| action | in the code |
|---|---|
| `Create(given)` | the first save, with the state field set to `given` or left empty: `_on_workflow_object_saved` and `initialize_approvals` |
| `ApprovePart` | `approve()` when other approvals of the transition are still pending |
| `ApproveLast` | `approve()` with the last signature: done, `set_state`, cycle check, re-creation |
| `JumpTo` | `jump_to()` |
| `DeleteRule` | the deletion of a rule with its `pre_delete` receiver |

Each is one transaction in the code (`@atomic`) and one step here. A call that
raises changes nothing, and is the absence of the action. Where the code relies
on the order of an unordered query the model allows every order: `first()` in
`approve` is any eligible approval, and the last image of a batch, the only one
`_re_create_cycled_path` remembers, is any of the batch (`NextRounds`). The loops
are recursive functions: `Pass` (breadth-first initialization), `FutureLabels`
(the closure of `cancel_impossible_future`) and `RoundOutcomes` (re-creation).
Each is evaluated for a number of rounds that its loop cannot exceed: a pass of
`Pass` finds a new edge, a round of `FutureLabels` a new label, and a round of
`RoundOutcomes` remembers a new edge.

Abstracted: users' names, timestamps (their order is the order of the steps),
the copying of permissions and groups to approvals, logging. The priority of an
approval is a natural number: the column of a rule admits NULL, but that of an
approval does not, so creating an object of such a workflow raises IntegrityError.

### ObjectCopies

`held[c]` is the state a Python object has in memory. `approve` selects by the
state in the database and then saves the whole object, so `ApprovePartOn` writes
`held[c]` back; `ApproveLastOn` and `JumpToOn` set both; `ApproveRollsBack` is an
`approve` that a strict hook or a signal receiver fails after `set_state`: the
database is as before, the copy is not. Rules may be deleted in between.

### WorkflowLedger

The abstract specification: an object starts somewhere, with every edge out of
the initial state open, moves only over an open transition out of the state it is
in, or jumps to where an open transition leads; entries are only ever closed,
and new ones appear only when the object comes back to a state that it has left
before and that no open transition leads out of. `ImplementsLedger` maps `place`
to `state` and `ledger` to the edges and statuses of the rows.

### ConcurrentApproval

`db` is what is committed, `mine[p]` what call p has written and not committed,
`call[p]` the statement it is at with the variables of the method. A call sees the
union of the two; the rows of `mine[q]` are locked for everyone else, and so is a
place in the unique index of `previous`. Every query and every update of
`core/instanceworkflowobject.py:133-205` that reads or writes shared rows is a step:

| step | in the code |
|---|---|
| `Choose`, `Check`, `First` | `exists()`, `exists()` with the `next_state` or `count()` without it, and `first()`: three queries, each of which others may have changed the answer of |
| `ReadRecent`, `Sign` | `recent_approval`, and the save of the approval |
| `ReadIds`, `ReadLabels` | a round of the loop of `cancel_impossible_future`, which evaluates one query twice |
| `List`, `Close` | the list for the audit log, and the updates of approvals and of transitions, which evaluate the query of the list again |
| `Peers`, `Done`, `Save` | the query for pending peers, the save of the transition, the save of the object |
| `Commit` | the end of the transaction; the audit entries of a call are counted here |
| `Fail` | a refused statement, a lost connection or a killed process: nothing of the transaction stays |

An update takes the locks of all its rows at once, and evaluates its subquery when it
has them.

The variable `database`, chosen at the beginning, is what the isolation gives:
on "statement" (PostgreSQL, and MySQL for what it writes) each statement sees
what is committed; on "snapshot" (SQLite) a transaction cannot write when
another has committed since it began or is writing now.

### TwoWorkflows

The rows of all workflows of an object are related to it, so that
`recent_approval` and the query for the target of `jump_to` see all of them,
while `approve` and what `jump_to` closes are restricted to one workflow.

### Authorization

`OrmRows` is the ORM query with a row for each match of its two outer joins,
`MsSqlApprovals` the SQL template step by step (`Authorized`, `MinPriority`, the final
join) over the lists of keys the driver sends. Users are granted permissions, join groups
and are assigned approvals, administrators edit rules and delete them (`DeleteRule`, whose
receiver deletes the pending approvals), objects are created from the rules there are
(`Create`), and `approve` signs with the driver of the database. A permission is known to
the backends by its name, which two of them may share. A superuser has all of them.

### WorkflowDefinition

`workflows`, `metas`, `rules` and `parents` are the rows administrators edit, `objects[o]`
an object with its copy of the graph and, while `initialize_approvals` runs, the queries
it has nested (`processed` holds what each excludes). `Level` evaluates that query as the
database does, the levels before it included, over the rows there are now. An object is
created in the state the caller gives or, `if not get_state()`, in the initial one. `seen`
and `edited` are history variables: the one definition an object was created from, or
`Several`, and whether a saved row was given another edge. The properties are conditional
on them where an edit makes the code's answer stale (see "Other disagreements").

### ObjectLifecycle

`db` has the object's row, the fields whose `Transition` rows exist and its own
hooks; `program[p]` the instance a process has in memory and the fields its
handler still has to visit. `Create`, `InitializeApprovals` and `SetState` are the
statements of one save; every save of the handler is a save of the whole object
and, when the row is gone, an INSERT that calls the handler again. With
`InTransaction` nobody sees what is between, and `Crash` restores `before`. `AddHook`
saves a hook for an instance in memory: its generic key does not ask whether the object
is still there.

### FunctionReview

`row` and `revisions` are the tables, `copy[p]` the `Function` object of a
process, `task[p]` the call it is in with its next statement, `cache[p]` its
compiled body. `PreSave`, `Update`, `PostSave` and `AddRevision` are the
statements of a save in `approve` and `create_function`, which run outside a
transaction; the admin form saves in one, so that its UPDATE and revision are one
step (`CommitEdit`) after its `PreSave`. `disturbed` is a history variable: calls
have overlapped, a call started with a copy that was not the row any more, or a
process was killed in a call. Two processes interleave freely in all of it;
the properties of the review hold until `disturbed`, that of the cache always. What
goes wrong afterwards is under "Promises that fail".

### HookDispatch

`calls` is the stack of `approve()` calls, each with the manager it enters or
leaves and whether an exception is on its way; `doomed` is Django's
`needs_rollback`. A hook returns, raises, fails in a save of its own (which
dooms the atomic block even if the exception is logged) or calls `approve` on
the object of its context; receivers of signals raise. `Return` ends the atomic
block of a call: it goes back to its savepoint when it raises or is doomed.

### HookExecutor

`GetPool`, `CreatePool` and `ReadPool` are the three steps of `_get_pool` two
threads can interleave, so that there may be as many pools as requests; a pool
has a FIFO queue and `MaxWorkers` workers. `Exit` is the end of the main thread
(what is queued runs, what is submitted is refused with RuntimeError, which fails
`approve` whatever `RIVER_STRICT_HOOKS` says), `Crash` that of the process.

### FunctionTimeout

`stack[th]` are the calls of a thread, each at a statement of `enforce_timeout`;
`timer` and `handler` are those of the process. `Alarm` strikes between any two
statements: in a body it raises there, outside the `try` statement it leaves the
call as it is. Seconds pass by `Tick`.

## Runs

| run | instance | what it shows |
|---|---|---|
| `loop` | two ways from a to c, one of them an edge that two users sign in turn and whose second rule may be deleted, an exit on the other, and a way back from c; any mix of `approve` and `jump_to` | rows, approvals and audit entries agree (`DoneIsFullySigned`, `SignedInOrder`, `OpenTransitionsCanBeSigned`, `ApprovalsFollowTransition`, `AuditMatchesRows`), closed rows stay closed (`ClosedStaysClosed`), a move is in the log (`StateChangesAreAudited`), what is cancelled is what the chosen path excludes (`CancellationIsClosed`), an object moved by approvals alone has a way on unless its state is final or a half signature has cut short what an older row leads to (`NotStranded`), and all of it implements the ledger |
| `copies` | a path of two edges, the second with two signatures, and an edge back; two copies of the object, calls that roll back, any rules deleted at any time | the rows and the log agree whatever is in the copies, and closed rows stay closed |
| `calls` | two threads call `approve` on an object that is to be won (leader, then manager) or lost, and filed | on a database that refuses the writes of a lost race the rows and the log are as in `loop` (`SerializedIsFullySigned`, `SerializedAuditMatches`, `SerializedStaysClosed`), and `previous` leads through the signatures in the order in which they were given (`SerializedHistory`); on either database only calls that name a `next_state` can be in a deadlock (`OnlyChoicesDeadlock`) |
| `unsigned_done` | the same | violated, see below |
| `half_jump` | two state fields of one object with a state in common | violated, see below |
| `authorization` | two users, two groups, two permissions with one name, two rules, one object | both drivers give the same answer (`DriversAgree`), no approval is signed before one of a lower priority (`TurnIsKept`), while rules are edited and deleted |
| `definition` | three states, three edges, two rules, one object | an object's copy is what its initial state reaches (`CopyIsOfOneDefinition`); parents of a rule are the rules before it (`ParentsAreThoseBefore`); an object in a final state has no way on, whatever was added and deleted since it was made, and one whose own graph ends is in a final state as long as the definition is its own (`FinalIsTheEnd`); a state that the check reports as unused is in no copy (`UnusedIsUnused`): each as long as no edit undoes it, which the property says |
| `lifecycle` | two processes and two state fields, in request transactions, with crashes | an object that others can see is complete (`CreatedIsReady`), and creation is completed (`ReadyInTheEnd`) |
| `function_review` | two processes, two administrators of whom one may approve her own code, two bodies | an approval is of the body that was reviewed (`ApprovedBodyWasReviewed`), it reaches the history (`ApprovalIsRecorded`), which has one entry for each edit, in order (`RevisionsAreEdits`), and a process runs the body it has loaded (`RunsItsBody`) |
| `hooks` | a chain of states with one, two and one signatures; strict hooks and receivers that raise, fail in the database or approve again, three calls deep | state and signatures agree after each call (`StateFollowsSignatures`), a signal `post_*` follows its save (`PostMeansSaved`), a call that returns has signed (`ReturnedMeansSigned`) |
| `hook_pool` | two requests, three hooks, two workers, a body that hangs, exit and crash | a submitted hook comes to run (`HooksRun`) |
| `timeout_nested` | three calls deep on the main thread, a worker | the alarm never meets the default handler (`AlarmsAreExpected`) and cuts nobody short unless some call has had its time (`NobodyIsCutShort`) |

The two violated properties are promises of the documentation:

* `unsigned_done`: a transition waits for the leader and then for the manager. One
  call has chosen the leader's approval; another signs the edge to another state,
  cancels the transition with its approvals and commits. On a database whose
  statements see what is committed the first call then saves its approval, every
  column of it, finds no pending peer because the manager's was cancelled, and sets
  the transition to done: the manager never signed. `calls` shows the same
  interleavings to be harmless when the database refuses the write.
* `half_jump`: `delivery` and `payment` share a state. `jump_to` of one field
  finds the transition of the other with the smaller iteration, closes its own
  up to that iteration, and leaves open the one that leads to where it went.

### Promises that fail

Some properties of the table have a hypothesis (`disturbed`, `edited`, `seen`,
`InTransaction`, `Strict`) that leaves out part of a hazard, and one hazard has no
property at all. What the documentation promises of the rest is stated in the modules
as well, and fails. Each of these configurations checks one such promise, on
the instance of the run of its module without the hypothesis, and TLC shows a history of the code that breaks it;
they are not among the runs of `PROJECT.json`.

| configuration | module, property | what the documentation says | what happens |
|---|---|---|---|
| `rule_deleted` | `MCAuthorization`, `RulesDoNotReachObjects` | objects "are not affected by the changes on the workflow (Except the hooks)" (`docs/faq.rst:113-114`) | the receiver of a rule's deletion deletes its pending approvals in every object (`models/transitionapprovalmeta.py:61`) |
| `two_groups` | `MCAuthorization`, `NextStateIsRedundant` | `next_state` is "redundant as long as there is only one next state" (`docs/api/instance.rst:34-36`) | a user in two groups of one approval gets it twice from the join, and `approve` counts rows (`core/instanceworkflowobject.py:144`) |
| `orphans` | `MCObjectLifecycle`, `NothingIsLeft` | the relations "make Django's deletion collector cascade" (`models/fields/state.py:80-84`) | without a transaction an object is deleted before its handler creates the rows, which nothing removes (`core/instanceworkflowobject.py:32`) |
| `overtaken_approval` | `MCFunctionReview`, `NewCodeIsSignedOff` | "a reviewer has to sign off on the *new* code, not the old one" (`docs/hooking/function.rst:53-54`) | a form saves a new body between the comparison of an approval (of `approve` or of `create_function`) and its UPDATE, which approves the new body (`models/function.py:111`, `292`) |
| `overtaken_edit` | `MCFunctionReview`, `EditsAreRecorded` | every edit "is written to an immutable FunctionRevision row" (`docs/hooking/function.rst:93-94`) | a form whose body was unchanged when `on_pre_save` compared it writes the old body over a new one, and no entry (`models/function.py:214`) |
| `killed_approval` | `MCFunctionReview`, `ApprovalsAreRecorded` | and so is every approval | the process ends between the UPDATE and the revision (`models/function.py:111`) |
| `failing_save` | `MCHookDispatch`, `FailingHooksDoNotBlock` | what hooks raise is logged, and they should not "be able to block the workflow" (`docs/hooking/hooking.rst:40-44`) | a BEFORE hook fails in the database and is logged; the next query of `approve` is refused, and the signature is rolled back (`models/hook.py:92`) |
| `early_hook` | `MCHookExecutor`, `RunningIsCommitted` | the transition "has already committed and returned to the caller" (`docs/hooking/hooking.rst:123-125`) | hooks are submitted in the transaction and may start before it commits, or although it never does (`executors.py:77`) |
| `outer_limit` | `MCFunctionTimeout`, `LimitIsKept` | an error "if the wrapped block is still running after `seconds`" (`timeout.py:47-48`) | a nested call ends and clears the one timer; the outer body goes on without a limit (`timeout.py:80`) |

### Other disagreements met while modelling

The modules allow for these, and the properties above are stated so that they
hold in spite of them. Each is a behaviour of a module that can be reproduced by
stating the quoted promise as an invariant.

* Rules and definitions. Deleting the rule of a signature that is still missing
  strands the transition (`docs/faq.rst:114-117`). `final_states` and W004 judge
  objects by the present definition. An edge without rules can be taken by
  nobody; the hint of W002 (`apps.py:113-114`) says anyone. W001 compares the
  name of a field and not its model. On a database whose statements see what is
  committed, an edit between two levels of `initialize_approvals` gives the
  object parts of two definitions. The parents of a rule are not kept when its
  edge is edited; nothing reads them.
* Cycles. A return re-creates an edge twice when two ways of a batch lead to it,
  and `approve` without `next_state` then asks for it although there is one next
  state (`docs/api/instance.rst:34-36`). When the chosen path leads back to where
  it starts, the edges that were not taken stay open, the return is not seen
  as a cycle, and the edge that was taken is not open again
  (`docs/faq.rst:61-62`).
* Stranding. "Cancel all approvals that are not part of the possible future [...]
  and re-create the whole rest of the pipeline when it cycles"
  (`docs/changelog.rst:132`). `approve` cancels with every signature that names
  `next_state`, also when its transition stays open, and only from its
  iteration on. Take a workflow with edges a-b, b-z, a-c (two signatures), a-k,
  k-c and c-a, and an object that has gone a-c-a without naming states and then
  a-k-c-a, naming c at k: now it is in a with the old row a-b and with
  a new row for every edge. One signature for the new row a-c, naming c,
  cancels the new rows a-b, b-z, a-k and k-c; the old b-z was cancelled before.
  The old a-b is still open, leads to b when it is signed, and there every row is
  cancelled. `NotStranded` excludes just this history (`CutShort`), and is proved
  for every other.
* Creation. An object may be created in a state that no edge reaches from the
  initial state; it then has no rows out of it and can never be moved.
* Copies. A stale copy puts the object back into an old state, with no entry in
  the log; a copy left behind by a failed call has its state saved by the next
  signature.
* Several fields. A later iteration in one workflow makes `jump_to` in the other
  refuse a state that is open.
* Authorization. Transactioner, permissions and groups are joined by AND
  (`docs/authorization.rst:4-5` speaks of any of them).
* Overlap. A transition that one call has cancelled is set to done by another
  (`transition.save()` writes every column). A call that names a `next_state` cancels
  approvals others are signing, so that such calls can wait for each other.
* Life cycle. Without a transaction around it creation can end half way and lose its state
  to a save of a copy that was loaded before it was set. A hook saved for an object that
  another process has deleted stays, as the generic key asks nothing. A model without a
  workflow gives objects with a NULL state and no error (`docs/admin/index.rst:6-7`).
* Functions. One body submitted twice at once can be stored as approved without a
  review. Whoever saves a form last is the author
  that may not approve. An approval through a copy loaded before an edit writes a
  revision of a body that is not stored.
* Hooks, when `RIVER_STRICT_HOOKS` is off. A hook that fails in the database rolls
  `approve` back silently when it is the last one. A failed `approve` inside a hook leaves
  the object moved, and the outer save stores it.
* Hooks, always. AFTER hooks run for a save that did not happen; `post_*` can be
  sent of a transition that an outer manager rolls back. A hook that approves on a
  cycle for ever ends with Python's stack. Two threads can create a pool each.
* Timeouts. An alarm of an outer call that strikes while a nested call installs its
  handler ends the nested call, and is then swallowed by whatever logs its error.

### Bounds

TLC needs finite instances; the bounds are guards or sets in the configurations.

* `loop`: `RowBound` = 11 rows, a guard of the only action that adds any. The
  object has 5 after creation, in state a or c. A return adds at least 3, so
  that there are two of them, an edge can have rows of three iterations, and every order
  of a batch is explored in a graph whose batches overlap; with 10 rows there is only
  one. Larger bounds add further returns of the same kind.
* `copies`: `RowBound` = 9. The object has 3 rows after creation and each return adds 3, so
  that there are two returns with a stale copy about; two copies suffice, one stale
  and one in use.
* `calls`: `CallBound` = 4 calls in all, two at a time: as many as there are
  signatures on the longest way, plus one that comes to nothing.
* `authorization`: everything occurs twice, the least that tells AND from OR and
  counts a duplicate of a join. Users are symmetric.
* `definition`: three states make a path, a fork and a cycle; edges and rules are
  symmetric, which is sound as all properties of the run are invariants.
* `function_review`: `RevisionBound` = 3 revisions. With `DisturbedBound` = 1 a behaviour
  goes on after the first overlap, which `RunsItsBody` needs; the three configurations of
  promises that fail have 3, to go on further.
* `hooks`: `DepthBound` = 3 nested calls; the chain has 3 edges, so that each nested call
  can move the object. A hook that approves without end is cut off by it.
* `hook_pool`: one request with two hooks and one with one, `MaxWorkers` = 2 and
  one body that hangs: less than the pool, so that queues move on. With as
  many hung bodies as workers `HooksRun` fails, as the code has no remedy.
* `timeout_nested`: a limit of `Seconds` = 3, so that a nested call can begin and end within
  it, and `Depth` = 3 calls. Both are unbounded in the theorems.

### Fairness and deadlock

Nothing in the library obliges anyone to call it: there is no fairness on users,
administrators or callers, and all modules but three claim safety only. In those, what
has started goes on, weakly fair per actor: the next statement of a save
(`ObjectLifecycle`) or of a call (`FunctionReview`), a request that
submits its hooks, and a worker that takes from its queue or ends a body that does
not hang (`HookExecutor`). The justification is the scheduler of the threads;
crashes and hanging bodies are never forced.

Deadlock is checked in `definition` and `timeout_nested`. The other models may stop:
objects reach final states or the bounds, processes end.

## Theorems

| theorem | module | statement |
|---|---|---|
| `Invariance` | `InstanceWorkflowProofs` | `Spec => []IInv`, the inductive invariant |
| `TypeCorrect` | | `Spec => []TypeOK` |
| `DoneFullySigned` | | `Spec => []DoneIsFullySigned` |
| `PriorityOrder` | | `Spec => []SignedInOrder` |
| `ApprovalsFollow` | | `Spec => []ApprovalsFollowTransition` |
| `OpenCanBeSigned` | | `Spec => []OpenTransitionsCanBeSigned` |
| `ClosedIsFinal` | | `Spec => ClosedStaysClosed` |
| `LedgerImplemented` | | `Spec => ImplementsLedger` |
| `EveryMoveAudited` | | `Spec => StateChangesAreAudited` |
| `AuditMatches` | | `Spec => []AuditMatchesRows` |
| `CopiesInvariance` | | `CopiesSpec => []CopiesIInv` |
| `CopiesAuditMatches` | | `CopiesSpec => []AuditMatchesRows` |
| `CopiesClosedIsFinal` | | `CopiesSpec => ClosedStaysClosed` |
| `CopiesRows` | | `CopiesSpec => [](DoneIsFullySigned /\ SignedInOrder /\ ApprovalsFollowTransition)` |
| `CancellationClosed` | `PathProofs` | `Spec => CancellationIsClosed` |
| `NeverStranded` | | `GivenReached` implies `Spec => []NotStranded` |
| `BaseInvariance` | `ConcurrentApprovalProofs` | `Spec => []BaseInv`, on either database |
| `OnlyChoices` | | `Spec => []OnlyChoicesDeadlock` |
| `SerialInvariance` | | `Spec => []SerialInv`, on a "snapshot" database |
| `FullySigned` | | `Spec => []SerializedIsFullySigned` |
| `AuditMatches` | | `Spec => []SerializedAuditMatches` |
| `HistoryInOrder` | | `Spec => []SerializedHistory` |
| `StaysClosed` | | `Spec => SerializedStaysClosed` |
| `Invariance` | `HookDispatchProofs` | `Spec => [](SavedInv /\ StrictInv)` |
| `PostAfterSave` | | `Spec => []PostMeansSaved` |
| `SignaturesDecide` | | `Strict` implies `Spec => []StateFollowsSignatures` |
| `ReturnedSigned` | | `Strict` implies `Spec => ReturnedMeansSigned` |
| `Invariance` | `FunctionReviewProofs` | `Spec => []IInv` |
| `BodyRuns` | | `Spec => []RunsItsBody` |
| `BodyReviewed` | | `Spec => []ApprovedBodyWasReviewed` |
| `EditsInHistory` | | `Spec => []RevisionsAreEdits` |
| `Invariance` | `AuthorizationProofs` | `Spec => []IInv` |
| `TurnKept` | | `Spec => []TurnIsKept` |
| `DriversEqual` | | `Spec => []DriversAgree` |
| `DefinitionInvariance` | `CreationProofs` | `Spec => []DefinitionIInv`, of `WorkflowDefinition` |
| `CopyOfOneDefinition` | | `Spec => []CopyIsOfOneDefinition` |
| `ParentsBefore` | | `Spec => []ParentsAreThoseBefore` |
| `FinalEnds` | | `Spec => []FinalIsTheEnd` |
| `UnusedUnused` | | `Spec => []UnusedIsUnused` |
| `LifecycleInvariance` | | `InTransaction` implies `LifecycleSpec => []LifecycleIInv` |
| `CreatedReady` | | `InTransaction` implies `LifecycleSpec => []CreatedIsReady` |
| `Invariance` | `FunctionTimeoutProofs` | `Spec => []IInv` |
| `AlarmsExpected` | | `Spec => []AlarmsAreExpected` |
| `NobodyCutShort` | | `Spec => NobodyIsCutShort` |

Each holds for every value of the constants of its module that its `ASSUME`s admit:
every workflow graph, set of rules, users and deletable rules and every `RowBound`
(`GraphAssumption`, `RuleAssumption`, `BoundAssumption`, `NoApprovalAssumption`); every
workflow whose iterations grow along its edges, that is without cycles, and
every finite number of calls (`ConcurrentAssumption`); every chain of edges, depth of
nesting and behaviour of hooks and receivers (`ChainAssumption`); every set of processes,
users and bodies and every `RevisionBound` (`FunctionAssumption`); every finite set of
groups, permissions, rules and objects (`AuthorizationAssumption`); every set of states,
edges, rules, objects and fields, of which one is the subject's (`DefinitionAssumption`);
every list of state fields, any of them with a workflow, and every set of processes
(`LifecycleAssumption`); every set of copies (`CopiesAssumption`); every `Seconds`,
`Strict`, `Depth` and set of threads (`TimeoutAssumption`).

Three hypotheses are stated in theorems instead, as they are choices of those who use the
library. `Strict` is `RIVER_STRICT_HOOKS`: without it a failed `approve` inside a hook
leaves the object moved (see "Other disagreements"). `GivenReached` says that callers
create objects in the initial state or in one that an edge reaches from it: in any
other state an object has no rows. The `loop` run satisfies it. `InTransaction` says that
callers save objects in a transaction, as `ATOMIC_REQUESTS` does: without one others see,
change and delete objects that are half made, and `CreatedIsReady` does not hold
(see `orphans` and "Other disagreements"). The `lifecycle` run satisfies it.

### The rows

None of the invariants of `InstanceWorkflow` is inductive alone. That a completed row
is fully signed needs that an open row has no cancelled or jumped approval
(`FollowsTransition`): `approve` only looks for *pending* peers. That an approval
picked by the driver belongs to an open row, so that nothing closed is touched,
follows from the same conjunct, as the driver looks at the approval's status and
not at the transition's. That the deletion of a rule strands transitions of its own
edge only needs that the approvals of a row are of rules of its edge (`OfItsRules`).
`IInv` is the conjunction of `TypeOK`, of "an object that does not exist has no rows",
and of `RowInv` for every row: `FollowsTransition`, `SignedInTurn`, `OfItsRules` and, when
the rules of its edge remain, `AsksSomeone`. The proof goes
row by row: the lemmas say what signing, completing, cancelling, jumping,
re-creating and deleting do to one row, and one lemma per action says that every
row of the next state is one of these images of a row that satisfies `RowInv`.

`LedgerImplemented` shows that the first state maps to the first state of the
ledger and, one lemma per action, that a step from a state of `IInv` is a step of
the ledger: `Create` a `Start`, `ApprovePart` a `Sign`, `ApproveLast` a `Move`,
`JumpTo` a `Jump`, and `DeleteRule` a stutter, as it changes approvals only. Two
lemmas carry it. `FirstEdgesCreated`: every edge out of the initial state has a
row, because the enumeration of a finite set reaches each of its elements.
`JumpedTarget`: among the rows `jump_to` closes is one that leads to the state,
namely a row of the least iteration among those that do (`WFMin`), for `jump_to`
closes exactly what is up to that iteration. `EveryMoveAudited` follows from
`JumpedTarget` for jumps and, for a last signature, from the row the approval
belongs to keeping its edge through signing, cancelling and completing.

The invariant behind `AuditMatches` is `AuditInv`: entries name rows that exist, and
the log tells of each row by itself what happened to it (`RowAudited`). A step adds
one entry for a signature, perhaps one for what it cancels, or one for a jump
(`SignatureEntries`, `NewEntry`), so that a row is untouched, signed or closed, and each
case is a lemma; the count of a row's signatures and of its entries grow together.

### The ways on

The loops of `instanceworkflowobject.py` are recursive functions over the natural
numbers. A recursive function is a CHOOSE in TLA+, and that it has the values its
equation says is first of all to be proved. The library's theorem for this has an
operator as parameter, which the provers cannot instantiate; `Recursion` states it with
a function in its place, and is proved from `Least`, which is `WFMin`. `Induction` likewise
has a set for the property. Upon these rest three results about the loops:

* `ReachedIsClosed`: as many passes as there are edges find every edge that can be
  reached, since a pass that finds anything finds an edge more.
* `FutureIsClosed`: as many rounds as there are states close the labels under open rows,
  since a round that does not close them finds a label more. `CancellationClosed`
  follows: what is cancelled has a label outside, and open rows do not lead there.
* `ReCreatedIsClosed`: whatever orders the queries return, the rows that a return
  creates are all that can be reached from its state along edges that have rows
  (`Explored`, an invariant of the loop's rounds): the loop remembers just the last
  edge of a batch, but what it forgets is only created twice.

`NeverStranded` needs more than these, because an object does not only move along what
one call computed. `StrandInv` says that edges with rows lead to edges with rows
(`MetasClosed`) and, while nothing was jumped or cut short, that there is a set of states
`S` around the object's (`WaysOnIn`): open rows do not lead out of it, and from each of its
states that has an edge some row is open or was taken. A signature shrinks `S` to
the future it keeps, a move stays within it, and there either a row is open or one
was taken and none is open; then the object has come back, and everything is created
again. What breaks the argument is an older open row of the same state that leads out
of the future of a signature that leaves its own row open. In an earlier version
`NotStranded` had no exception; this step of the proof failed, and TLC then found the
history that is described above.

### The copy and the definition

`CopyIsOfOneDefinition` compares two accounts of the same thing. The property takes the
edges whose source is in every closed set of states; the code nests one query in the
other, each of which leaves out what had been processed when it was made, and evaluates
all of them again in each pass. Both the existence of the levels those queries describe
(`LevelsExist`, the least relation that satisfies them, since the levels are a recursive
function and so a CHOOSE) and what a pass adds to them are proved first: a pass changes
none of the levels before it, as what is left out of them is fixed (`LevelsAgree`), and
the next level is what the last one leads to without what is there (`Following`).
`DefinitionIInv` then has two parts for an object that has seen one definition. While it
is created (`Traced`) every edge of its rows can be reached, and what the processed edges
lead to is processed or in the level that comes next; so when that level is empty the
states reached are closed (`AllProcessed`), and they are the least such set. Afterwards
(`Copied`) its rows have the edges that could be reached, and it is where one of them
leads or at the start. A step of an administrator that changes the definition makes the
history `Several`, and one that does not leaves the levels as they are (`ObjectStays`).
`FinalEnds` has two halves. That an object in a final state has no row out of it needs
no copy of one definition: the edge of a row is protected from deletion (`ObjectInv`) and,
while nobody edits it, leads from where the row does. The other half follows from
`Copied`: where a row leads to, an edge that leaves can be reached, hence is in the copy.
A place that no row leads to is left out of it, as callers may create an object in a
state that the graph does not reach.

`ParentsBefore` is inductive by itself, with the tables typed; `UnusedUnused` needs
that an edge an object has a row of is not deleted (`on_delete=PROTECT`).

### The life of an object

`LifecycleIInv` says that one process saves at a time and what it sees: the fields the
handler has visited are ready (`Underway`) and those that are ahead are known, while the
row as it was before the transaction, and the row itself when nobody saves, is ready or
gone with all that was its (`Settled`). Two conjuncts are easily missed. A save inside
the handler of an object whose row is gone would be a creation, with all fields ahead
once more (`SavedInv`); a copy that is loaded has every state set, so that saving it
cannot take the state of a field back to NULL.

### Copies

`CopiesIInv` is `IInv` and `AuditInv` with nothing added but the type of the copies:
no operation reads the state of a copy to decide anything, and `IInv` says of `state` only
whether there is an object. So every step of a copy is one of `InstanceWorkflow`, or a
stutter when it is rolled back, or a signature with some other state of the workflow
(`CopyStep`), for which the lemmas about `SignPart` do. `StateChangesAreAudited`,
`NotStranded` and the ledger, which relate the state to the rows, do not survive, as
"Other disagreements" says.

### The other modules

`BaseInv` of `ConcurrentApproval` says what a call holds at each statement (`Held`): one that
has signed holds the row of its approval; until the first update of its cancellation, or, if
it names no `next_state`, until it saves its transition, it holds no other; and the object is
the last row it takes. So whoever waits for a row of a call that has no `next_state` and is
itself waiting is at the update of the approvals it cancels, and has a `next_state`; in a
circle every call is waited for by one such, or is one, and a count of the calls
(`FS_Surjection`, hence `IsFiniteSet(Call)`) excludes the others: `OnlyChoices`.

`SerialInv` holds of a database that refuses the writes of a lost race: at most one call
has written anything (`Alone`), a call that is not stale sees what it chose still pending
and what it takes for the most recent signature still the latest (`Fresh`), and what the
writer sees is what was committed, its own signature, what that closed as far as it has
come, and perhaps the end of its transition (`Writing`). Its updates evaluate the query of
its list again, and find what was listed, because nothing but the call has changed the
rows. So a commit takes one consistent state to another, with the entries that tell the
difference and a signature that names the latest before it (`Dated`, `Ordered`).

`SavedInv` of `HookDispatch`: of nested calls, an inner one began where the outer ones
had saved, so that what it takes back when it ends is never behind their edges; a
signal `post_*` was sent behind its save. `StrictInv`: before the outermost call,
and now unless an exception is on its way, the state is the number of edges
that have all their signatures, but for the edge that the innermost call is about to take.

`IInv` of `FunctionReview`: a process has compiled what its cache says, and, as long as
calls have not disturbed each other, the copy of a call under way follows from the
row, its version included (`Follows`), the body of an approved row was reviewed or is about
to be recorded, and the history tells of every version up to that of the row or, between
an UPDATE of a changed body and its `on_post_save`, up to the one before
(`Chronicled`). `BodyRuns` needs no such condition.

`IInv` of `Authorization` is `TypeOK` with `TurnIsKept`: what the query offers is of the least
priority that is pending, so a signature follows all of a lower one. `DriversEqual` is no
question of steps: for all rows that have their types the two queries are the same
set (`AnswersAgree`), joins over empty lists included.

The invariant of `FunctionTimeout` says that only the innermost call of the main thread
is at another statement than its body (`ShapeOf`), that a call which has installed its
handler and not yet armed finds one (`TopIs("arm")`), that the timer is off when a
handler is restored, and that a running timer has a call in its body that has been
running for what the timer has lost (`ArmedIn`). The last is what makes both theorems
true: every disarming, also that of a nested call, leaves no timer, and every
arming starts one with the whole limit.

### Only model-checked

`ApprovalIsRecorded`, `HooksRun` and `ReadyInTheEnd`, as liveness under fairness
is beyond the prover; the two violations, and the promises that fail. Every invariant and
every action property of a passing run is a theorem.

## Not modelled, and what is left

* `sandbox.py` (a table of allowed builtins), `config.py`, and the checks W001, W002,
  W003, W005 and W006 of `apps.py`: settings and single queries, without steps.
* `admin/`, except the saves and the approval of `FunctionAdmin`: forms over single
  rows with Django's own code.
* `managers/`, `models/factories.py`, `migrations/`, `features/`, `rivertest/`,
  `docs/conf.py`: fixtures, tests, schema and build.
* `get_on_approval_objects`: a selection by the driver's answer, which
  `Authorization` has.
* Creation, deletion and renaming of `State` rows while they are in use; which hooks
  match an event; executors of the application's own (the documentation shows Celery).
