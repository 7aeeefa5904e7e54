--------------------------- MODULE FunctionReview ---------------------------
(***************************************************************************)
(* One Function row of models/function.py: a body of Python code that runs *)
(* in hooks once a reviewer has approved it.  Processes hold Python copies *)
(* of the row; administrators edit and approve through them, create_function *)
(* registers code at start-up, and hooks run what a process has compiled   *)
(* and cached.                                                             *)
(*                                                                         *)
(* The form of the admin saves in one transaction, so its UPDATE and its   *)
(* revision are one step.  approve() and create_function() run outside any *)
(* transaction: each statement is a step.  What every save has in common   *)
(* is that on_pre_save reads the row in a statement of its own, before the *)
(* UPDATE, and another process can come in between.                        *)
(***************************************************************************)
EXTENDS Naturals, Sequences

CONSTANTS
  Process,        \* operating system processes, each with a copy and a cache
  User,           \* administrators
  Reviewer,       \* those with the approve_function permission
  SelfReviewer,   \* those with the self_approve_function permission
  Body,           \* function bodies
  CodeBody,       \* process |-> body create_function finds in its source code
  NoOne,          \* NULL for a user, and the actor of create_function
  NoRow,          \* no row, or no copy
  RevisionBound,  \* bound on the revisions and on the version
  DisturbedBound  \* the same once calls have disturbed each other

ASSUME FunctionAssumption ==
  /\ Reviewer \subseteq User /\ SelfReviewer \subseteq User
  /\ CodeBody \in [Process -> Body]
  /\ NoOne \notin User
  /\ NoRow \notin [body: Body, version: Nat, updatedBy: User \cup {NoOne},
                   approved: BOOLEAN, approvedBy: User \cup {NoOne}]
  /\ RevisionBound \in Nat /\ DisturbedBound \in Nat

VARIABLES
  row,        \* the Function row
  revisions,  \* the FunctionRevision rows, in the order of their keys
  copy,       \* copy[p]: the Function object process p works with
  task,       \* task[p]: the call p is in and the statement it is at
  cache,      \* cache[p]: the entry of loaded_functions for this function
  disturbed   \* history: calls have overlapped, used an old copy, or been killed

vars == <<row, revisions, copy, task, cache, disturbed>>

Actor == User \cup {NoOne}

Function == [body: Body, version: Nat, updatedBy: Actor, approved: BOOLEAN, approvedBy: Actor]

Content == {"created", "updated"}
Approving == {"approved", "self_approved", "auto_approved"}
Revision == [version: Nat, action: Content \cup Approving, body: Body, by: Actor]

Compiled == [source: Body]
CacheEntry == [function: Compiled, version: Nat, body: Body]

\* A call: what it is, by whom, whether its save is of the whole row or of the
\* approval alone, what on_pre_save found, and the statement that comes next.
Task == [call: {"edit", "approve", "register"}, by: Actor, whole: BOOLEAN,
         changed: BOOLEAN, self: BOOLEAN, next: {"pre_save", "update", "post_save", "revision"}]

\* Values for no task and no cache entry.
Idle == [call |-> "none"]
NotLoaded == [function |-> "none"]

TypeOK ==
  /\ row \in Function \cup {NoRow}
  /\ revisions \in Seq(Revision)
  /\ copy \in [Process -> Function \cup {NoRow}]
  /\ task \in [Process -> Task \cup {Idle}]
  /\ cache \in [Process -> CacheEntry \cup {NotLoaded}]
  /\ disturbed \in BOOLEAN

-----------------------------------------------------------------------------
(* The statements of a save.                                               *)

At(p, statement) == task[p] # Idle /\ task[p].next = statement

Revised(version, action, body, by) ==
  Append(revisions, [version |-> version, action |-> action, body |-> body, by |-> by])

\* Mutant of PreSaved: an approval survives the change of the body.
PreSavedKeepingApproval(f) ==
  IF row # NoRow /\ row.body = f.body THEN f ELSE [f EXCEPT !.version = @ + 1]

\* on_pre_save: a changed body is a new version, and not approved.
PreSaved(f) ==
  CASE row = NoRow -> [f EXCEPT !.version = @ + 1]
    [] row # NoRow /\ row.body # f.body ->
         [f EXCEPT !.version = @ + 1, !.approved = FALSE, !.approvedBy = NoOne]
    [] OTHER -> f

Changes(f) == row = NoRow \/ row.body # f.body

\* The UPDATE of the call t: the whole row, or the columns of update_fields, which of
\* create_function() do not have the reviewer.
Written(f, t) ==
  CASE t.whole -> f
    [] ~t.whole /\ t.call = "approve" -> [row EXCEPT !.approved = f.approved, !.approvedBy = f.approvedBy]
    [] ~t.whole /\ t.call # "approve" -> [row EXCEPT !.approved = f.approved]

\* on_pre_save.
PreSave(p) ==
  /\ At(p, "pre_save")
  /\ copy' = [copy EXCEPT ![p] = PreSaved(copy[p])]
  /\ task' = [task EXCEPT ![p].changed = Changes(copy[p]), ![p].next = "update"]
  /\ UNCHANGED <<row, revisions, cache>>

\* The UPDATE of approve() and create_function().
Update(p) ==
  /\ At(p, "update")
  /\ task[p].call # "edit"
  /\ row' = Written(copy[p], task[p])
  /\ task' = [task EXCEPT ![p].next = "post_save"]
  /\ UNCHANGED <<revisions, copy, cache>>

\* Mutant of PostSaved: on_post_save does not ask whether the body has changed.
PostSavedAlways(p) == Revised(copy[p].version, "updated", copy[p].body, copy[p].updatedBy)

\* on_post_save: an edit is attributed to _river_changed_by or updated_by.
PostSaved(p) ==
  IF task[p].changed
  THEN Revised(copy[p].version, "updated", copy[p].body, copy[p].updatedBy)
  ELSE revisions

\* create_function() approves what the save of the body has left unapproved, everything
\* else that saved an approval goes on to its own revision.
PostSave(p) ==
  /\ At(p, "post_save")
  /\ revisions' = PostSaved(p)
  /\ \/ /\ task[p].whole /\ ~copy[p].approved
        /\ copy' = [copy EXCEPT ![p].approved = TRUE]
        /\ task' = [task EXCEPT ![p].whole = FALSE, ![p].next = "pre_save"]
     \/ /\ task[p].whole /\ copy[p].approved
        /\ task' = [task EXCEPT ![p] = Idle]
        /\ UNCHANGED copy
     \/ /\ ~task[p].whole
        /\ task' = [task EXCEPT ![p].next = "revision"]
        /\ UNCHANGED copy
  /\ UNCHANGED <<row, cache>>

\* Mutant of AddRevision: the name of a user that is None cannot be written.
AddRevisionOfUser(p) ==
  /\ At(p, "revision")
  /\ task[p].by # NoOne
  /\ revisions' = Revised(copy[p].version, "approved", copy[p].body, task[p].by)
  /\ task' = [task EXCEPT ![p] = Idle]
  /\ UNCHANGED <<row, copy, cache>>

\* The revision of an approval, written whatever on_pre_save has made of it.
AddRevision(p) ==
  /\ At(p, "revision")
  /\ revisions' = Revised(copy[p].version,
                          CASE task[p].call = "register" -> "auto_approved"
                            [] task[p].self -> "self_approved"
                            [] OTHER -> "approved",
                          copy[p].body, task[p].by)
  /\ task' = [task EXCEPT ![p] = Idle]
  /\ UNCHANGED <<row, copy, cache>>

-----------------------------------------------------------------------------
(* The calls.                                                              *)

Bound == IF disturbed THEN DisturbedBound ELSE RevisionBound

MayStart(p) == /\ task[p] = Idle
               /\ Len(revisions) < Bound
               /\ row # NoRow => row.version < Bound

Started(call, by, whole, self) ==
  [call |-> call, by |-> by, whole |-> whole, changed |-> FALSE, self |-> self,
   next |-> "pre_save"]

\* Function.objects.get, a queryset, or a hook that follows its foreign key.
Open(p) ==
  /\ task[p] = Idle
  /\ row # NoRow
  /\ copy' = [copy EXCEPT ![p] = row]
  /\ UNCHANGED <<row, revisions, task, cache>>

\* The admin form adds the function: save_model, on_pre_save and on_post_save.
Add(p, u, b) ==
  /\ MayStart(p)
  /\ row = NoRow
  /\ LET f == PreSaved([body |-> b, version |-> 0, updatedBy |-> u,
                        approved |-> FALSE, approvedBy |-> NoOne])
     IN /\ row' = f
        /\ copy' = [copy EXCEPT ![p] = f]
        /\ revisions' = Revised(f.version, "created", b, u)
  /\ UNCHANGED <<task, cache>>

\* The admin form changes the function.  The body may be the one it had: every
\* save of the form, also one that only renames, is by its user.
Edit(p, u, b) ==
  /\ MayStart(p)
  /\ copy[p] # NoRow
  /\ copy' = [copy EXCEPT ![p].body = b, ![p].updatedBy = u]
  /\ task' = [task EXCEPT ![p] = Started("edit", u, TRUE, FALSE)]
  /\ UNCHANGED <<row, revisions, cache>>

\* The rest of its transaction: the UPDATE of the whole row and on_post_save.
CommitEdit(p) ==
  /\ At(p, "update")
  /\ task[p].call = "edit"
  /\ row' = Written(copy[p], task[p])
  /\ revisions' = PostSaved(p)
  /\ task' = [task EXCEPT ![p] = Idle]
  /\ UNCHANGED <<copy, cache>>

\* Function.approve(): the author needs a permission of their own.
Approve(p, u) ==
  /\ LET self == copy[p].updatedBy = u
     IN /\ self => u \in SelfReviewer
        /\ task' = [task EXCEPT ![p] = Started("approve", u, FALSE, self)]
  /\ copy' = [copy EXCEPT ![p].approved = TRUE, ![p].approvedBy = u]
  /\ UNCHANGED <<row, revisions, cache>>

\* The admin action approve_functions, for one function of its queryset.
ApproveFunctions(p, u) ==
  /\ MayStart(p)
  /\ u \in Reviewer
  /\ copy[p] # NoRow
  /\ ~copy[p].approved
  /\ Approve(p, u)

\* create_function: get_or_create, then the save of a body that differs, then the
\* approval.  get_or_create creates the row and its revision in one transaction.
Register(p) ==
  /\ MayStart(p)
  /\ LET body == CodeBody[p]
         new == PreSaved([body |-> body, version |-> 0, updatedBy |-> NoOne,
                          approved |-> FALSE, approvedBy |-> NoOne])
     IN \/ /\ row = NoRow
           /\ row' = new
           /\ revisions' = Revised(new.version, "created", body, NoOne)
           /\ copy' = [copy EXCEPT ![p] = [new EXCEPT !.approved = TRUE]]
           /\ task' = [task EXCEPT ![p] = Started("register", NoOne, FALSE, FALSE)]
        \/ /\ row # NoRow /\ row.body # body
           /\ copy' = [copy EXCEPT ![p] = [row EXCEPT !.body = body]]
           /\ task' = [task EXCEPT ![p] = Started("register", NoOne, TRUE, FALSE)]
           /\ UNCHANGED <<row, revisions>>
        \/ /\ row # NoRow /\ row.body = body /\ ~row.approved
           /\ copy' = [copy EXCEPT ![p] = [row EXCEPT !.approved = TRUE]]
           /\ task' = [task EXCEPT ![p] = Started("register", NoOne, FALSE, FALSE)]
           /\ UNCHANGED <<row, revisions>>
  /\ UNCHANGED <<cache>>

\* Function._load: the code that runs is that of the body it is compiled from.
Load(body) == [source |-> body]

\* Mutant of Fresh: the version alone tells whether the body has changed.
FreshVersion(p) == cache[p] # NotLoaded /\ cache[p].version = copy[p].version

Fresh(p) ==
  /\ cache[p] # NotLoaded
  /\ cache[p].version = copy[p].version
  /\ cache[p].body = copy[p].body

\* The entry get() returns the function of.
Entry(p) == IF Fresh(p) THEN cache[p]
            ELSE [function |-> Load(copy[p].body), version |-> copy[p].version,
                  body |-> copy[p].body]

Runnable(p) == task[p] = Idle /\ copy[p] # NoRow /\ copy[p].approved

\* Function.get() and the call of what it returns.
Run(p) ==
  /\ Runnable(p)
  /\ cache' = [cache EXCEPT ![p] = Entry(p)]
  /\ UNCHANGED <<row, revisions, copy, task>>

\* The process is killed: an open transaction is rolled back, what was saved stays.
Crash(p) ==
  /\ copy' = [copy EXCEPT ![p] = NoRow]
  /\ task' = [task EXCEPT ![p] = Idle]
  /\ cache' = [cache EXCEPT ![p] = NotLoaded]
  /\ UNCHANGED <<row, revisions>>

Init ==
  /\ row = NoRow
  /\ revisions = <<>>
  /\ copy = [p \in Process |-> NoRow]
  /\ task = [p \in Process |-> Idle]
  /\ cache = [p \in Process |-> NotLoaded]
  /\ disturbed = FALSE

\* The statements that follow in a call that has started.
Continue(p) == PreSave(p) \/ Update(p) \/ PostSave(p) \/ AddRevision(p) \/ CommitEdit(p)

\* Two calls are under way, a call starts with a copy that is not the row any more,
\* or a process is killed within a call.
Disturbs ==
  \/ \E p, q \in Process : p # q /\ task'[p] # Idle /\ task'[q] # Idle
  \/ \E p \in Process : /\ task[p] = Idle /\ task'[p] # Idle /\ task'[p].call # "register"
                        /\ copy[p] # row
  \/ \E p \in Process : task[p] # Idle /\ copy'[p] = NoRow

Remember == disturbed' = (disturbed \/ Disturbs)

Next ==
  /\ \E p \in Process :
       \/ Continue(p)
       \/ Open(p) \/ Register(p) \/ Run(p) \/ Crash(p)
       \/ \E u \in User : ApproveFunctions(p, u) \/ \E b \in Body : Add(p, u, b) \/ Edit(p, u, b)
  /\ Remember

\* A call that has started goes on, unless its process is killed.
Spec == Init /\ [][Next]_vars /\ \A p \in Process : WF_vars(Continue(p) /\ Remember)

-----------------------------------------------------------------------------
(* Properties.                                                             *)

Reviewed(b) == \E k \in DOMAIN revisions : revisions[k].action \in Approving /\ revisions[k].body = b

BeingReviewed(b) == \E p \in Process : /\ task[p] # Idle /\ task[p].call # "edit"
                                       /\ task[p].next \in {"post_save", "revision"}
                                       /\ copy[p].body = b

\* Code that hooks may run has been approved by a reviewer, or comes from the source:
\* an approval holds for the body it was given to and no other, whatever processes
\* approve one after the other.
ApprovedBodyWasReviewed ==
  ~disturbed /\ row # NoRow /\ row.approved => Reviewed(row.body) \/ BeingReviewed(row.body)

\* What a hook runs is the body of the function it has loaded, and not one that
\* the process compiled earlier, whatever has become of the version numbers.
RunsItsBody ==
  \A p \in Process : Runnable(p) => Entry(p).function.source = copy[p].body

\* Every approval is written to the history: the body of an approved function
\* ends up with a revision that says who approved it.
ApprovalIsRecorded ==
  \A b \in Body : (row # NoRow /\ row.approved /\ row.body = b) ~> (Reviewed(b) \/ disturbed)

\* The entries of the creation and of the edits.
Edits == {k \in DOMAIN revisions : revisions[k].action \in Content}

\* They tell of v versions, one each and in order, every one with another body than the
\* one before it, and of the body b in the end.
Recorded(v, b) ==
  /\ {revisions[k].version : k \in Edits} = 1..v
  /\ \A j, k \in Edits : j < k => revisions[j].version < revisions[k].version
  /\ \A j, k \in Edits : revisions[k].version = revisions[j].version + 1 => revisions[j].body # revisions[k].body
  /\ \A k \in Edits : revisions[k].version = v => revisions[k].body = b

\* The history has one entry for each edit, no more and no less, and ends with the stored
\* body, but between an UPDATE and the on_post_save that follows it.
RevisionsAreEdits ==
  ~disturbed /\ row # NoRow /\ (\A p \in Process : At(p, "post_save") => ~task[p].whole)
    => Recorded(row.version, row.body)

-----------------------------------------------------------------------------
(* What the documents say of calls that overlap or are killed as well.     *)

\* docs/hooking/function.rst: "a reviewer has to sign off on the *new* code, not the old
\* one".  A function becomes approved with a body that is or is being approved.
NewCodeIsSignedOff ==
  [][row' # NoRow /\ row'.approved /\ (row = NoRow \/ ~row.approved)
       => (Reviewed(row.body) \/ BeingReviewed(row.body))']_vars

\* docs/hooking/function.rst: every edit "is written to an immutable FunctionRevision row".
\* The step that changes the stored body writes the entry or is about to.
EditsAreRecorded ==
  [][row # NoRow /\ row'.body # row.body =>
       \/ \E k \in DOMAIN revisions' \ DOMAIN revisions : revisions'[k].body = row'.body
       \/ \E p \in Process : At(p, "post_save")' /\ task'[p].changed /\ copy'[p].body = row'.body]_vars

\* And so is every approval: what is approved has one, or is getting it.
ApprovalsAreRecorded ==
  row # NoRow /\ row.approved => Reviewed(row.body) \/ BeingReviewed(row.body)
=============================================================================
