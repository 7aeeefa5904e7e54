------------------------- MODULE ConcurrentApproval -------------------------
(***************************************************************************)
(* Calls of approve() for one object, in transactions that overlap.  The   *)
(* method locks no row, so that what it read may be stale when it writes;  *)
(* what protects the rows is the isolation of the database.  A call sees   *)
(* what was committed and its own writes, a row that another has written   *)
(* is locked until that one ends, and a call that fails leaves nothing.    *)
(*                                                                         *)
(* InstanceWorkflow has the method as one step and every detail of it;     *)
(* here each query and each update of shared rows is a step, and the       *)
(* workflow has no cycle, so that no path is created again.                *)
(***************************************************************************)
EXTENDS Naturals, FiniteSets

CONSTANTS
  Call,             \* the threads that call approve()
  Object, State, InitialState,
  Transition, Source, Destination, Iteration,
  Approval, TransitionOf, Priority,
  MaySign,          \* call |-> the approvals its user is authorized for
  Given,            \* the next_state arguments, NotGiven among them
  NotGiven, None,
  Databases,        \* "snapshot": a transaction that lost a race may not write (SQLite);
                    \* "statement": each statement sees what is committed (PostgreSQL)
  CallBound         \* bound on the calls

ASSUME ConcurrentAssumption ==
  /\ InitialState \in State /\ Given \subseteq State \cup {NotGiven}
  /\ Source \in [Transition -> State] /\ Destination \in [Transition -> State]
  /\ Iteration \in [Transition -> Nat]
  /\ \A t, u \in Transition : Destination[t] = Source[u] => Iteration[t] < Iteration[u]
  /\ TransitionOf \in [Approval -> Transition] /\ Priority \in [Approval -> Nat]
  /\ Object \notin Transition \cup Approval /\ Transition \cap Approval = {}
  /\ None \notin Call \cup Approval /\ IsFiniteSet(Approval) /\ IsFiniteSet(Call)
  /\ MaySign \in [Call -> SUBSET Approval]
  /\ Databases \subseteq {"snapshot", "statement"} /\ CallBound \in Nat

VARIABLES
  db,     \* the committed rows: the object's state, the status of a transition, an approval
  log,    \* <<action, transition>> |-> how many audit entries
  call,   \* call[p]: the statement p is at and the variables of the method
  mine,   \* mine[p]: the rows p has written and not committed
  stale,  \* the calls whose transaction began before another's commit
  clock,  \* the time of the latest signature, a count of the calls
  database  \* the one of Databases that is configured

vars == <<db, log, call, mine, stale, clock, database>>

Signature == [status: {"pending", "approved", "cancelled"}, signer: Call \cup {None},
              previous: Approval \cup {None}, date: Nat]
Unsigned == [status |-> "pending", signer |-> None, previous |-> None, date |-> 0]
Statement == {"idle", "choose", "check", "first", "recent", "sign",
              "ids", "labels", "list", "close_approvals", "close_transitions",
              "peers", "done", "save", "commit"}
Idle == [at |-> "idle", next |-> NotGiven, loaded |-> InitialState, approval |-> None, previous |-> None,
         possible |-> {}, found |-> {}, ahead |-> {}, listed |-> {}]

TypeOK ==
  /\ DOMAIN db = {Object} \cup Transition \cup Approval
  /\ db[Object] \in State
  /\ \A t \in Transition : db[t] \in {"pending", "done", "cancelled"}
  /\ \A a \in Approval : db[a] \in Signature
  /\ log \in [{"approved", "cancelled"} \X Transition -> Nat]
  /\ call \in [Call -> [at: Statement, next: Given \cup {NotGiven}, loaded: State,
                        approval: Approval \cup {None}, previous: Approval \cup {None},
                        possible: SUBSET Transition, found: SUBSET Transition,
                        ahead: SUBSET State, listed: SUBSET Transition]]
  /\ \A p \in Call : DOMAIN mine[p] \subseteq DOMAIN db
  /\ stale \subseteq Call
  /\ clock \in 0..CallBound
  /\ database \in Databases

-----------------------------------------------------------------------------
(* The database.                                                           *)

\* Rows as they are with others written over them.
Overlay(rows, view) ==
  [row \in DOMAIN rows \cup DOMAIN view |-> IF row \in DOMAIN rows THEN rows[row] ELSE view[row]]

\* What the next statement of p reads.
View(p) == [row \in DOMAIN db |-> IF row \in DOMAIN mine[p] THEN mine[p][row] ELSE db[row]]

\* Mutant of Atomic: approve() without its decorator, every statement on its own.
Autocommit == FALSE

Atomic == TRUE

\* The rows are written, in the transaction of the call.
Write(p, rows) ==
  IF Atomic THEN mine' = [mine EXCEPT ![p] = Overlay(rows, @)] /\ UNCHANGED <<db, stale>>
  ELSE db' = Overlay(rows, db) /\ UNCHANGED <<mine, stale>>

Signs(p) == call[p].at = "sign"

\* The approval p is signing has the same previous one as another of these rows: a
\* OneToOneField has a unique index, which ignores NULL.
SameHistory(p, rows) ==
  /\ Signs(p) /\ call[p].previous # None
  /\ \E a \in Approval \cap DOMAIN rows : a # call[p].approval /\ rows[a].previous = call[p].previous

-----------------------------------------------------------------------------
(* What the statements of approve() find.                                  *)

PendingOf(view, t) == {a \in Approval : TransitionOf[a] = t /\ view[a].status = "pending"}

Available(p, view) ==
  {a \in MaySign[p] :
     /\ view[a].status = "pending"
     /\ Source[TransitionOf[a]] = view[Object]
     /\ \A b \in PendingOf(view, TransitionOf[a]) : Priority[a] <= Priority[b]}

\* The filter on next_state, if it is given.
Chosen(p, view) ==
  {a \in Available(p, view) : call[p].next \in {NotGiven, Destination[TransitionOf[a]]}}

\* Mutant of Recent: the latest among next_approvals.
RecentOfState(view) ==
  {a \in Approval : /\ view[a].date > 0 /\ Source[TransitionOf[a]] = view[Object]
                    /\ \A b \in Approval : view[b].date <= view[a].date}

\* recent_approval: the latest transaction_date.
Recent(view) ==
  {a \in Approval : view[a].date > 0 /\ \A b \in Approval : view[b].date <= view[a].date}

\* Mutant of Cancels: without the question whether there is a next_state.
CancelsAlways(p) == TRUE

Cancels(p) == call[p].next # NotGiven

\* possible_transitions: the pending ones out of the states ahead, without those that are
\* known.
PossibleNow(p) ==
  {u \in Transition \ call[p].possible : View(p)[u] = "pending" /\ Source[u] \in call[p].ahead}

\* Mutant of Impossible: of any status and any iteration.
ImpossiblePast(p) == Transition \ call[p].possible

\* cancelled_transitions: a query that each use evaluates again.
Impossible(p) ==
  {u \in Transition \ call[p].possible :
     View(p)[u] = "pending" /\ Iteration[u] >= Iteration[TransitionOf[call[p].approval]]}

\* Mutant of PendingPeers: a transition is over with its first signature.
NoPeers(p) == {}

\* approval.peers that are PENDING
PendingPeers(p) == PendingOf(View(p), TransitionOf[call[p].approval]) \ {call[p].approval}

Over == "done"

\* The rows the next statement of p writes.
Wanted(p) ==
  LET a == call[p].approval
      t == TransitionOf[a]
  IN CASE call[p].at = "sign" -> [row \in {a} |-> [status |-> "approved", signer |-> p,
                                                  previous |-> call[p].previous, date |-> clock + 1]]
       [] call[p].at = "close_approvals" ->
            [row \in {b \in Approval : TransitionOf[b] \in Impossible(p)} |->
               [View(p)[row] EXCEPT !.status = "cancelled"]]
       [] call[p].at = "close_transitions" -> [row \in Impossible(p) |-> "cancelled"]
       [] call[p].at = "done" -> [row \in {t} |-> Over]
       [] call[p].at = "save" -> [row \in {Object} |-> call[p].loaded]
       [] OTHER -> <<>>

\* The calls that hold a row, or the place in the index, that p is about to write.
Blockers(p) ==
  {q \in Call \ {p} : DOMAIN Wanted(p) \cap DOMAIN mine[q] # {} \/ SameHistory(p, mine[q])}

\* Each of a circle of calls waits for the next, and p is one of them.
Deadlocked(p) ==
  \E S \in SUBSET Call : \E waits \in [S -> S] :
    p \in S /\ (\A q \in S : waits[q] \in Blockers(q)) /\ \A q \in S : \E r \in S : waits[r] = q

\* A duplicate key, a deadlock, or a snapshot that is not the latest.
Refused(p) ==
  \/ SameHistory(p, db) \/ Deadlocked(p)
  \/ database = "snapshot" /\ Atomic /\ Wanted(p) # <<>> /\ (p \in stale \/ \E q \in Call \ {p} : mine[q] # <<>>)

Runs(p, at) == call[p].at = at /\ Blockers(p) = {} /\ ~Refused(p)

-----------------------------------------------------------------------------
(* approve(), statement by statement.                                      *)

GoTo(p, at) == call' = [call EXCEPT ![p].at = at]

\* The caller has loaded the object, outside the transaction.
Load(p, next) ==
  /\ call[p].at = "idle"
  /\ clock + Cardinality({q \in Call : call[q].at # "idle"}) < CallBound
  /\ call' = [call EXCEPT ![p] = [Idle EXCEPT !.at = "choose", !.next = next, !.loaded = db[Object]]]
  /\ UNCHANGED <<db, log, mine, stale, clock>>

\* The call ends with a RiverException; it has written nothing.
Refuse(p) == call' = [call EXCEPT ![p] = Idle]

\* available_approvals.exists(), the first query of the transaction
Choose(p) ==
  /\ Runs(p, "choose")
  /\ IF Available(p, db) = {} THEN Refuse(p) ELSE GoTo(p, "check")
  /\ stale' = stale \ {p}
  /\ UNCHANGED <<db, log, mine, clock>>

\* exists() with the next_state, or count() without one
Check(p) ==
  /\ Runs(p, "check")
  /\ IF \/ call[p].next # NotGiven /\ Chosen(p, db) = {}
        \/ call[p].next = NotGiven /\ Cardinality(Available(p, db)) > 1
     THEN Refuse(p) ELSE GoTo(p, "first")
  /\ UNCHANGED <<db, log, mine, stale, clock>>

\* first(), of what the query finds by now; nothing at all is an AttributeError.
First(p) ==
  /\ Runs(p, "first")
  /\ \/ /\ Chosen(p, db) = {}
        /\ Refuse(p)
     \/ \E a \in Chosen(p, db) : call' = [call EXCEPT ![p].at = "recent", ![p].approval = a]
  /\ UNCHANGED <<db, log, mine, stale, clock>>

ReadRecent(p) ==
  /\ Runs(p, "recent")
  /\ call' = [call EXCEPT ![p].at = "sign",
                          ![p].previous = IF Recent(View(p)) = {} THEN None
                                          ELSE CHOOSE a \in Recent(View(p)) : TRUE]
  /\ UNCHANGED <<db, log, mine, stale, clock>>

\* approval.save() writes every column. With a next_state, cancel_impossible_future begins.
Sign(p) ==
  /\ Runs(p, "sign")
  /\ Write(p, Wanted(p))
  /\ clock' = clock + 1
  /\ LET t == TransitionOf[call[p].approval]
     IN IF Cancels(p)
        THEN call' = [call EXCEPT ![p].at = "ids", ![p].possible = {t}, ![p].ahead = {Destination[t]}]
        ELSE GoTo(p, "peers")
  /\ UNCHANGED log

\* possible_transition_ids.update(...)
ReadIds(p) ==
  /\ Runs(p, "ids")
  /\ call' = [call EXCEPT ![p].at = "labels", ![p].found = PossibleNow(p)]
  /\ UNCHANGED <<db, log, mine, stale, clock>>

\* possible_next_states: the query of the ids once more, for the labels; the loop ends when
\* there are none.
ReadLabels(p) ==
  /\ Runs(p, "labels")
  /\ LET labels == {Destination[u] : u \in PossibleNow(p)}
     IN call' = [call EXCEPT ![p].at = IF labels = {} THEN "list" ELSE "ids", ![p].ahead = labels,
                             ![p].possible = @ \cup call[p].found, ![p].found = {}]
  /\ UNCHANGED <<db, log, mine, stale, clock>>

\* list(cancelled_transitions), for the audit log
List(p) ==
  /\ Runs(p, "list")
  /\ call' = [call EXCEPT ![p].at = "close_approvals", ![p].listed = Impossible(p)]
  /\ UNCHANGED <<db, log, mine, stale, clock>>

\* The update of the approvals, and that of the transitions.
Close(p, at, after) ==
  /\ Runs(p, at)
  /\ Write(p, Wanted(p))
  /\ GoTo(p, after)
  /\ UNCHANGED <<log, clock>>

Peers(p) ==
  /\ Runs(p, "peers")
  /\ GoTo(p, IF PendingPeers(p) = {} THEN "done" ELSE "save")
  /\ UNCHANGED <<db, log, mine, stale, clock>>

\* approval.transition.save() and set_state
Done(p) ==
  /\ Runs(p, "done")
  /\ Write(p, Wanted(p))
  /\ call' = [call EXCEPT ![p].at = "save", ![p].loaded = Destination[TransitionOf[call[p].approval]]]
  /\ UNCHANGED <<log, clock>>

\* workflow_object.save() writes every column, the state among them.
Save(p) ==
  /\ Runs(p, "save")
  /\ Write(p, Wanted(p))
  /\ GoTo(p, "commit")
  /\ UNCHANGED <<log, clock>>

\* The entries of _log_audit: of the signature and of what was listed to be cancelled.
Logged(p) ==
  [e \in DOMAIN log |->
     log[e] + (IF \/ e = <<"approved", TransitionOf[call[p].approval]>>
                  \/ e[1] = "cancelled" /\ e[2] \in call[p].listed
               THEN 1 ELSE 0)]

Commit(p) ==
  /\ Runs(p, "commit")
  /\ db' = View(p) /\ log' = Logged(p)
  /\ mine' = [mine EXCEPT ![p] = <<>>]
  /\ call' = [call EXCEPT ![p] = Idle]
  /\ stale' = {q \in Call \ {p} : call[q].at # "idle"}
  /\ UNCHANGED clock

\* The database refuses a statement, or the process or its connection is lost.
Fail(p) ==
  /\ call[p].at # "idle"
  /\ mine' = [mine EXCEPT ![p] = <<>>]
  /\ call' = [call EXCEPT ![p] = Idle]
  /\ stale' = stale \ {p}
  /\ UNCHANGED <<db, log, clock>>

Init ==
  /\ db = [row \in {Object} \cup Transition \cup Approval |->
             CASE row = Object -> InitialState [] row \in Transition -> "pending" [] OTHER -> Unsigned]
  /\ log = [e \in {"approved", "cancelled"} \X Transition |-> 0]
  /\ call = [p \in Call |-> Idle]
  /\ mine = [p \in Call |-> <<>>]
  /\ stale = {}
  /\ clock = 0
  /\ database \in Databases

Step(p) ==
  \/ Choose(p) \/ Check(p) \/ First(p) \/ ReadRecent(p) \/ Sign(p)
  \/ ReadIds(p) \/ ReadLabels(p) \/ List(p)
  \/ Close(p, "close_approvals", "close_transitions") \/ Close(p, "close_transitions", "peers")
  \/ Peers(p) \/ Done(p) \/ Save(p) \/ Commit(p)

Next == /\ \E p \in Call : (\E next \in Given : Load(p, next)) \/ Step(p) \/ Fail(p)
        /\ UNCHANGED database

Spec == Init /\ [][Next]_vars

-----------------------------------------------------------------------------
(* Properties.                                                             *)

\* A transition is done only when everyone who had to sign it has, whoever else
\* signs at the same time.
DoneIsFullySigned ==
  \A a \in Approval : db[TransitionOf[a]] = "done" => db[a].status = "approved"

\* So it is on a database that refuses the writes of a transaction that lost a race.
SerializedIsFullySigned == database = "snapshot" => DoneIsFullySigned

\* There, a transition that was done or cancelled stays so.
SerializedStaysClosed ==
  [][database = "snapshot" => \A t \in Transition : db[t] # "pending" => db'[t] = db[t]]_vars

\* There, the audit log has one entry for every signature and every cancellation, also
\* when calls overlap or fail half way.
SerializedAuditMatches ==
  database = "snapshot" => \A t \in Transition :
    /\ log[<<"cancelled", t>>] = IF db[t] = "cancelled" THEN 1 ELSE 0
    /\ db[t] # "cancelled" =>
         log[<<"approved", t>>] = Cardinality({a \in Approval : TransitionOf[a] = t /\ db[a].status = "approved"})

\* The signatures that were given before a.
Earlier(a) == {b \in Approval : db[b].date > 0 /\ db[b].date < db[a].date}

\* There, previous leads through every signature of the object in the order in which they
\* were given, those that were cancelled since among them: no call takes for the most recent
\* one what it was before another committed.
SerializedHistory ==
  database = "snapshot" => \A a \in Approval : db[a].date > 0 =>
    IF Earlier(a) = {} THEN db[a].previous = None
    ELSE /\ db[a].previous \in Earlier(a)
         /\ \A b \in Earlier(a) : db[b].date <= db[db[a].previous].date

\* On either database, a call that names no state waits in no circle: it writes its approval,
\* its transition and the object in the order in which all calls do, so only those that cancel
\* what others are signing can be chosen as the victim of a deadlock.
OnlyChoicesDeadlock == \A p \in Call : Deadlocked(p) => call[p].next # NotGiven
=============================================================================
