----------------------- MODULE ConcurrentApprovalProofs -----------------------
(***************************************************************************)
(* Theorems about ConcurrentApproval, for every workflow without a cycle   *)
(* and every number of calls.                                              *)
(***************************************************************************)
EXTENDS ConcurrentApproval, FiniteSetTheorems, TLAPS

Rows == {Object} \cup Transition \cup Approval
IsRows(f) == f = [x \in DOMAIN f |-> f[x]]
Status == {"pending", "done", "cancelled"}

\* The rows a call has written are those of Rows, each with a value of its column.
Written(rows) ==
  /\ IsRows(rows) /\ DOMAIN rows \subseteq Rows
  /\ Object \in DOMAIN rows => rows[Object] \in State
  /\ \A t \in Transition \cap DOMAIN rows : rows[t] \in Status
  /\ \A a \in Approval \cap DOMAIN rows : rows[a] \in Signature

Variables == [at: Statement, next: Given \cup {NotGiven}, loaded: State,
              approval: Approval \cup {None}, previous: Approval \cup {None},
              possible: SUBSET Transition, found: SUBSET Transition,
              ahead: SUBSET State, listed: SUBSET Transition]

Typed ==
  /\ IsRows(db) /\ DOMAIN db = Rows
  /\ db[Object] \in State
  /\ \A t \in Transition : db[t] \in Status
  /\ \A a \in Approval : db[a] \in Signature
  /\ log \in [{"approved", "cancelled"} \X Transition -> Nat]
  /\ call \in [Call -> Variables]
  /\ mine = [p \in Call |-> mine[p]]
  /\ \A p \in Call : Written(mine[p])
  /\ stale \subseteq Call /\ clock \in Nat /\ database \in Databases

\* The statements of cancel_impossible_future, those before it writes, and all that
\* follow a signature.
Cancelling == {"ids", "labels", "list", "close_approvals", "close_transitions"}
Early == Cancelling \ {"close_transitions"}
Late == Cancelling \cup {"peers", "done", "save", "commit"}
Signed(p) == call[p].at \in Late

\* A call that has signed holds the row it has signed, one that has not holds nothing; what
\* else it holds comes later, the object last.
Held(c, rows) ==
  /\ c.at \notin Late => rows = <<>>
  /\ c.at \in Late => c.approval \in DOMAIN rows
  /\ c.at \notin {"idle", "choose", "check", "first"} => c.approval \in Approval
  /\ c.at \in Cancelling => c.next # NotGiven
  /\ c.at \in Early \/ (c.next = NotGiven /\ c.at \in {"peers", "done"}) => DOMAIN rows = {c.approval}
  /\ Object \in DOMAIN rows => c.at = "commit"
  /\ c.at \notin {"close_approvals", "close_transitions", "peers", "done", "save", "commit"} => c.listed = {}

Holding(p) == Held(call[p], mine[p])

BaseInv == Typed /\ \A p \in Call : Holding(p)

\* A call that has written nothing has no rows.
LEMMA NoRows == IsRows(<<>>) /\ DOMAIN <<>> = {} /\ \A f : IsRows(f) /\ DOMAIN f = {} => f = <<>>
  BY DEF IsRows

\* No rows are well typed rows.
LEMMA Empty == Written(<<>>)
  BY NoRows DEF Written

\* The object, the transitions and the approvals are different rows.
LEMMA Distinct ==
  /\ \A t \in Transition : t # Object /\ t \notin Approval
  /\ \A a \in Approval : a # Object /\ a # None /\ a \notin Transition /\ TransitionOf[a] \in Transition
  BY ConcurrentAssumption

\* What a call sees is its own writing over what is committed.
LEMMA Viewed ==
  ASSUME Typed, NEW p \in Call
  PROVE  /\ IsRows(View(p)) /\ DOMAIN View(p) = Rows
         /\ \A x \in Rows : View(p)[x] = IF x \in DOMAIN mine[p] THEN mine[p][x] ELSE db[x]
         /\ View(p)[Object] \in State
         /\ \A t \in Transition : View(p)[t] \in Status
         /\ \A a \in Approval : View(p)[a] \in Signature
         /\ mine[p] = <<>> => View(p) = db
<1>1. /\ IsRows(View(p)) /\ DOMAIN View(p) = Rows
      /\ \A x \in Rows : View(p)[x] = IF x \in DOMAIN mine[p] THEN mine[p][x] ELSE db[x]
  BY DEF View, IsRows, Typed
<1>2. /\ View(p)[Object] \in State
      /\ \A t \in Transition : View(p)[t] \in Status
      /\ \A a \in Approval : View(p)[a] \in Signature
  BY <1>1 DEF Typed, Written, Rows
<1>3. ASSUME mine[p] = <<>>  PROVE View(p) = db
  <2>1. \A x \in Rows : View(p)[x] = db[x]
    BY <1>1, <1>3, NoRows
  <2> QED
    BY <1>1, <2>1 DEF IsRows, Typed
<1> QED
  BY <1>1, <1>2, <1>3

\* What a call cancels, as a function of its variables and of what it sees.
Excluded(c, view) ==
  {u \in Transition \ c.possible :
     view[u] = "pending" /\ Iteration[u] >= Iteration[TransitionOf[c.approval]]}

\* What the statements that write are about to write.
LEMMA Wants ==
  ASSUME Typed, NEW p \in Call, call[p].approval \in Approval
  PROVE  LET a == call[p].approval
             t == TransitionOf[a]
             rows == Wanted(p)
             closed == Excluded(call[p], View(p))
         IN /\ call[p].at \in {"sign", "close_approvals", "close_transitions", "done", "save"} => Written(rows)
            /\ call[p].at = "sign" => DOMAIN rows = {a} /\ rows[a].status = "approved"
                                      /\ rows[a].previous = call[p].previous /\ rows[a].date = clock + 1
            /\ call[p].at = "close_approvals" =>
                 /\ DOMAIN rows = {b \in Approval : TransitionOf[b] \in closed}
                 /\ \A b \in DOMAIN rows : rows[b] = [View(p)[b] EXCEPT !.status = "cancelled"]
            /\ call[p].at = "close_transitions" =>
                 DOMAIN rows = closed /\ \A u \in closed : rows[u] = "cancelled"
            /\ call[p].at = "done" => DOMAIN rows = {t} /\ rows[t] = "done"
            /\ call[p].at = "save" => DOMAIN rows = {Object}
<1> DEFINE a == call[p].approval
           t == TransitionOf[a]
           rows == Wanted(p)
           closed == Excluded(call[p], View(p))
<1>1. call[p] \in Variables /\ t \in Transition /\ p # None
  BY Distinct, ConcurrentAssumption DEF Typed
<1>2. ASSUME call[p].at = "sign"
      PROVE  Written(rows) /\ DOMAIN rows = {a} /\ rows[a].status = "approved"
             /\ rows[a].previous = call[p].previous /\ rows[a].date = clock + 1
  <2> DEFINE s == [status |-> "approved", signer |-> p, previous |-> call[p].previous, date |-> clock + 1]
  <2>1. rows = [row \in {a} |-> s]
    BY <1>2 DEF Wanted
  <2>2. s \in Signature /\ s.status = "approved" /\ s.previous = call[p].previous /\ s.date = clock + 1
    BY <1>1 DEF Signature, Variables, Typed
  <2> HIDE DEF s, rows
  <2>3. IsRows(rows) /\ DOMAIN rows = {a} /\ rows[a] = s
    BY <2>1 DEF IsRows
  <2> QED
    BY <2>2, <2>3, Distinct DEF Written, Rows
<1>3. closed = Impossible(p) /\ closed \subseteq Transition
  BY DEF Impossible, Excluded
<1> HIDE DEF closed
<1>4. ASSUME call[p].at = "close_approvals"
      PROVE  /\ Written(rows) /\ DOMAIN rows = {b \in Approval : TransitionOf[b] \in closed}
             /\ \A b \in DOMAIN rows : rows[b] = [View(p)[b] EXCEPT !.status = "cancelled"]
  <2>1. rows = [row \in {b \in Approval : TransitionOf[b] \in closed} |->
                  [View(p)[row] EXCEPT !.status = "cancelled"]]
    BY <1>3, <1>4 DEF Wanted
  <2> HIDE DEF rows
  <2>2. /\ IsRows(rows) /\ DOMAIN rows = {b \in Approval : TransitionOf[b] \in closed}
        /\ \A b \in DOMAIN rows : rows[b] = [View(p)[b] EXCEPT !.status = "cancelled"]
    BY <2>1 DEF IsRows
  <2>3. \A b \in Approval : [View(p)[b] EXCEPT !.status = "cancelled"] \in Signature
    BY Viewed DEF Signature
  <2>4. \A b \in DOMAIN rows : b \in Approval /\ rows[b] \in Signature
    BY <2>2, <2>3
  <2>5. Written(rows)
    BY <2>2, <2>4, Distinct DEF Written, Rows
  <2> QED
    BY <2>2, <2>5
<1>5. ASSUME call[p].at = "close_transitions"
      PROVE  Written(rows) /\ DOMAIN rows = closed /\ \A u \in closed : rows[u] = "cancelled"
  <2>1. rows = [row \in closed |-> "cancelled"]
    BY <1>3, <1>5 DEF Wanted
  <2> HIDE DEF rows
  <2>2. IsRows(rows) /\ DOMAIN rows = closed /\ \A u \in closed : rows[u] = "cancelled"
    BY <2>1 DEF IsRows
  <2> QED
    BY <1>3, <2>2, Distinct DEF Written, Rows, Status
<1>6. ASSUME call[p].at = "done"
      PROVE  Written(rows) /\ DOMAIN rows = {t} /\ rows[t] = "done"
  <2>1. rows = [row \in {t} |-> "done"]
    BY <1>6 DEF Wanted, Over
  <2> HIDE DEF rows
  <2>2. IsRows(rows) /\ DOMAIN rows = {t} /\ rows[t] = "done"
    BY <2>1 DEF IsRows
  <2> QED
    BY <1>1, <2>2, Distinct DEF Written, Rows, Status
<1>7. ASSUME call[p].at = "save"
      PROVE  Written(rows) /\ DOMAIN rows = {Object}
  <2>1. rows = [row \in {Object} |-> call[p].loaded]
    BY <1>7 DEF Wanted
  <2> HIDE DEF rows
  <2>2. IsRows(rows) /\ DOMAIN rows = {Object} /\ rows[Object] \in State
    BY <1>1, <2>1 DEF IsRows, Variables
  <2> QED
    BY <2>2, Distinct DEF Written, Rows
<1> HIDE DEF rows
<1> QED
  BY <1>2, <1>4, <1>5, <1>6, <1>7 DEF rows, closed

\* Which kind of row each of these statements writes.
LEMMA Kinds ==
  ASSUME Typed, NEW p \in Call, call[p].approval \in Approval
  PROVE  /\ call[p].at \in {"close_approvals", "close_transitions", "done", "save"} => Written(Wanted(p))
         /\ call[p].at = "close_approvals" => DOMAIN Wanted(p) \subseteq Approval
         /\ call[p].at \in {"close_transitions", "done"} => DOMAIN Wanted(p) \subseteq Transition
         /\ call[p].at = "save" => DOMAIN Wanted(p) = {Object}
<1>1. Excluded(call[p], View(p)) \subseteq Transition
  BY DEF Excluded
<1>2. call[p].at \in {"close_approvals", "close_transitions", "done", "save"} => Written(Wanted(p))
  BY Wants
<1>3. call[p].at = "close_approvals" => DOMAIN Wanted(p) \subseteq Approval
  BY Wants
<1>4. call[p].at = "close_transitions" => DOMAIN Wanted(p) \subseteq Transition
  BY <1>1, Wants
<1>5. call[p].at = "done" => DOMAIN Wanted(p) \subseteq Transition
  <2>1. call[p].at = "done" => DOMAIN Wanted(p) = {TransitionOf[call[p].approval]}
    BY Wants
  <2> QED
    BY <2>1, Distinct
<1>6. call[p].at = "save" => DOMAIN Wanted(p) = {Object}
  BY Wants
<1> QED
  BY <1>2, <1>3, <1>4, <1>5, <1>6

\* A write of a call changes its own rows and nothing else.
LEMMA Writes ==
  ASSUME Typed, NEW p \in Call, NEW rows, Written(rows), Write(p, rows)
  PROVE  /\ UNCHANGED <<db, stale>>
         /\ mine' = [mine EXCEPT ![p] = Overlay(rows, mine[p])]
         /\ mine' = [q \in Call |-> mine'[q]]
         /\ \A q \in Call : q # p => mine'[q] = mine[q]
         /\ DOMAIN mine'[p] = DOMAIN rows \cup DOMAIN mine[p]
         /\ \A x \in DOMAIN mine'[p] : mine'[p][x] = IF x \in DOMAIN rows THEN rows[x] ELSE mine[p][x]
         /\ \A q \in Call : Written(mine'[q])
<1>1. /\ UNCHANGED <<db, stale>>
      /\ mine' = [mine EXCEPT ![p] = Overlay(rows, mine[p])]
  BY DEF Write, Atomic
<1>2. /\ mine'[p] = Overlay(rows, mine[p])
      /\ \A q \in Call : q # p => mine'[q] = mine[q]
      /\ mine' = [q \in Call |-> mine'[q]]
  BY <1>1 DEF Typed
<1>3. /\ DOMAIN mine'[p] = DOMAIN rows \cup DOMAIN mine[p]
      /\ \A x \in DOMAIN mine'[p] : mine'[p][x] = IF x \in DOMAIN rows THEN rows[x] ELSE mine[p][x]
      /\ IsRows(mine'[p])
  <2> DEFINE new == Overlay(rows, mine[p])
  <2>1. /\ DOMAIN new = DOMAIN rows \cup DOMAIN mine[p]
        /\ \A x \in DOMAIN rows \cup DOMAIN mine[p] :
             new[x] = IF x \in DOMAIN rows THEN rows[x] ELSE mine[p][x]
        /\ IsRows(new)
    BY DEF Overlay, IsRows
  <2> HIDE DEF new
  <2>2. mine'[p] = new
    BY <1>2 DEF new
  <2> QED
    BY <2>1, <2>2
<1>4. Written(mine'[p])
  BY <1>3 DEF Typed, Written
<1> QED
  BY <1>1, <1>2, <1>3, <1>4 DEF Typed

-----------------------------------------------------------------------------
(* On any database: what a call holds, and who can wait in a circle.        *)

\* A step that moves one call on and writes nothing.
LEMMA BaseReads ==
  ASSUME BaseInv, NEW p \in Call, NEW c \in Variables, call' = [call EXCEPT ![p] = c],
         Held(c, mine[p]), stale' \subseteq Call, UNCHANGED <<db, log, mine, clock, database>>
  PROVE  BaseInv'
<1>1. call'[p] = c /\ (\A q \in Call : q # p => call'[q] = call[q]) /\ call' \in [Call -> Variables]
  BY DEF BaseInv, Typed
<1>2. Typed'
  BY <1>1 DEF BaseInv, Typed, Written
<1>3. ASSUME NEW q \in Call  PROVE Holding(q)'
  <2>1. CASE q = p
    BY <1>1, <2>1 DEF Holding
  <2>2. CASE q # p
    BY <1>1, <2>2 DEF BaseInv, Holding
  <2> QED
    BY <2>1, <2>2
<1> QED
  BY <1>2, <1>3 DEF BaseInv

\* A step that moves one call on and writes rows.
LEMMA BaseWrites ==
  ASSUME BaseInv, NEW p \in Call, NEW c \in Variables, call' = [call EXCEPT ![p] = c],
         NEW rows, Written(rows), Write(p, rows), Held(c, mine'[p]),
         UNCHANGED <<log, database>>, clock' \in Nat
  PROVE  BaseInv'
<1>1. call'[p] = c /\ (\A q \in Call : q # p => call'[q] = call[q]) /\ call' \in [Call -> Variables]
  BY DEF BaseInv, Typed
<1>2. /\ UNCHANGED <<db, stale>>
      /\ mine' = [q \in Call |-> mine'[q]]
      /\ \A q \in Call : q # p => mine'[q] = mine[q]
      /\ \A q \in Call : Written(mine'[q])
  BY Writes DEF BaseInv
<1>3. Typed'
  BY <1>1, <1>2 DEF BaseInv, Typed, Written
<1>4. ASSUME NEW q \in Call  PROVE Holding(q)'
  <2>1. CASE q = p
    BY <1>1, <2>1 DEF Holding
  <2>2. CASE q # p
    BY <1>1, <1>2, <2>2 DEF BaseInv, Holding
  <2> QED
    BY <2>1, <2>2
<1> QED
  BY <1>3, <1>4 DEF BaseInv

\* The variables of a call, but for the statement it is at.
Same(c, d) ==
  /\ c.next = d.next /\ c.approval = d.approval /\ c.previous = d.previous
  /\ c.possible = d.possible /\ c.listed = d.listed

\* A call that goes to its next statement keeps its variables.
LEMMA Goes ==
  ASSUME Typed, NEW p \in Call, NEW at \in Statement, GoTo(p, at)
  PROVE  \E c \in Variables : call' = [call EXCEPT ![p] = c] /\ c.at = at /\ Same(c, call[p])
<1> DEFINE c == [call[p] EXCEPT !.at = at]
<1>1. c \in Variables /\ c.at = at /\ Same(c, call[p])
  BY DEF Typed, Variables, Same
<1>2. call' = [call EXCEPT ![p] = c]
  BY DEF GoTo, Typed
<1> QED
  BY <1>1, <1>2

\* A call that is not under way has no variables.
LEMMA IdleTyped ==
  /\ Idle \in Variables /\ Idle.at = "idle" /\ Idle.listed = {}
  /\ \A rows : rows = <<>> => Held(Idle, rows)
<1>1. Idle \in Variables /\ Idle.at = "idle"
  BY ConcurrentAssumption DEF Idle, Variables, Statement
<1>2. Idle.listed = {}
  BY DEF Idle
<1> HIDE DEF Idle
<1> QED
  BY <1>1, <1>2, NoRows DEF Held, Late, Cancelling, Early

\* What a call is given when it begins.
LEMMA Begins ==
  ASSUME Typed, NEW p \in Call, NEW next \in Given, Load(p, next)
  PROVE  \E c \in Variables : call' = [call EXCEPT ![p] = c] /\ c.at = "choose" /\ c.listed = {}
<1> DEFINE c == [Idle EXCEPT !.at = "choose", !.next = next, !.loaded = db[Object]]
<1>1. c \in Variables /\ c.at = "choose" /\ c.listed = {}
  BY IdleTyped DEF Typed, Variables, Statement
<1>2. call' = [call EXCEPT ![p] = c]
  BY DEF Load
<1> QED
  BY <1>1, <1>2

\* A call is refused, or goes on to the next of its questions.
LEMMA Asks ==
  ASSUME Typed, NEW p \in Call, Choose(p) \/ Check(p)
  PROVE  \E c \in Variables : /\ call' = [call EXCEPT ![p] = c]
                              /\ c.at \in {"idle", "check", "first"} /\ c.listed \in {{}, call[p].listed}
<1>1. CASE Refuse(p)
  BY <1>1, IdleTyped DEF Refuse
<1>2. ASSUME NEW at \in {"check", "first"}, GoTo(p, at)
      PROVE  \E c \in Variables : /\ call' = [call EXCEPT ![p] = c]
                                  /\ c.at \in {"check", "first"} /\ c.listed = call[p].listed
  BY <1>2, Goes DEF Statement, Same
<1> QED
  BY <1>1, <1>2 DEF Choose, Check

\* A call picks a pending approval, or fails.
LEMMA Picks ==
  ASSUME Typed, NEW p \in Call, First(p)
  PROVE  \E c \in Variables :
           /\ call' = [call EXCEPT ![p] = c] /\ c.listed \in {{}, call[p].listed}
           /\ \/ c.at = "idle"
              \/ c.at = "recent" /\ c.approval \in Approval /\ db[c.approval].status = "pending"
<1>1. CASE Refuse(p)
  BY <1>1, IdleTyped DEF Refuse
<1>2. ASSUME NEW a \in Chosen(p, db), call' = [call EXCEPT ![p].at = "recent", ![p].approval = a]
      PROVE  \E c \in Variables :
               /\ call' = [call EXCEPT ![p] = c] /\ c.listed = call[p].listed
               /\ c.at = "recent" /\ c.approval \in Approval /\ db[c.approval].status = "pending"
  <2> DEFINE c == [call[p] EXCEPT !.at = "recent", !.approval = a]
  <2>1. a \in Approval /\ db[a].status = "pending"
    BY ConcurrentAssumption DEF Chosen, Available
  <2>2. c \in Variables /\ c.at = "recent" /\ c.approval = a /\ c.listed = call[p].listed
    BY <2>1 DEF Typed, Variables, Statement
  <2>3. call' = [call EXCEPT ![p] = c]
    BY <1>2 DEF Typed
  <2> QED
    BY <2>1, <2>2, <2>3
<1> QED
  BY <1>1, <1>2 DEF First

\* What a call takes for the most recent signature is one without a later one, or none.
Latest(view, b) == (b = None /\ Recent(view) = {}) \/ b \in Recent(view)

\* A call reads the most recent signature.
LEMMA Recalls ==
  ASSUME Typed, NEW p \in Call, ReadRecent(p)
  PROVE  \E c \in Variables : /\ call' = [call EXCEPT ![p] = c]
                              /\ c.at = "sign" /\ c.approval = call[p].approval
                              /\ c.listed = call[p].listed
                              /\ Latest(View(p), c.previous)
<1> DEFINE previous == IF Recent(View(p)) = {} THEN None ELSE CHOOSE a \in Recent(View(p)) : TRUE
           c == [call[p] EXCEPT !.at = "sign", !.previous = previous]
<1>1. previous \in Approval \cup {None} /\ Latest(View(p), previous)
  BY DEF Recent, Latest
<1>2. call' = [call EXCEPT ![p] = c]
  BY DEF ReadRecent, Typed
<1> HIDE DEF previous
<1>3. /\ c \in Variables /\ c.at = "sign" /\ c.approval = call[p].approval /\ c.previous = previous
      /\ c.listed = call[p].listed
  <2>1. call[p] \in Variables /\ "sign" \in Statement
    BY DEF Typed, Statement
  <2> QED
    BY <1>1, <2>1 DEF Variables
<1> QED
  BY <1>1, <1>2, <1>3

\* What a call begins to cancel with.
LEMMA Begun ==
  ASSUME Typed, NEW p \in Call, Sign(p), call[p].approval \in Approval
  PROVE  \E c \in Variables :
           /\ call' = [call EXCEPT ![p] = c]
           /\ c.approval = call[p].approval /\ c.listed = call[p].listed
           /\ \/ c.at = "peers"
              \/ c.at = "ids" /\ c.next # NotGiven /\ TransitionOf[c.approval] \in c.possible
<1> DEFINE t == TransitionOf[call[p].approval]
           c == [call[p] EXCEPT !.at = "ids", !.possible = {t}, !.ahead = {Destination[t]}]
<1>1. CASE GoTo(p, "peers")
  BY <1>1, Goes DEF Statement, Same
<1>2. CASE Cancels(p) /\ call' = [call EXCEPT ![p].at = "ids", ![p].possible = {t},
                                              ![p].ahead = {Destination[t]}]
  <2>1. t \in Transition /\ Destination[t] \in State
    BY Distinct, ConcurrentAssumption
  <2> HIDE DEF t
  <2>2. /\ c \in Variables /\ c.at = "ids" /\ c.possible = {t} /\ c.approval = call[p].approval
        /\ c.listed = call[p].listed /\ c.next = call[p].next
    BY <2>1 DEF Typed, Variables, Statement
  <2>3. call' = [call EXCEPT ![p] = c]
    BY <1>2 DEF Typed
  <2> QED
    BY <1>2, <2>2, <2>3 DEF Cancels, t
<1> QED
  BY <1>1, <1>2 DEF Sign

\* A call that looks for what is possible finds more of it, and lists the rest.
LEMMA Searches ==
  ASSUME Typed, NEW p \in Call, ReadIds(p) \/ ReadLabels(p) \/ List(p)
  PROVE  \E c \in Variables :
           /\ call' = [call EXCEPT ![p] = c] /\ c.at \in Early
           /\ c.approval = call[p].approval /\ c.next = call[p].next
           /\ call[p].possible \subseteq c.possible
           /\ ~List(p) => c.at \in {"ids", "labels", "list"} /\ c.listed = call[p].listed
           /\ List(p) => c.at = "close_approvals" /\ c.listed = Impossible(p) /\ c.possible = call[p].possible
<1>1. CASE ReadIds(p)
  <2> DEFINE found == PossibleNow(p)
             c == [call[p] EXCEPT !.at = "labels", !.found = found]
  <2>1. found \in SUBSET Transition
    BY DEF PossibleNow
  <2>2. call' = [call EXCEPT ![p] = c] /\ ~List(p)
    BY <1>1 DEF ReadIds, List, Runs, Typed
  <2> HIDE DEF found
  <2>3. /\ c \in Variables /\ c.at = "labels" /\ c.approval = call[p].approval /\ c.next = call[p].next
        /\ c.possible = call[p].possible /\ c.listed = call[p].listed
    BY <2>1 DEF Typed, Variables, Statement
  <2> QED
    BY <2>2, <2>3 DEF Early, Cancelling
<1>2. CASE ReadLabels(p)
  <2> DEFINE labels == {Destination[u] : u \in PossibleNow(p)}
  <2>1. labels \in SUBSET State
    BY ConcurrentAssumption DEF PossibleNow
  <2>2. PICK at \in {"ids", "list"} :
          call' = [call EXCEPT ![p].at = at, ![p].ahead = labels,
                               ![p].possible = @ \cup call[p].found, ![p].found = {}]
    BY <1>2 DEF ReadLabels
  <2> HIDE DEF labels
  <2> DEFINE c == [call[p] EXCEPT !.at = at, !.ahead = labels, !.possible = @ \cup call[p].found, !.found = {}]
  <2>3. call' = [call EXCEPT ![p] = c] /\ ~List(p)
    BY <1>2, <2>2 DEF ReadLabels, List, Runs, Typed
  <2>4. call[p] \in Variables /\ call[p].possible \cup call[p].found \in SUBSET Transition
        /\ {} \in SUBSET Transition /\ at \in Statement
    BY DEF Typed, Variables, Statement
  <2>5. /\ c \in Variables /\ c.at = at /\ c.approval = call[p].approval /\ c.next = call[p].next
        /\ c.possible = call[p].possible \cup call[p].found /\ c.listed = call[p].listed
    BY <2>1, <2>4 DEF Variables
  <2> HIDE DEF c
  <2> QED
    BY <2>3, <2>5 DEF Early, Cancelling
<1>3. CASE List(p)
  <2> DEFINE listed == Impossible(p)
             c == [call[p] EXCEPT !.at = "close_approvals", !.listed = listed]
  <2>1. listed \in SUBSET Transition
    BY DEF Impossible
  <2>2. call' = [call EXCEPT ![p] = c]
    BY <1>3 DEF List, Typed
  <2> HIDE DEF listed
  <2>3. /\ c \in Variables /\ c.at = "close_approvals" /\ c.approval = call[p].approval
        /\ c.next = call[p].next /\ c.possible = call[p].possible /\ c.listed = listed
    BY <2>1 DEF Typed, Variables, Statement
  <2> QED
    BY <1>3, <2>2, <2>3 DEF Early, Cancelling, listed
<1> QED
  BY <1>1, <1>2, <1>3

\* A call completes its transition.
LEMMA Completes ==
  ASSUME Typed, NEW p \in Call, Done(p), call[p].approval \in Approval
  PROVE  \E c \in Variables : call' = [call EXCEPT ![p] = c] /\ c.at = "save" /\ Same(c, call[p])
<1> DEFINE t == TransitionOf[call[p].approval]
           c == [call[p] EXCEPT !.at = "save", !.loaded = Destination[t]]
<1>1. Destination[t] \in State /\ call[p] \in Variables /\ "save" \in Statement
  BY Distinct, ConcurrentAssumption DEF Typed, Statement
<1> HIDE DEF t
<1>2. c \in Variables /\ c.at = "save" /\ Same(c, call[p])
  BY <1>1 DEF Variables, Same
<1>3. call' = [call EXCEPT ![p] = c]
  BY DEF Done, Typed, t
<1> QED
  BY <1>2, <1>3

\* A step before the signature keeps the base of the invariant.
LEMMA BaseBefore ==
  ASSUME BaseInv, NEW p \in Call, Choose(p) \/ Check(p) \/ First(p) \/ ReadRecent(p), UNCHANGED database
  PROVE  BaseInv'
<1>1. /\ Typed /\ mine[p] = <<>> /\ call[p].listed = {}
      /\ ReadRecent(p) => call[p].approval \in Approval
  BY DEF BaseInv, Holding, Held, Choose, Check, First, ReadRecent, Runs, Late, Cancelling
<1>2. PICK c \in Variables : /\ call' = [call EXCEPT ![p] = c] /\ c.listed = {}
                             /\ \/ c.at \in {"idle", "check", "first"}
                                \/ c.at \in {"recent", "sign"} /\ c.approval \in Approval
  <2>1. CASE Choose(p) \/ Check(p)
    BY <1>1, <2>1, Asks
  <2>2. CASE First(p)
    BY <1>1, <2>2, Picks
  <2>3. CASE ReadRecent(p)
    BY <1>1, <2>3, Recalls
  <2> QED
    BY <2>1, <2>2, <2>3
<1>3. Held(c, mine[p])
  BY <1>1, <1>2, NoRows DEF Held, Late, Cancelling, Early
<1> QED
  BY <1>1, <1>2, <1>3, BaseReads DEF Choose, Check, First, ReadRecent, Typed

\* Loading the object keeps the base of the invariant.
LEMMA BaseLoad ==
  ASSUME BaseInv, NEW p \in Call, NEW next \in Given, Load(p, next), UNCHANGED database
  PROVE  BaseInv'
<1>1. Typed /\ mine[p] = <<>>
  BY DEF BaseInv, Holding, Held, Load, Late, Cancelling
<1>2. PICK c \in Variables : call' = [call EXCEPT ![p] = c] /\ c.at = "choose" /\ c.listed = {}
  BY <1>1, Begins
<1>3. Held(c, mine[p])
  BY <1>1, <1>2, NoRows DEF Held, Late, Cancelling, Early
<1> QED
  BY <1>1, <1>2, <1>3, BaseReads DEF Load, Typed

\* Signing keeps the base of the invariant.
LEMMA BaseSign ==
  ASSUME BaseInv, NEW p \in Call, Sign(p), UNCHANGED database
  PROVE  BaseInv'
<1>1. /\ call[p].at = "sign" /\ call[p].approval \in Approval /\ mine[p] = <<>> /\ Typed
      /\ call[p].listed = {}
  BY DEF Sign, Runs, BaseInv, Holding, Held, Late, Cancelling
<1>2. Written(Wanted(p)) /\ DOMAIN Wanted(p) = {call[p].approval} /\ Write(p, Wanted(p))
  BY <1>1, Wants DEF Sign
<1>3. PICK c \in Variables : /\ call' = [call EXCEPT ![p] = c]
                             /\ c.approval = call[p].approval /\ c.listed = {}
                             /\ c.at = "peers" \/ (c.at = "ids" /\ c.next # NotGiven)
  BY <1>1, Begun
<1>4. DOMAIN mine'[p] = {call[p].approval}
  BY <1>1, <1>2, Writes, NoRows
<1>5. Held(c, mine'[p])
  BY <1>1, <1>3, <1>4, Distinct DEF Held, Late, Cancelling, Early
<1>6. clock' \in Nat /\ UNCHANGED <<log, database>>
  BY <1>1 DEF Sign, Typed
<1> QED
  BY <1>2, <1>3, <1>5, <1>6, BaseWrites

\* Reading after the signature keeps the base of the invariant.
LEMMA BaseAfter ==
  ASSUME BaseInv, NEW p \in Call, ReadIds(p) \/ ReadLabels(p) \/ List(p) \/ Peers(p), UNCHANGED database
  PROVE  BaseInv'
<1>1. Typed /\ Held(call[p], mine[p]) /\ call[p].at \in {"ids", "labels", "list", "peers"}
  BY DEF ReadIds, ReadLabels, List, Peers, Runs, BaseInv, Holding
<1>2. ASSUME NEW c \in Variables, call' = [call EXCEPT ![p] = c], c.at \in Early,
             c.approval = call[p].approval, c.next = call[p].next, call[p].at \in Cancelling,
             c.at = "close_approvals" \/ c.listed = call[p].listed
      PROVE  BaseInv'
  <2>1. Held(c, mine[p])
    BY <1>1, <1>2, Distinct DEF Held, Late, Cancelling, Early
  <2> QED
    BY <1>1, <1>2, <2>1, BaseReads DEF ReadIds, ReadLabels, List, Peers, Typed
<1>3. CASE ReadIds(p) \/ ReadLabels(p) \/ List(p)
  <2>1. call[p].at \in Cancelling
    BY <1>3 DEF ReadIds, ReadLabels, List, Runs, Cancelling
  <2> QED
    BY <1>1, <1>2, <1>3, <2>1, Searches
<1>4. CASE Peers(p)
  <2>1. PICK at \in {"done", "save"} : GoTo(p, at)
    BY <1>4 DEF Peers
  <2>2. PICK c \in Variables : call' = [call EXCEPT ![p] = c] /\ c.at = at /\ Same(c, call[p])
    BY <1>1, <2>1, Goes DEF Statement
  <2>3. call[p].at = "peers"
    BY <1>4 DEF Peers, Runs
  <2>4. Held(c, mine[p])
    BY <1>1, <2>2, <2>3 DEF Held, Late, Cancelling, Early, Same
  <2> QED
    BY <1>1, <1>4, <2>2, <2>4, BaseReads DEF Peers, Typed
<1> QED
  BY <1>3, <1>4

\* The statements that close others, complete the transition and save the object keep the
\* base of the invariant.
LEMMA BaseUpdates ==
  ASSUME BaseInv, NEW p \in Call, UNCHANGED database,
         \/ Close(p, "close_approvals", "close_transitions") \/ Close(p, "close_transitions", "peers")
         \/ Done(p) \/ Save(p)
  PROVE  BaseInv'
<1>1. /\ Typed /\ Held(call[p], mine[p])
      /\ call[p].at \in {"close_approvals", "close_transitions", "done", "save"}
  BY DEF Close, Done, Save, Runs, BaseInv, Holding
<1>2. call[p].approval \in Approval /\ call[p].approval \in DOMAIN mine[p] /\ Object \notin DOMAIN mine[p]
  BY <1>1 DEF Held, Late, Cancelling
<1>3. Written(Wanted(p)) /\ Write(p, Wanted(p)) /\ (call[p].at # "save" => Object \notin DOMAIN Wanted(p))
  <2>1. Write(p, Wanted(p))
    BY DEF Close, Done, Save
  <2> QED
    BY <1>1, <1>2, <2>1, Kinds, Distinct
<1>4. PICK c \in Variables :
        /\ call' = [call EXCEPT ![p] = c] /\ Same(c, call[p])
        /\ \/ c.at \in {"close_transitions", "peers"} /\ call[p].at \in Cancelling
           \/ c.at = "save" /\ call[p].at = "done"
           \/ c.at = "commit"
  BY <1>1, <1>2, Goes, Completes DEF Close, Done, Save, Runs, Statement, Cancelling
<1>5. DOMAIN mine'[p] = DOMAIN Wanted(p) \cup DOMAIN mine[p]
  BY <1>1, <1>3, Writes
<1>6. c.at # "commit" => call[p].at # "save"
  BY <1>4 DEF Cancelling
<1>7. Held(c, mine'[p])
  BY <1>1, <1>2, <1>3, <1>4, <1>5, <1>6 DEF Held, Late, Cancelling, Early, Same
<1>8. clock' \in Nat /\ UNCHANGED <<log, database>>
  BY <1>1 DEF Close, Done, Save, Typed
<1> QED
  BY <1>3, <1>4, <1>7, <1>8, BaseWrites

\* The end of a call, committed or not.
LEMMA BaseEnds ==
  ASSUME BaseInv, NEW p \in Call, mine' = [mine EXCEPT ![p] = <<>>], call' = [call EXCEPT ![p] = Idle],
         db' \in {db, View(p)}, log' \in [{"approved", "cancelled"} \X Transition -> Nat],
         stale' \subseteq Call, UNCHANGED <<clock, database>>
  PROVE  BaseInv'
<1>1. /\ call' \in [Call -> Variables] /\ call'[p] = Idle
      /\ mine' = [q \in Call |-> mine'[q]] /\ mine'[p] = <<>>
      /\ \A q \in Call : q # p => call'[q] = call[q] /\ mine'[q] = mine[q]
  BY IdleTyped DEF BaseInv, Typed
<1>2. \A q \in Call : Written(mine'[q])
  BY <1>1, Empty DEF BaseInv, Typed
<1>3. /\ IsRows(db') /\ DOMAIN db' = Rows /\ db'[Object] \in State
      /\ \A t \in Transition : db'[t] \in Status
      /\ \A a \in Approval : db'[a] \in Signature
  BY Viewed DEF BaseInv, Typed
<1>4. Typed'
  BY <1>1, <1>2, <1>3 DEF BaseInv, Typed, Written
<1>5. ASSUME NEW q \in Call  PROVE Holding(q)'
  <2>1. CASE q = p
    BY <1>1, <2>1, IdleTyped DEF Holding
  <2>2. CASE q # p
    BY <1>1, <2>2 DEF BaseInv, Holding
  <2> QED
    BY <2>1, <2>2
<1> QED
  BY <1>4, <1>5 DEF BaseInv

\* A call logs its entries by action and transition.
LEMMA LoggedTyped ==
  ASSUME Typed, NEW p \in Call
  PROVE  Logged(p) \in [{"approved", "cancelled"} \X Transition -> Nat]
  BY DEF Logged, Typed

\* Every statement keeps the base of the invariant.
LEMMA BaseStep == BaseInv /\ [Next]_vars => BaseInv'
<1> SUFFICES ASSUME BaseInv, [Next]_vars  PROVE BaseInv'
  OBVIOUS
<1>1. ASSUME NEW p \in Call, Commit(p), UNCHANGED database  PROVE BaseInv'
  <2>1. stale' \subseteq Call /\ log' \in [{"approved", "cancelled"} \X Transition -> Nat]
    BY <1>1, LoggedTyped DEF Commit, BaseInv
  <2> QED
    BY <1>1, <2>1, BaseEnds DEF Commit
<1>2. ASSUME NEW p \in Call, Fail(p), UNCHANGED database  PROVE BaseInv'
  <2>1. stale' \subseteq Call /\ log' \in [{"approved", "cancelled"} \X Transition -> Nat]
    BY <1>2 DEF Fail, BaseInv, Typed
  <2> QED
    BY <1>2, <2>1, BaseEnds DEF Fail
<1>3. ASSUME NEW p \in Call, Step(p), UNCHANGED database  PROVE BaseInv'
  BY <1>1, <1>3, BaseBefore, BaseSign, BaseAfter, BaseUpdates DEF Step
<1>4. CASE UNCHANGED vars
  BY <1>4 DEF vars, BaseInv, Typed, Holding
<1> QED
  BY <1>2, <1>3, <1>4, BaseLoad DEF Next

\* Every row as it is created.
LEMMA Initially ==
  ASSUME Init
  PROVE  /\ IsRows(db) /\ DOMAIN db = Rows /\ db[Object] = InitialState
         /\ \A t \in Transition : db[t] = "pending"
         /\ \A a \in Approval : db[a] = Unsigned
         /\ Unsigned \in Signature
         /\ \A p \in Call : mine[p] = <<>> /\ call[p] = Idle
<1>1. db = [row \in Rows |-> CASE row = Object -> InitialState
                               [] row \in Transition -> "pending" [] OTHER -> Unsigned]
  BY DEF Init, Rows
<1>2. IsRows(db) /\ DOMAIN db = Rows
  BY <1>1 DEF IsRows
<1>3. db[Object] = InitialState
  BY <1>1, Distinct, ConcurrentAssumption DEF Rows
<1>4. \A t \in Transition : db[t] = "pending"
  BY <1>1, Distinct DEF Rows
<1>5. \A a \in Approval : db[a] = Unsigned
  BY <1>1, Distinct DEF Rows
<1> QED
  BY <1>2, <1>3, <1>4, <1>5, ConcurrentAssumption DEF Init, Unsigned, Signature

\* The object begins with no signature, and nobody holds anything.
LEMMA BaseInit == Init => BaseInv
<1> SUFFICES ASSUME Init  PROVE BaseInv
  OBVIOUS
<1>1. Typed
  BY Initially, IdleTyped, Empty, ConcurrentAssumption DEF Init, Typed, Status
<1>2. \A p \in Call : Holding(p)
  BY Initially, IdleTyped DEF Holding
<1> QED
  BY <1>1, <1>2 DEF BaseInv

\* On either database what calls have written is well typed, a call that has signed holds its
\* approval, and the object is the last row it takes.
THEOREM BaseInvariance == Spec => []BaseInv
  BY BaseInit, BaseStep, PTL DEF Spec

\* A call in a circle holds something, so it has signed; and it waits for a row.
LEMMA InCircle ==
  ASSUME BaseInv, NEW q \in Call, NEW r \in Call, r \in Blockers(q), mine[q] # <<>>
  PROVE  /\ call[q].at \in {"close_approvals", "close_transitions", "done", "save"}
         /\ DOMAIN Wanted(q) \cap DOMAIN mine[r] # {}
<1>1. Signed(q) /\ ~Signs(q)
  BY DEF BaseInv, Holding, Held, Signed, Signs, Late, Cancelling
<1>2. DOMAIN Wanted(q) \cap DOMAIN mine[r] # {}
  BY <1>1 DEF Blockers, SameHistory
<1>3. call[q].at \notin {"sign", "close_approvals", "close_transitions", "done", "save"} => Wanted(q) = <<>>
  BY DEF Wanted
<1> QED
  BY <1>1, <1>2, <1>3, NoRows DEF Signed, Late, Cancelling

\* Who waits for a call that holds its approval only, is about to cancel approvals.
LEMMA WaitsForApproval ==
  ASSUME BaseInv, NEW q \in Call, NEW r \in Call, r \in Blockers(q), mine[q] # <<>>,
         call[r].approval \in Approval, DOMAIN mine[r] = {call[r].approval}
  PROVE  call[q].at = "close_approvals"
<1>1. /\ call[q].at \in {"close_approvals", "close_transitions", "done", "save"}
      /\ call[r].approval \in DOMAIN Wanted(q)
  BY InCircle
<1>2. call[q].approval \in Approval /\ Typed
  BY <1>1 DEF BaseInv, Holding, Held
<1> QED
  BY <1>1, <1>2, Kinds, Distinct

\* Calls of approve() without a next_state are in no circle of calls that wait for each
\* other, on any database.
THEOREM OnlyChoices == Spec => []OnlyChoicesDeadlock
<1>1. BaseInv => OnlyChoicesDeadlock
  <2> SUFFICES ASSUME BaseInv, NEW p \in Call, Deadlocked(p), call[p].next = NotGiven  PROVE FALSE
    BY DEF OnlyChoicesDeadlock
  <2>0. PICK S \in SUBSET Call : \E waits \in [S -> S] :
          p \in S /\ (\A q \in S : waits[q] \in Blockers(q)) /\ \A q \in S : \E r \in S : waits[r] = q
    BY DEF Deadlocked
  <2>1. PICK waits \in [S -> S] :
          p \in S /\ (\A q \in S : waits[q] \in Blockers(q)) /\ \A q \in S : \E r \in S : waits[r] = q
    BY <2>0
  <2>2. \A q \in S : mine[q] # <<>>
    <3>1. SUFFICES ASSUME NEW r \in S, mine[waits[r]] = <<>>  PROVE FALSE
      BY <2>1
    <3>2. waits[r] \in Blockers(r) /\ Approval \cap DOMAIN mine[waits[r]] = {}
      BY <2>1, <3>1, NoRows
    <3> QED
      BY <3>1, <3>2, NoRows DEF Blockers, SameHistory
  <2>3. \A q \in S : call[q].at \in {"close_approvals", "close_transitions", "done"}
    <3>1. SUFFICES ASSUME NEW q \in S, call[q].at = "save"  PROVE FALSE
      BY <2>1, <2>2, InCircle
    <3>2. waits[q] \in S /\ waits[q] \in Blockers(q) /\ DOMAIN Wanted(q) \cap DOMAIN mine[waits[q]] # {}
      BY <2>1, <2>2, InCircle
    <3>3. DOMAIN Wanted(q) = {Object}
      BY <3>1, Wants DEF BaseInv, Holding, Held
    <3>4. call[waits[q]].at = "commit"
      BY <3>2, <3>3 DEF BaseInv, Holding, Held
    <3> QED
      BY <2>1, <2>2, <3>2, <3>4, InCircle
  <2> DEFINE A == {q \in S : call[q].at = "close_approvals"}
             B == {q \in S : waits[q] \in A \cup {p}}
             f == [q \in B |-> waits[q]]
  <2>4. p \notin A /\ call[p].at = "done" /\ Holding(p)
    BY <2>1, <2>3 DEF BaseInv, Holding, Held, Cancelling
  <2>5. \A r \in A \cup {p} : call[r].approval \in Approval /\ DOMAIN mine[r] = {call[r].approval}
    BY <2>1, <2>4 DEF BaseInv, Holding, Held, Early, Cancelling
  <2>6. B \subseteq A
    BY <2>1, <2>2, <2>5, WaitsForApproval
  <2>7. f \in Surjection(B, A \cup {p})
    BY <2>1 DEF Surjection
  <2>8. IsFiniteSet(A) /\ IsFiniteSet(B) /\ Cardinality(B) <= Cardinality(A) /\ Cardinality(A) \in Nat
    <3>1. IsFiniteSet(A)
      BY ConcurrentAssumption, FS_Subset
    <3> HIDE DEF A, B
    <3> QED
      BY <2>6, <3>1, FS_Subset, FS_CardinalityType
  <2>9. Cardinality(A \cup {p}) = Cardinality(A) + 1
    BY <2>4, <2>8, FS_AddElement
  <2>10. Cardinality(A \cup {p}) <= Cardinality(B)
    BY <2>7, <2>8, FS_Surjection
  <2>11. Cardinality(B) \in Nat
    BY <2>8, FS_CardinalityType
  <2> QED
    BY <2>8, <2>9, <2>10, <2>11
<1> QED
  BY <1>1, BaseInvariance, PTL

-----------------------------------------------------------------------------
(* A database that refuses the writes of a transaction that lost a race.    *)

\* A transition that is done has every signature, and one that is cancelled has none left.
Consistent(view) == \A b \in Approval :
  /\ view[TransitionOf[b]] = "done" => view[b].status = "approved"
  /\ view[TransitionOf[b]] = "cancelled" <=> view[b].status = "cancelled"

Matches ==
  \A t \in Transition :
    /\ log[<<"cancelled", t>>] = IF db[t] = "cancelled" THEN 1 ELSE 0
    /\ db[t] # "cancelled" =>
         log[<<"approved", t>>] = Cardinality({a \in Approval : TransitionOf[a] = t /\ db[a].status = "approved"})

\* Signatures have dates up to now, one of them the latest, and each names the one before it.
Dated ==
  /\ \A b \in Approval : db[b].date <= clock /\ (db[b].status = "pending" => db[b].date = 0)
  /\ Recent(db) # {} \/ \A b \in Approval : db[b].date = 0

Ordered == \A a \in Approval : db[a].date > 0 =>
  IF Earlier(a) = {} THEN db[a].previous = None
  ELSE db[a].previous \in Earlier(a) /\ \A b \in Earlier(a) : db[b].date <= db[db[a].previous].date

\* What a call chose is still there to be signed, and what it takes for the most recent
\* signature still is, unless another has committed since.
Fresh(p) == p \notin stale /\ call[p].at \in {"recent", "sign"} =>
  db[call[p].approval].status = "pending" /\ (call[p].at = "sign" => Latest(db, call[p].previous))

\* A call with these variables, that has signed a for t and sees this, may still commit: what
\* it sees is what was committed, its own signature, what that closes as far as it has come,
\* and perhaps the end of t.
Writing(c, view, a, t) ==
  /\ db[a].status = "pending"
  /\ view[a].status = "approved" /\ Latest(db, view[a].previous)
  /\ view[a].date \in Nat /\ view[a].date <= clock /\ \A b \in Approval : db[b].date < view[a].date
  /\ c.listed \subseteq {u \in Transition \ {t} : db[u] = "pending"}
  /\ c.at \in Cancelling => t \in c.possible
  /\ c.at \in {"close_approvals", "close_transitions"} => c.listed = Excluded(c, view)
  /\ \A b \in Approval \ {a} :
       view[b] = IF TransitionOf[b] \in c.listed /\ c.at # "close_approvals"
                 THEN [db[b] EXCEPT !.status = "cancelled"] ELSE db[b]
  /\ \A u \in Transition \ {t} :
       view[u] = IF u \in c.listed /\ c.at \notin Cancelling THEN "cancelled" ELSE db[u]
  /\ \/ view[t] = "pending"
     \/ /\ view[t] = "done" /\ c.at \in {"save", "commit"}
        /\ \A b \in Approval : TransitionOf[b] = t => view[b].status # "pending"
  /\ c.at = "done" => \A b \in Approval : TransitionOf[b] = t => view[b].status # "pending"

Works(p) ==
  Signed(p) => p \notin stale /\ Writing(call[p], View(p), call[p].approval, TransitionOf[call[p].approval])

Alone == \A p, q \in Call : Signed(p) /\ Signed(q) => p = q

Serial == Consistent(db) /\ Matches /\ Dated /\ Ordered /\ Alone /\ \A p \in Call : Fresh(p) /\ Works(p)

SerialInv == database = "snapshot" => Serial

\* A call sees what it writes, and the rest as before.
LEMMA Sees ==
  ASSUME Typed, NEW p \in Call, NEW rows, Written(rows), Write(p, rows)
  PROVE  \A x \in Rows : View(p)'[x] = IF x \in DOMAIN rows THEN rows[x] ELSE View(p)[x]
<1>1. /\ db' = db
      /\ DOMAIN mine'[p] = DOMAIN rows \cup DOMAIN mine[p]
      /\ \A x \in DOMAIN mine'[p] : mine'[p][x] = IF x \in DOMAIN rows THEN rows[x] ELSE mine[p][x]
  BY Writes
<1>2. \A x \in Rows : View(p)'[x] = IF x \in DOMAIN mine'[p] THEN mine'[p][x] ELSE db'[x]
  BY <1>1 DEF View, Typed
<1> QED
  BY <1>1, <1>2, Viewed

\* A call that another one does not disturb stays where it is.
LEMMA Still ==
  ASSUME NEW q \in Call, Fresh(q), Works(q), db' = db, call'[q] = call[q], mine'[q] = mine[q],
         q \in stale' <=> q \in stale, clock \in Nat, clock' \in Nat, clock <= clock'
  PROVE  Fresh(q)' /\ Works(q)' /\ (Signed(q)' <=> Signed(q))
<1>1. View(q)' = View(q)
  BY DEF View
<1>2. Fresh(q)' /\ (Signed(q)' <=> Signed(q))
  BY DEF Fresh, Signed, Latest, Recent
<1>3. Works(q)'
  BY <1>1 DEF Works, Signed, Writing, Excluded, Latest, Recent
<1> QED
  BY <1>2, <1>3

\* A step of p that ends no call: what has to be shown is about p.
LEMMA SerialMoves ==
  ASSUME Typed, Serial, NEW p \in Call, db' = db, log' = log, Fresh(p)', Works(p)',
         \A q \in Call \ {p} : call'[q] = call[q] /\ mine'[q] = mine[q] /\ (q \in stale' <=> q \in stale),
         clock' \in Nat, clock <= clock', Signed(p)' => \A q \in Call \ {p} : ~Signed(q)
  PROVE  Serial'
<1>1. \A q \in Call \ {p} : Fresh(q)' /\ Works(q)' /\ (Signed(q)' <=> Signed(q))
  BY Still DEF Serial, Typed
<1>2. Alone'
  BY <1>1 DEF Alone, Serial
<1>3. Consistent(db)' /\ Matches' /\ Ordered'
  BY DEF Serial, Consistent, Matches, Ordered, Earlier
<1>4. Dated'
  <2>1. \A b \in Approval : db[b].date \in Nat
    BY DEF Typed, Signature
  <2> QED
    BY <2>1 DEF Serial, Dated, Recent, Typed
<1> QED
  BY <1>1, <1>2, <1>3, <1>4 DEF Serial

\* A statement of one call leaves the others at theirs.
LEMMA Others ==
  ASSUME Typed, NEW p \in Call, NEW c, call' = [call EXCEPT ![p] = c]
  PROVE  call'[p] = c /\ \A q \in Call \ {p} : call'[q] = call[q]
  BY DEF Typed

\* A statement before the signature keeps the serial invariant.
LEMMA SerialBefore ==
  ASSUME BaseInv, Serial, NEW p \in Call,
         \/ Choose(p) \/ Check(p) \/ First(p) \/ ReadRecent(p)
         \/ \E next \in Given : Load(p, next)
  PROVE  Serial'
<1>1. Typed /\ UNCHANGED <<db, log, mine, clock>> /\ \A q \in Call \ {p} : q \in stale' <=> q \in stale
  BY DEF BaseInv, Choose, Check, First, ReadRecent, Load
<1>2. PICK c \in Variables : /\ call' = [call EXCEPT ![p] = c]
                             /\ c.at \in {"idle", "choose", "check", "first", "recent", "sign"}
                             /\ c.at = "recent" => db[c.approval].status = "pending"
                             /\ c.at = "sign" => ReadRecent(p) /\ c.approval = call[p].approval
                                                 /\ Latest(View(p), c.previous)
  <2>1. CASE Choose(p) \/ Check(p)
    BY <1>1, <2>1, Asks
  <2>2. CASE First(p)
    BY <1>1, <2>2, Picks
  <2>3. CASE ReadRecent(p)
    BY <1>1, <2>3, Recalls
  <2>4. CASE \E next \in Given : Load(p, next)
    BY <1>1, <2>4, Begins
  <2> QED
    BY <2>1, <2>2, <2>3, <2>4
<1>3. call'[p] = c /\ \A q \in Call \ {p} : call'[q] = call[q]
  BY <1>1, <1>2, Others
<1>4. c.at = "sign" => /\ Fresh(p) /\ call[p].at = "recent" /\ stale' = stale
                       /\ Latest(db, c.previous)
  <2>1. ReadRecent(p) => call[p].at = "recent" /\ stale' = stale
    BY DEF ReadRecent, Runs
  <2>2. ReadRecent(p) => View(p) = db
    BY <1>1, <2>1, Viewed DEF BaseInv, Holding, Held, Late, Cancelling
  <2> QED
    BY <1>2, <2>1, <2>2 DEF Serial
<1>5. Fresh(p)' /\ Works(p)' /\ ~Signed(p)'
  BY <1>1, <1>2, <1>3, <1>4 DEF Fresh, Works, Signed, Late, Cancelling, Latest, Recent
<1> QED
  BY <1>1, <1>3, <1>5, SerialMoves DEF Typed

\* Nobody who has written is refused the rest, so that it is the first write of a call that
\* finds out whether another has committed or written since the call began.
LEMMA SerialSign ==
  ASSUME BaseInv, Serial, NEW p \in Call, Sign(p), database = "snapshot"
  PROVE  Serial'
<1>1. PICK a \in Approval : a = call[p].approval
  BY DEF Sign, Runs, BaseInv, Holding, Held
<1>2. PICK t \in Transition : t = TransitionOf[a]
  BY Distinct
<1>3. call[p].at = "sign" /\ mine[p] = <<>> /\ Typed /\ call[p].listed = {}
  BY DEF Sign, Runs, BaseInv, Holding, Held, Late, Cancelling
<1>4. PICK rows : rows = Wanted(p)
  OBVIOUS
<1>5. /\ Written(rows) /\ DOMAIN rows = {a} /\ rows[a].status = "approved" /\ Write(p, rows)
      /\ rows[a].previous = call[p].previous /\ rows[a].date = clock + 1
  BY <1>1, <1>3, <1>4, Wants DEF Sign
<1>6. p \notin stale /\ \A q \in Call \ {p} : mine[q] = <<>>
  <2>1. rows # <<>>
    BY <1>5, NoRows
  <2> QED
    BY <1>4, <2>1 DEF Sign, Runs, Refused, Atomic
<1>7. \A q \in Call \ {p} : ~Signed(q)
  BY <1>6, NoRows DEF BaseInv, Holding, Held, Signed
<1>8. db[a].status = "pending" /\ db[t] = "pending" /\ Latest(db, call[p].previous)
  <2>1. db[a].status = "pending" /\ Latest(db, call[p].previous)
    BY <1>1, <1>3, <1>6 DEF Serial, Fresh
  <2> QED
    BY <1>2, <1>3, <2>1 DEF Serial, Consistent, Typed, Status
<1>9. PICK v : v = View(p)'
  OBVIOUS
<1>10. /\ db' = db /\ stale' = stale /\ (\A q \in Call \ {p} : mine'[q] = mine[q])
       /\ \A x \in Rows : v[x] = IF x = a THEN rows[a] ELSE db[x]
  BY <1>3, <1>5, <1>9, Writes, Sees, Viewed
<1>11. PICK c \in Variables : /\ call' = [call EXCEPT ![p] = c]
                              /\ c.approval = a /\ c.listed = {}
                              /\ c.at = "peers" \/ (c.at = "ids" /\ t \in c.possible)
  BY <1>1, <1>2, <1>3, Begun
<1>12. call'[p] = c /\ \A q \in Call \ {p} : call'[q] = call[q]
  BY <1>3, <1>11, Others
<1>13. /\ v[a] = rows[a]
       /\ \A b \in Approval \ {a} : v[b] = db[b]
       /\ \A u \in Transition : v[u] = db[u]
  BY <1>10, Distinct DEF Rows
<1>14. clock' = clock + 1 /\ clock \in Nat /\ log' = log
  BY <1>3 DEF Sign, Typed
<1>15. \A b \in Approval : db[b].date \in Nat /\ db[b].date <= clock
  BY <1>3 DEF Typed, Signature, Serial, Dated
<1>16. Writing(c, v, a, t)'
  <2>1. v[a].date = clock' /\ v[a].date \in Nat /\ \A b \in Approval : db'[b].date < v[a].date
    BY <1>5, <1>10, <1>13, <1>14, <1>15
  <2>2. Latest(db, v[a].previous)'
    BY <1>5, <1>8, <1>10, <1>13 DEF Latest, Recent
  <2>3. v[t] = "pending" /\ v[a].status = "approved" /\ db'[a].status = "pending"
    BY <1>5, <1>8, <1>10, <1>13
  <2>4. c.at \in Cancelling => t \in c.possible
    BY <1>11 DEF Cancelling
  <2>5. c.at \notin {"close_approvals", "close_transitions", "done"} /\ c.listed = {}
    BY <1>11
  <2>6. /\ \A b \in Approval \ {a} : v[b] = db'[b]
        /\ \A u \in Transition \ {t} : v[u] = db'[u]
    BY <1>10, <1>13
  <2> QED
    BY <1>14, <2>1, <2>2, <2>3, <2>4, <2>5, <2>6 DEF Writing
<1>17. Works(p)' /\ Fresh(p)'
  BY <1>2, <1>6, <1>9, <1>10, <1>11, <1>12, <1>16 DEF Works, Fresh
<1> QED
  BY <1>3, <1>7, <1>10, <1>12, <1>14, <1>17, SerialMoves

\* What is known of a call that has signed.
LEMMA Known ==
  ASSUME BaseInv, Serial, NEW p \in Call, Signed(p)
  PROVE  \E a \in Approval, t \in Transition :
           /\ a = call[p].approval /\ t = TransitionOf[a] /\ Writing(call[p], View(p), a, t)
           /\ p \notin stale /\ db[t] = "pending"
           /\ \A q \in Call \ {p} : ~Signed(q) /\ mine[q] = <<>>
<1>1. PICK a \in Approval : a = call[p].approval
  BY DEF BaseInv, Holding, Held, Signed, Late, Cancelling
<1>2. PICK t \in Transition : t = TransitionOf[a]
  BY Distinct
<1>3. Writing(call[p], View(p), a, t) /\ p \notin stale /\ \A q \in Call \ {p} : ~Signed(q)
  BY <1>1, <1>2 DEF Serial, Works, Alone
<1>4. db[t] = "pending"
  BY <1>2, <1>3 DEF Writing, BaseInv, Typed, Status, Serial, Consistent
<1>5. \A q \in Call \ {p} : mine[q] = <<>>
  BY <1>3 DEF BaseInv, Holding, Held, Signed
<1> QED
  BY <1>1, <1>2, <1>3, <1>4, <1>5

\* A step of a call that has signed, and does not end.
LEMMA SerialGoesOn ==
  ASSUME BaseInv, Serial, NEW p \in Call, Signed(p), UNCHANGED <<db, log, stale, clock>>,
         NEW c \in Variables, call' = [call EXCEPT ![p] = c], c.approval = call[p].approval, c.at \in Late,
         Writing(c, View(p)', call[p].approval, TransitionOf[call[p].approval]),
         \A q \in Call \ {p} : mine'[q] = mine[q]
  PROVE  Serial'
<1>1. Typed /\ call'[p] = c /\ \A q \in Call \ {p} : call'[q] = call[q]
  BY Others DEF BaseInv
<1>2. p \notin stale /\ \A q \in Call \ {p} : ~Signed(q)
  BY Known
<1>3. Fresh(p)'
  BY <1>1 DEF Fresh, Late, Cancelling
<1>4. PICK v, a, t : v = View(p)' /\ a = call[p].approval /\ t = TransitionOf[a]
  OBVIOUS
<1>5. Writing(c, v, a, t)'
  BY <1>4 DEF Writing, Latest, Recent
<1>6. Works(p)'
  BY <1>1, <1>2, <1>4, <1>5 DEF Works
<1> QED
  BY <1>1, <1>2, <1>3, <1>6, SerialMoves DEF Typed

\* Reading after the signature keeps the serial invariant.
LEMMA SerialReads ==
  ASSUME BaseInv, Serial, NEW p \in Call, ReadIds(p) \/ ReadLabels(p) \/ List(p) \/ Peers(p)
  PROVE  Serial'
<1>1. /\ Typed /\ Signed(p) /\ Held(call[p], mine[p]) /\ UNCHANGED <<db, log, mine, stale, clock>>
      /\ call[p].at \in {"ids", "labels", "list", "peers"}
  BY DEF BaseInv, Signed, Holding, ReadIds, ReadLabels, List, Peers, Runs, Late, Cancelling
<1>2. PICK a \in Approval, t \in Transition :
        /\ a = call[p].approval /\ t = TransitionOf[a] /\ Writing(call[p], View(p), a, t)
        /\ db[t] = "pending"
  BY <1>1, Known
<1>3. View(p)' = View(p)
  BY <1>1 DEF View
<1>4. PICK v : v = View(p)
  OBVIOUS
<1>5. CASE ReadIds(p) \/ ReadLabels(p) \/ List(p)
  <2>1. PICK c \in Variables :
           /\ call' = [call EXCEPT ![p] = c] /\ c.at \in Early
           /\ c.approval = call[p].approval
           /\ call[p].possible \subseteq c.possible
           /\ ~List(p) => c.at \in {"ids", "labels", "list"} /\ c.listed = call[p].listed
           /\ List(p) => c.at = "close_approvals" /\ c.listed = Impossible(p) /\ c.possible = call[p].possible
    BY <1>1, <1>5, Searches
  <2>2. call[p].at \in {"ids", "labels", "list"} /\ call[p].listed = {} /\ t \in call[p].possible
    BY <1>1, <1>2, <1>5 DEF ReadIds, ReadLabels, List, Runs, Held, Writing, Cancelling
  <2>3. /\ v[a].status = "approved" /\ v[t] = "pending"
        /\ \A b \in Approval \ {a} : v[b] = db[b]
        /\ \A u \in Transition \ {t} : v[u] = db[u]
    BY <1>2, <1>4, <2>2 DEF Writing
  <2>4. c.at = "close_approvals" => c.listed = Excluded(c, v)
    BY <1>4, <2>1 DEF Impossible, Excluded
  <2>5. c.at # "close_approvals" => c.listed = {}
    BY <2>1, <2>2
  <2>6. c.listed \subseteq {u \in Transition \ {t} : db[u] = "pending"}
    BY <2>1, <2>2, <2>3, <2>4, <2>5 DEF Excluded
  <2>7. Writing(c, v, a, t)
    BY <1>2, <1>4, <2>1, <2>2, <2>3, <2>4, <2>5, <2>6 DEF Writing, Early, Cancelling
  <2> QED
    BY <1>1, <1>2, <1>3, <1>4, <2>1, <2>7, SerialGoesOn DEF Early, Late
<1>6. CASE Peers(p)
  <2>1. PICK at \in {"done", "save"} : GoTo(p, at) /\ (at = "done" => PendingPeers(p) = {})
    BY <1>6 DEF Peers
  <2>2. PICK c \in Variables : call' = [call EXCEPT ![p] = c] /\ c.at = at /\ Same(c, call[p])
    BY <1>1, <2>1, Goes DEF Statement
  <2>3. call[p].at = "peers" /\ v[a].status = "approved"
    BY <1>2, <1>4, <1>6 DEF Peers, Runs, Writing
  <2>4. c.at = "done" => \A b \in Approval : TransitionOf[b] = t => v[b].status # "pending"
    BY <1>2, <1>4, <2>1, <2>2, <2>3 DEF PendingPeers, PendingOf
  <2>5. Writing(c, v, a, t)
    BY <1>2, <1>4, <2>2, <2>3, <2>4 DEF Writing, Same, Cancelling
  <2> QED
    BY <1>1, <1>2, <1>3, <1>4, <2>2, <2>5, SerialGoesOn DEF Late, Same
<1> QED
  BY <1>5, <1>6

\* What an update of a call changes in what it sees.
LEMMA Updates ==
  ASSUME BaseInv, Serial, NEW p \in Call, Signed(p),
         \/ Close(p, "close_approvals", "close_transitions") \/ Close(p, "close_transitions", "peers")
         \/ Done(p) \/ Save(p)
  PROVE  /\ UNCHANGED <<db, log, stale, clock>> /\ \A q \in Call \ {p} : mine'[q] = mine[q]
         /\ \A x \in Rows : View(p)'[x] = IF x \in DOMAIN Wanted(p) THEN Wanted(p)[x] ELSE View(p)[x]
<1>1. Typed /\ call[p].approval \in Approval /\ Write(p, Wanted(p)) /\ UNCHANGED <<log, clock>>
  BY DEF BaseInv, Holding, Held, Signed, Late, Cancelling, Close, Done, Save
<1>2. Written(Wanted(p))
  BY <1>1, Kinds DEF Close, Done, Save, Runs
<1> QED
  BY <1>1, <1>2, Writes, Sees

\* Cancelling keeps the serial invariant: what is cancelled was pending to the only writer,
\* and is what it has listed.
LEMMA SerialClose ==
  ASSUME BaseInv, Serial, NEW p \in Call,
         Close(p, "close_approvals", "close_transitions") \/ Close(p, "close_transitions", "peers")
  PROVE  Serial'
<1>1. /\ Typed /\ Signed(p) /\ call[p].at \in {"close_approvals", "close_transitions"}
      /\ call[p].approval \in Approval
  BY DEF Close, Runs, Signed, Late, Cancelling, BaseInv, Holding, Held
<1>2. PICK a \in Approval, t \in Transition :
        /\ a = call[p].approval /\ t = TransitionOf[a] /\ Writing(call[p], View(p), a, t)
        /\ db[t] = "pending"
  BY <1>1, Known
<1>3. PICK v, w, listed : v = View(p)' /\ w = View(p) /\ listed = call[p].listed
  OBVIOUS
<1>4. /\ UNCHANGED <<db, log, stale, clock>> /\ \A q \in Call \ {p} : mine'[q] = mine[q]
      /\ \A x \in Rows : v[x] = IF x \in DOMAIN Wanted(p) THEN Wanted(p)[x] ELSE w[x]
  BY <1>1, <1>3, Updates
<1>5. PICK c \in Variables :
        /\ call' = [call EXCEPT ![p] = c] /\ Same(c, call[p])
        /\ \/ call[p].at = "close_approvals" /\ c.at = "close_transitions"
           \/ call[p].at = "close_transitions" /\ c.at = "peers"
  BY <1>1, Goes DEF Close, Runs, Statement
<1>6. /\ listed = Excluded(call[p], w) /\ listed \subseteq Transition \ {t} /\ t \in call[p].possible
      /\ w[t] = "pending"
  BY <1>1, <1>2, <1>3 DEF Writing, Cancelling
<1>7. ASSUME call[p].at = "close_approvals"
      PROVE  Writing(c, v, a, t)
  <2>1. /\ DOMAIN Wanted(p) = {b \in Approval : TransitionOf[b] \in listed}
        /\ \A b \in DOMAIN Wanted(p) : Wanted(p)[b] = [w[b] EXCEPT !.status = "cancelled"]
    BY <1>1, <1>3, <1>6, <1>7, Wants
  <2>2. /\ \A u \in Transition : v[u] = w[u]
        /\ \A b \in Approval : TransitionOf[b] \in listed => v[b] = [w[b] EXCEPT !.status = "cancelled"]
        /\ \A b \in Approval : TransitionOf[b] \notin listed => v[b] = w[b]
    BY <1>4, <2>1, Distinct DEF Rows
  <2>3. \A b \in Approval \ {a} : w[b] = db[b]
    BY <1>2, <1>3, <1>7 DEF Writing
  <2>4. v[a] = w[a]
    BY <1>2, <1>6, <2>2
  <2>5. c.listed = Excluded(c, v)
    BY <1>3, <1>5, <1>6, <2>2 DEF Excluded, Same
  <2>6. c.at = "close_transitions" /\ c.listed = listed /\ t \in c.possible
    BY <1>3, <1>5, <1>6, <1>7 DEF Same
  <2>7. \A b \in Approval \ {a} :
          v[b] = IF TransitionOf[b] \in c.listed THEN [db[b] EXCEPT !.status = "cancelled"] ELSE db[b]
    BY <2>2, <2>3, <2>6
  <2> QED
    BY <1>2, <1>3, <1>6, <1>7, <2>2, <2>4, <2>5, <2>6, <2>7 DEF Writing, Cancelling
<1>8. ASSUME call[p].at = "close_transitions"
      PROVE  Writing(c, v, a, t)
  <2>1. DOMAIN Wanted(p) = listed /\ \A u \in listed : Wanted(p)[u] = "cancelled"
    BY <1>1, <1>3, <1>6, <1>8, Wants
  <2>2. /\ \A b \in Approval : v[b] = w[b]
        /\ \A u \in Transition : v[u] = IF u \in listed THEN "cancelled" ELSE w[u]
    BY <1>4, <1>6, <2>1, Distinct DEF Rows
  <2>3. c.at = "peers" /\ c.listed = listed
    BY <1>3, <1>5, <1>8 DEF Same
  <2>4. v[t] = "pending"
    BY <1>6, <2>2
  <2> QED
    BY <1>2, <1>3, <1>8, <2>2, <2>3, <2>4 DEF Writing, Cancelling
<1> QED
  BY <1>1, <1>2, <1>3, <1>4, <1>5, <1>7, <1>8, SerialGoesOn DEF Same, Late, Cancelling

\* Completing the transition and saving the object keep the serial invariant: no peer is
\* pending.
LEMMA SerialDoneAndSave ==
  ASSUME BaseInv, Serial, NEW p \in Call, Done(p) \/ Save(p)
  PROVE  Serial'
<1>1. /\ Typed /\ Signed(p) /\ call[p].at \in {"done", "save"} /\ call[p].approval \in Approval
  BY DEF Done, Save, Runs, Signed, Late, Cancelling, BaseInv, Holding, Held
<1>2. PICK a \in Approval, t \in Transition :
        a = call[p].approval /\ t = TransitionOf[a] /\ Writing(call[p], View(p), a, t)
  BY <1>1, Known
<1>3. PICK v, w : v = View(p)' /\ w = View(p)
  OBVIOUS
<1>4. /\ UNCHANGED <<db, log, stale, clock>> /\ \A q \in Call \ {p} : mine'[q] = mine[q]
      /\ \A x \in Rows : v[x] = IF x \in DOMAIN Wanted(p) THEN Wanted(p)[x] ELSE w[x]
  BY <1>1, <1>3, Updates
<1>5. CASE Done(p)
  <2>1. PICK c \in Variables : call' = [call EXCEPT ![p] = c] /\ c.at = "save" /\ Same(c, call[p])
    BY <1>1, <1>5, Completes
  <2>2. call[p].at = "done" /\ DOMAIN Wanted(p) = {t} /\ Wanted(p)[t] = "done"
    BY <1>1, <1>2, <1>5, Wants DEF Done, Runs
  <2>3. /\ \A b \in Approval : v[b] = w[b]
        /\ \A u \in Transition : v[u] = IF u = t THEN "done" ELSE w[u]
    BY <1>4, <2>2, Distinct DEF Rows
  <2>4. Writing(c, v, a, t)
    BY <1>2, <1>3, <2>1, <2>2, <2>3 DEF Writing, Same, Cancelling
  <2> QED
    BY <1>1, <1>2, <1>3, <1>4, <2>1, <2>4, SerialGoesOn DEF Same, Late
<1>6. CASE Save(p)
  <2>1. PICK c \in Variables : call' = [call EXCEPT ![p] = c] /\ c.at = "commit" /\ Same(c, call[p])
    BY <1>1, <1>6, Goes DEF Save, Statement
  <2>2. call[p].at = "save" /\ DOMAIN Wanted(p) = {Object}
    BY <1>1, <1>6, Wants DEF Save, Runs
  <2>3. (\A b \in Approval : v[b] = w[b]) /\ \A u \in Transition : v[u] = w[u]
    BY <1>4, <2>2, Distinct DEF Rows
  <2>4. Writing(c, v, a, t)
    BY <1>2, <1>3, <2>1, <2>2, <2>3 DEF Writing, Same, Cancelling
  <2> QED
    BY <1>1, <1>2, <1>3, <1>4, <2>1, <2>4, SerialGoesOn DEF Same, Late
<1> QED
  BY <1>5, <1>6

\* A call that has ended holds nothing.
LEMMA Ends ==
  ASSUME Typed, NEW p \in Call, mine' = [mine EXCEPT ![p] = <<>>], call' = [call EXCEPT ![p] = Idle]
  PROVE  /\ call'[p].at = "idle" /\ mine'[p] = <<>>
         /\ \A q \in Call \ {p} : call'[q] = call[q] /\ mine'[q] = mine[q]
         /\ ~Signed(p)' /\ Fresh(p)' /\ Works(p)'
<1>1. /\ call'[p].at = "idle" /\ mine'[p] = <<>>
      /\ \A q \in Call \ {p} : call'[q] = call[q] /\ mine'[q] = mine[q]
  BY IdleTyped DEF Typed
<1> QED
  BY <1>1 DEF Signed, Fresh, Works, Late, Cancelling

\* A call that fails leaves what is committed as it was.
LEMMA SerialFail ==
  ASSUME BaseInv, Serial, NEW p \in Call, Fail(p)
  PROVE  Serial'
<1>1. Typed /\ UNCHANGED <<db, log, clock>> /\ \A q \in Call \ {p} : q \in stale' <=> q \in stale
  BY DEF BaseInv, Fail
<1>2. clock' \in Nat /\ clock <= clock'
  BY <1>1 DEF Typed
<1>3. /\ \A q \in Call \ {p} : call'[q] = call[q] /\ mine'[q] = mine[q]
      /\ ~Signed(p)' /\ Fresh(p)' /\ Works(p)'
  BY <1>1, Ends DEF Fail
<1> QED
  BY <1>1, <1>2, <1>3, SerialMoves

\* What a call that signed a for t, and commits, changes in the rows.
LEMMA Committed ==
  ASSUME BaseInv, Serial, NEW p \in Call, NEW a \in Approval, NEW t \in Transition,
         t = TransitionOf[a], Writing(call[p], View(p), a, t), db[t] = "pending", call[p].at = "commit",
         NEW v, v = View(p), NEW listed, listed = call[p].listed
  PROVE  /\ listed \subseteq {u \in Transition \ {t} : db[u] = "pending"}
         /\ v[a].status = "approved" /\ db[a].status = "pending" /\ Latest(db, v[a].previous)
         /\ v[a].date \in Nat /\ v[a].date <= clock /\ \A b \in Approval : db[b].date < v[a].date
         /\ \A b \in Approval \ {a} : v[b].date = db[b].date /\ v[b].previous = db[b].previous
         /\ \A b \in Approval \ {a} :
              v[b].status = IF TransitionOf[b] \in listed THEN "cancelled" ELSE db[b].status
         /\ \A u \in Transition \ {t} : v[u] = IF u \in listed THEN "cancelled" ELSE db[u]
         /\ \/ v[t] = "pending"
            \/ v[t] = "done" /\ \A b \in Approval : TransitionOf[b] = t => v[b].status # "pending"
<1>1. \A b \in Approval : LET x == [db[b] EXCEPT !.status = "cancelled"]
                          IN x.status = "cancelled" /\ x.date = db[b].date /\ x.previous = db[b].previous
  BY DEF BaseInv, Typed, Signature
<1>2. \A b \in Approval \ {a} :
        v[b] = IF TransitionOf[b] \in listed THEN [db[b] EXCEPT !.status = "cancelled"] ELSE db[b]
  BY DEF Writing
<1>3. /\ \A b \in Approval \ {a} : v[b].date = db[b].date /\ v[b].previous = db[b].previous
      /\ \A b \in Approval \ {a} :
           v[b].status = IF TransitionOf[b] \in listed THEN "cancelled" ELSE db[b].status
  BY <1>1, <1>2
<1> QED
  BY <1>3 DEF Writing, Cancelling

\* A commit leaves signatures and transitions consistent.
LEMMA ConsistentCommit ==
  ASSUME BaseInv, Serial, NEW p \in Call, NEW a \in Approval, NEW t \in Transition,
         t = TransitionOf[a], Writing(call[p], View(p), a, t), db[t] = "pending", call[p].at = "commit"
  PROVE  Consistent(View(p))
<1>1. PICK v, listed : v = View(p) /\ listed = call[p].listed
  OBVIOUS
<1>2. SUFFICES ASSUME NEW b \in Approval
               PROVE  /\ v[TransitionOf[b]] = "done" => v[b].status = "approved"
                      /\ v[TransitionOf[b]] = "cancelled" <=> v[b].status = "cancelled"
  BY <1>1 DEF Consistent
<1>3. v[b].status \in {"pending", "approved", "cancelled"}
  BY <1>1, Viewed DEF BaseInv, Signature
<1>4. /\ db[TransitionOf[b]] = "done" => db[b].status = "approved"
      /\ db[TransitionOf[b]] = "cancelled" <=> db[b].status = "cancelled"
  BY DEF Serial, Consistent
<1>5. CASE TransitionOf[b] = t
  BY <1>1, <1>3, <1>4, <1>5, Committed
<1>6. CASE TransitionOf[b] # t
  <2>1. TransitionOf[b] \in Transition \ {t} /\ b # a
    BY <1>6, Distinct
  <2> QED
    BY <1>1, <1>4, <2>1, Committed
<1> QED
  BY <1>5, <1>6

\* A commit leaves the signatures in the order of their dates.
LEMMA OrderedCommit ==
  ASSUME BaseInv, Serial, NEW p \in Call, NEW a \in Approval, NEW t \in Transition,
         t = TransitionOf[a], Writing(call[p], View(p), a, t), db[t] = "pending", call[p].at = "commit",
         db' = View(p), clock' = clock
  PROVE  Dated' /\ Ordered'
<1>1. PICK v, listed : v = View(p) /\ listed = call[p].listed
  OBVIOUS
<1>2. /\ v[a].status = "approved" /\ db[a].status = "pending" /\ Latest(db, v[a].previous)
      /\ v[a].date \in Nat /\ v[a].date <= clock /\ \A b \in Approval : db[b].date < v[a].date
      /\ \A b \in Approval \ {a} : v[b].date = db[b].date /\ v[b].previous = db[b].previous
      /\ \A b \in Approval \ {a} : v[b].status = "pending" => db[b].status = "pending"
  BY <1>1, Committed
<1>3. (\A b \in Approval : db[b].date \in Nat) /\ clock \in Nat /\ db[a].date = 0
  BY <1>2 DEF BaseInv, Typed, Signature, Serial, Dated
<1>4. Dated'
  <2>1. \A b \in Approval : v[b].date <= clock /\ (v[b].status = "pending" => v[b].date = 0)
    BY <1>2, <1>3 DEF Serial, Dated
  <2>2. a \in Recent(v)
    BY <1>2, <1>3 DEF Recent
  <2>3. Recent(db)' = Recent(v)
    BY <1>1 DEF Recent
  <2> QED
    BY <1>1, <2>1, <2>2, <2>3 DEF Dated
<1>5. Ordered'
  <2>1. SUFFICES ASSUME NEW c \in Approval, v[c].date > 0
                 PROVE  IF Earlier(c)' = {} THEN v[c].previous = None
                        ELSE /\ v[c].previous \in Earlier(c)'
                             /\ \A b \in Earlier(c)' : v[b].date <= v[v[c].previous].date
    BY <1>1 DEF Ordered
  <2>2. Earlier(c)' = {b \in Approval : v[b].date > 0 /\ v[b].date < v[c].date}
    BY <1>1 DEF Earlier
  <2>3. CASE c = a
    <3>1. Earlier(c)' = {b \in Approval : db[b].date > 0}
      BY <1>2, <1>3, <2>2, <2>3
    <3>2. CASE Earlier(c)' = {}
      BY <1>2, <2>3, <3>1, <3>2 DEF Latest, Recent
    <3>3. CASE Earlier(c)' # {}
      <4>1. Recent(db) # {}
        BY <1>3, <3>1, <3>3 DEF Serial, Dated
      <4>2. PICK b \in Recent(db) : b = v[c].previous
        BY <1>2, <2>3, <4>1 DEF Latest
      <4>3. b \in Approval /\ b # a /\ db[b].date > 0 /\ \A d \in Approval : db[d].date <= db[b].date
        BY <1>3, <4>2 DEF Recent
      <4> QED
        BY <1>2, <1>3, <2>3, <3>1, <3>3, <4>2, <4>3
    <3> QED
      BY <3>2, <3>3
  <2>4. CASE c # a
    <3>1. Earlier(c)' = Earlier(c)
      BY <1>2, <1>3, <2>2, <2>4 DEF Earlier
    <3>2. v[c].date = db[c].date /\ v[c].previous = db[c].previous
      BY <1>2, <2>4
    <3>3. \A b \in Earlier(c) : b \in Approval \ {a} /\ v[b].date = db[b].date
      BY <1>2, <1>3, <2>4 DEF Earlier
    <3>4. IF Earlier(c) = {} THEN db[c].previous = None
          ELSE db[c].previous \in Earlier(c) /\ \A b \in Earlier(c) : db[b].date <= db[db[c].previous].date
      BY <2>1, <3>2 DEF Serial, Ordered
    <3> QED
      BY <3>1, <3>2, <3>3, <3>4
  <2> QED
    BY <2>3, <2>4
<1> QED
  BY <1>4, <1>5

\* What a call that signed for t adds to the log is what it adds to the rows.
LEMMA MatchesCommit ==
  ASSUME BaseInv, Serial, NEW p \in Call, NEW a \in Approval, NEW t \in Transition,
         t = TransitionOf[a], Writing(call[p], View(p), a, t), db[t] = "pending", call[p].at = "commit",
         a = call[p].approval, db' = View(p), log' = Logged(p)
  PROVE  Matches'
<1>1. SUFFICES ASSUME NEW u \in Transition
               PROVE  /\ log'[<<"cancelled", u>>] = IF db'[u] = "cancelled" THEN 1 ELSE 0
                      /\ db'[u] # "cancelled" =>
                           log'[<<"approved", u>>] =
                             Cardinality({b \in Approval : TransitionOf[b] = u /\ db'[b].status = "approved"})
  BY DEF Matches
<1>2. PICK v, listed : v = View(p) /\ listed = call[p].listed
  OBVIOUS
<1>3. /\ listed \subseteq {x \in Transition \ {t} : db[x] = "pending"}
      /\ v[a].status = "approved" /\ db[a].status = "pending"
      /\ \A b \in Approval \ {a} :
           v[b].status = IF TransitionOf[b] \in listed THEN "cancelled" ELSE db[b].status
      /\ v[u] = "cancelled" <=> (u \in listed \/ db[u] = "cancelled")
  BY <1>2, Committed
<1>4. log \in [{"approved", "cancelled"} \X Transition -> Nat]
  BY DEF BaseInv, Typed
<1>5. /\ log[<<"cancelled", u>>] = IF db[u] = "cancelled" THEN 1 ELSE 0
      /\ db[u] # "cancelled" =>
           log[<<"approved", u>>] =
             Cardinality({b \in Approval : TransitionOf[b] = u /\ db[b].status = "approved"})
  BY DEF Serial, Matches
<1>6. log'[<<"cancelled", u>>] = log[<<"cancelled", u>>] + (IF u \in listed THEN 1 ELSE 0)
  BY <1>2, <1>4 DEF Logged
<1>7. log'[<<"approved", u>>] = log[<<"approved", u>>] + (IF u = t THEN 1 ELSE 0)
  BY <1>4 DEF Logged
<1>8. log'[<<"cancelled", u>>] = IF db'[u] = "cancelled" THEN 1 ELSE 0
  BY <1>2, <1>3, <1>4, <1>5, <1>6
<1>9. ASSUME db'[u] # "cancelled"
      PROVE  log'[<<"approved", u>>] =
               Cardinality({b \in Approval : TransitionOf[b] = u /\ db'[b].status = "approved"})
  <2> DEFINE old == {b \in Approval : TransitionOf[b] = u /\ db[b].status = "approved"}
             new == {b \in Approval : TransitionOf[b] = u /\ db'[b].status = "approved"}
  <2>1. log[<<"approved", u>>] = Cardinality(old)
    BY <1>2, <1>3, <1>5, <1>9
  <2>2. \A b \in Approval \ {a} : TransitionOf[b] = u => db'[b].status = db[b].status
    BY <1>2, <1>3, <1>9
  <2>3. db[a].status = "pending" /\ db'[a].status = "approved"
    BY <1>2, <1>3
  <2>4. IsFiniteSet(old)
    BY ConcurrentAssumption, FS_Subset
  <2>5. CASE u = t
    <3>1. new = old \cup {a} /\ a \notin old
      BY <2>2, <2>3, <2>5
    <3>2. Cardinality(old \cup {a}) = Cardinality(old) + 1
      BY <2>4, <3>1, FS_AddElement
    <3> QED
      BY <1>7, <2>1, <2>5, <3>1, <3>2
  <2>6. CASE u # t
    <3>1. new = old
      BY <2>2, <2>6
    <3>2. log'[<<"approved", u>>] = log[<<"approved", u>>]
      BY <1>4, <1>7, <2>6
    <3> QED
      BY <2>1, <3>1, <3>2
  <2> QED
    BY <2>5, <2>6
<1> QED
  BY <1>8, <1>9

\* A commit keeps the serial invariant: its rows and its entries agree, and other calls are stale.
LEMMA SerialCommit ==
  ASSUME BaseInv, Serial, NEW p \in Call, Commit(p)
  PROVE  Serial'
<1>1. Signed(p) /\ Typed /\ call[p].at = "commit"
  BY DEF Commit, Runs, Signed, BaseInv, Late
<1>2. PICK a \in Approval, t \in Transition :
        /\ a = call[p].approval /\ t = TransitionOf[a] /\ Writing(call[p], View(p), a, t)
        /\ db[t] = "pending" /\ \A q \in Call \ {p} : ~Signed(q)
  BY <1>1, Known
<1>3. db' = View(p) /\ log' = Logged(p) /\ clock' = clock
  BY DEF Commit
<1>4. Consistent(db)'
  <2>1. Consistent(View(p))
    BY <1>1, <1>2, ConsistentCommit
  <2> QED
    BY <1>3, <2>1 DEF Consistent
<1>5. Matches' /\ Dated' /\ Ordered'
  BY <1>1, <1>2, <1>3, MatchesCommit, OrderedCommit
<1>6. /\ call'[p].at = "idle" /\ Fresh(p)' /\ Works(p)' /\ ~Signed(p)'
      /\ \A q \in Call \ {p} : call'[q] = call[q]
  BY <1>1, Ends DEF Commit
<1>7. \A q \in Call \ {p} : Fresh(q)' /\ Works(q)' /\ ~Signed(q)'
  BY <1>2, <1>6 DEF Commit, Fresh, Works, Signed
<1> QED
  BY <1>4, <1>5, <1>6, <1>7 DEF Serial, Alone

\* Every statement keeps the serial invariant.
LEMMA SerialStep == BaseInv /\ SerialInv /\ [Next]_vars => SerialInv'
<1> SUFFICES ASSUME BaseInv, SerialInv, [Next]_vars, database' = "snapshot"  PROVE Serial'
  BY DEF SerialInv
<1>1. Serial /\ database = "snapshot"
  BY DEF Next, vars, SerialInv
<1>2. CASE UNCHANGED vars
  <2>1. \A p \in Call : Fresh(p)' /\ Works(p)' /\ (Signed(p)' <=> Signed(p))
    BY <1>1, <1>2, Still DEF vars, Serial, BaseInv, Typed
  <2>2. Alone' /\ Consistent(db)' /\ Matches' /\ Dated' /\ Ordered'
    BY <1>1, <1>2, <2>1 DEF vars, Serial, Alone, Consistent, Matches, Dated, Ordered, Earlier, Recent
  <2> QED
    BY <2>1, <2>2 DEF Serial
<1>3. ASSUME NEW p \in Call, Step(p)  PROVE Serial'
  BY <1>1, <1>3, SerialBefore, SerialSign, SerialReads, SerialClose, SerialDoneAndSave, SerialCommit
  DEF Step
<1>4. ASSUME NEW p \in Call, Fail(p) \/ \E next \in Given : Load(p, next)  PROVE Serial'
  BY <1>1, <1>4, SerialBefore, SerialFail
<1> QED
  BY <1>1, <1>2, <1>3, <1>4 DEF Next

\* The object begins with no signature and no entry.
LEMMA SerialInit == Init => SerialInv
<1> SUFFICES ASSUME Init  PROVE Serial
  BY DEF SerialInv
<1>1. Consistent(db)
  BY Initially, Distinct DEF Consistent, Unsigned
<1>2. \A t \in Transition : {a \in Approval : TransitionOf[a] = t /\ db[a].status = "approved"} = {}
  BY Initially DEF Unsigned
<1>3. Matches
  BY <1>2, Initially, FS_EmptySet DEF Matches, Init
<1>4. Dated /\ Ordered
  BY Initially DEF Dated, Ordered, Unsigned, Init
<1>5. \A p \in Call : Fresh(p) /\ Works(p) /\ ~Signed(p)
  BY Initially, IdleTyped DEF Fresh, Works, Signed, Late, Cancelling
<1> QED
  BY <1>1, <1>3, <1>4, <1>5 DEF Serial, Alone

\* On a database that refuses the writes of a transaction that lost a race, one call writes
\* at a time, on rows nobody has changed since it began.
THEOREM SerialInvariance == Spec => []SerialInv
  BY BaseInvariance, SerialInit, SerialStep, PTL DEF Spec

\* There, a transition is done only when everyone who had to sign it has.
THEOREM FullySigned == Spec => []SerializedIsFullySigned
<1>1. SerialInv => SerializedIsFullySigned
  BY DEF SerialInv, Serial, Consistent, SerializedIsFullySigned, DoneIsFullySigned
<1> QED
  BY <1>1, SerialInvariance, PTL

\* There, the audit log has one entry for every signature and every cancellation.
THEOREM AuditMatches == Spec => []SerializedAuditMatches
<1>1. SerialInv => SerializedAuditMatches
  BY DEF SerialInv, Serial, Matches, SerializedAuditMatches
<1> QED
  BY <1>1, SerialInvariance, PTL

\* There, previous leads through all signatures of the object in the order they were given.
THEOREM HistoryInOrder == Spec => []SerializedHistory
<1>1. SerialInv => SerializedHistory
  BY DEF SerialInv, Serial, Ordered, SerializedHistory
<1> QED
  BY <1>1, SerialInvariance, PTL

\* There, a transition that was done or cancelled stays so.
LEMMA ClosedStep ==
  BaseInv /\ SerialInv /\ [Next]_vars =>
    (database = "snapshot" => \A t \in Transition : db[t] # "pending" => db'[t] = db[t])
<1> SUFFICES ASSUME BaseInv, Serial, [Next]_vars, NEW u \in Transition, db[u] # "pending"
             PROVE  db'[u] = db[u]
  BY DEF SerialInv
<1>1. ASSUME NEW p \in Call, Commit(p)  PROVE db'[u] = db[u]
  <2>1. Signed(p) /\ call[p].at = "commit" /\ db' = View(p)
    BY <1>1 DEF Commit, Runs, Signed, Late
  <2>2. PICK a \in Approval, t \in Transition :
          t = TransitionOf[a] /\ Writing(call[p], View(p), a, t) /\ db[t] = "pending"
    BY <2>1, Known
  <2> QED
    BY <2>1, <2>2 DEF Writing
<1>2. ASSUME NEW p \in Call, Step(p) \/ Fail(p) \/ (\E next \in Given : Load(p, next)), ~Commit(p)
      PROVE  db' = db
  BY <1>2 DEF Step, Fail, Load, Choose, Check, First, ReadRecent, Sign, ReadIds, ReadLabels, List, Close,
              Peers, Done, Save, Write, Atomic
<1> QED
  BY <1>1, <1>2 DEF Next, vars

\* There, a transition that is closed stays as it is.
THEOREM StaysClosed == Spec => SerializedStaysClosed
  BY BaseInvariance, SerialInvariance, ClosedStep, PTL DEF Spec, SerializedStaysClosed

=============================================================================
