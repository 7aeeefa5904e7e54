--------------------------- MODULE Authorization ----------------------------
(***************************************************************************)
(* Who may sign: the queries of the two drivers, driver/orm_driver.py and  *)
(* driver/mssql_driver.py, over permissions, groups and preassigned users, *)
(* while administrators grant, revoke, edit and delete rules, and assign   *)
(* approvals.                                                              *)
(*                                                                         *)
(* The workflow has one transition, so that a signature is all approve()   *)
(* can do to an object besides moving it; InstanceWorkflow has the rest.   *)
(***************************************************************************)
EXTENDS Naturals, FiniteSets, FiniteSetsExt

CONSTANTS
  User, Superuser,
  Group,
  Permission,
  Name,             \* permission |-> "app_label.codename", all a backend tells of it
  GroupPermission,  \* group |-> its permissions
  Rule,             \* the TransitionApprovalMeta rows of the transition
  Priority,
  Policy,           \* what administrators set a rule's permissions and groups to
  Object,
  None              \* NULL: no transactioner, or the side of a join without a match

ASSUME AuthorizationAssumption ==
  /\ Superuser \subseteq User
  /\ IsFiniteSet(Permission) /\ IsFiniteSet(Group) /\ IsFiniteSet(Object) /\ IsFiniteSet(Rule)
  /\ DOMAIN Name = Permission
  /\ GroupPermission \in [Group -> SUBSET Permission]
  /\ Priority \in [Rule -> Nat]
  /\ Policy \subseteq [permissions: SUBSET Permission, groups: SUBSET Group]
  /\ None \notin User \cup Permission \cup Group

VARIABLES
  granted,    \* user |-> permissions granted to the user
  member,     \* user |-> groups
  rules,      \* rule that exists |-> its permissions and groups
  created,    \* the objects that exist
  approvals,  \* object |-> rule |-> the TransitionApproval row
  moved,      \* the objects that have made the transition
  driver      \* the driver of the database, "orm" or "mssql"

vars == <<granted, member, rules, created, approvals, moved, driver>>

Row == [status: {"none", "pending", "approved"}, permissions: SUBSET Permission,
        groups: SUBSET Group, transactioner: User \cup {None}]
NoRow == [status |-> "none", permissions |-> {}, groups |-> {}, transactioner |-> None]

TypeOK ==
  /\ granted \in [User -> SUBSET Permission]
  /\ member \in [User -> SUBSET Group]
  /\ rules \in UNION {[rs -> Policy] : rs \in SUBSET Rule}
  /\ created \subseteq Object
  /\ approvals \in [Object -> [Rule -> Row]]
  /\ moved \subseteq Object
  /\ driver \in {"orm", "mssql"}

-----------------------------------------------------------------------------
(* What the drivers ask.                                                   *)

\* get_all_permissions of the backends, which give names and not keys.
AllPermissions(u) ==
  {Name[p] : p \in IF u \in Superuser THEN Permission
                   ELSE granted[u] \cup UNION {GroupPermission[g] : g \in member[u]}}

Pending(o) == {r \in Rule : approvals[o][r].status = "pending"}

\* Mutant of Waiting: every pending approval, whatever its priority.
WaitingAtOnce == {w \in Object \X Rule : w[1] \notin moved /\ w[2] \in Pending(w[1])}

\* those_with_max_priority of OrmDriver: the approvals of objects in the source state
\* that have the least priority of those pending for their transition.
Waiting == {w \in Object \X Rule :
              /\ w[1] \notin moved
              /\ w[2] \in Pending(w[1])
              /\ \A q \in Pending(w[1]) : Priority[w[2]] <= Priority[q]}

NotReserved(u, row) == row.transactioner \in {None, u}

-----------------------------------------------------------------------------
(* OrmDriver: a query with two outer joins.                                *)

\* The many-to-many rows of the approval itself.
Conditions(o, r) == [permissions |-> approvals[o][r].permissions, groups |-> approvals[o][r].groups]

\* permissions__isnull=True | permission_q: the rows of the join that stay.
PermissionRows(u, conditions) ==
  IF conditions.permissions = {} THEN {None}
  ELSE {p \in conditions.permissions : Name[p] \in AllPermissions(u)}

\* groups__isnull=True | groups__in.
GroupRows(u, conditions) ==
  IF conditions.groups = {} THEN {None} ELSE conditions.groups \cap member[u]

\* The rows of the query: an approval comes once for each match of its joins.
OrmRows(u) ==
  UNION {LET c == Conditions(w[1], w[2])
         IN {<<w[1], w[2], p, g>> : p \in PermissionRows(u, c), g \in GroupRows(u, c)}
         : w \in {v \in Waiting : NotReserved(u, approvals[v[1]][v[2]])}}

OrmApprovals(u) == {<<row[1], row[2]>> : row \in OrmRows(u)}

-----------------------------------------------------------------------------
(* MsSqlDriver: keys are looked up first, the outer query is by key.       *)

PermissionIds(u) == {p \in Permission : Name[p] \in AllPermissions(u)}

\* Mutant of Allowed: an empty IN list takes the place of the missing condition.
AllowedIn(required, ids) == required \cap ids # {}

\* An empty list of keys is sent as [-1], which no row has.
Allowed(required, ids) == required = {} \/ required \cap (IF ids = {} THEN {None} ELSE ids) # {}

\* authorized_approvals of the SQL template.
Authorized(u) ==
  {w \in Object \X Rule : LET row == approvals[w[1]][w[2]]
                          IN /\ row.status = "pending"
                             /\ NotReserved(u, row)
                             /\ Allowed(row.permissions, PermissionIds(u))
                             /\ Allowed(row.groups, member[u])}

\* approvals_with_min_priority: the least one pending for the transition.
MinPriority(o) == Min({Priority[r] : r \in Pending(o)})

\* The joins of the two and with the objects in the source state; the rows are then read
\* by key, so that an approval comes once.
MsSqlApprovals(u) ==
  {w \in Authorized(u) : Priority[w[2]] = MinPriority(w[1]) /\ w[1] \notin moved}

\* The rows of the driver that is configured.
DriverRows(u) == IF driver = "mssql" THEN MsSqlApprovals(u) ELSE OrmRows(u)

-----------------------------------------------------------------------------
(* The operations.                                                         *)

RowsOf(u, o) == {row \in DriverRows(u) : row[1] = o}

\* What approve() may sign: with a next_state whatever is available, without it the
\* row that is alone.
Signable(u, o, stateGiven) ==
  {row[2] : row \in IF stateGiven \/ Cardinality(RowsOf(u, o)) = 1 THEN RowsOf(u, o) ELSE {}}

\* initialize_approvals: a row for every rule there is, with a copy of its conditions.
Create(o) ==
  /\ o \notin created
  /\ created' = created \cup {o}
  /\ approvals' = [approvals EXCEPT ![o] =
                     [r \in Rule |-> IF r \in DOMAIN rules
                                      THEN [status |-> "pending", permissions |-> rules[r].permissions,
                                            groups |-> rules[r].groups, transactioner |-> None]
                                      ELSE NoRow]]
  /\ UNCHANGED <<granted, member, rules, moved, driver>>

Signed(row, u) == [row EXCEPT !.status = "approved", !.transactioner = u]

Approve(u, o, stateGiven) ==
  /\ \E r \in Signable(u, o, stateGiven) :
       /\ approvals' = [approvals EXCEPT ![o][r] = Signed(@, u)]
       /\ moved' = IF Pending(o) = {r} THEN moved \cup {o} ELSE moved
  /\ UNCHANGED <<granted, member, rules, created, driver>>

\* A program sets the transactioner of a pending approval.
Assign(o, r, u) ==
  /\ r \in Pending(o)
  /\ approvals' = [approvals EXCEPT ![o][r].transactioner = u]
  /\ UNCHANGED <<granted, member, rules, created, moved, driver>>

SetPermissions(u, permissions) ==
  /\ granted' = [granted EXCEPT ![u] = permissions]
  /\ UNCHANGED <<member, rules, created, approvals, moved, driver>>

SetGroups(u, groups) ==
  /\ member' = [member EXCEPT ![u] = groups]
  /\ UNCHANGED <<granted, rules, created, approvals, moved, driver>>

EditRule(r, policy) ==
  /\ r \in DOMAIN rules
  /\ rules' = [rules EXCEPT ![r] = policy]
  /\ UNCHANGED <<granted, member, created, approvals, moved, driver>>

\* pre_delete_model: pending approvals go with their rule, the others stay (SET_NULL).
DeleteRule(r) ==
  /\ r \in DOMAIN rules
  /\ rules' = [q \in DOMAIN rules \ {r} |-> rules[q]]
  /\ approvals' = [o \in Object |-> [q \in Rule |-> IF q = r /\ q \in Pending(o) THEN NoRow ELSE approvals[o][q]]]
  /\ UNCHANGED <<granted, member, created, moved, driver>>

Init ==
  /\ granted = [u \in User |-> {}]
  /\ member = [u \in User |-> {}]
  /\ rules \in [Rule -> Policy]
  /\ created = {}
  /\ approvals = [o \in Object |-> [r \in Rule |-> NoRow]]
  /\ moved = {}
  /\ driver \in {"orm", "mssql"}

Next ==
  \/ \E o \in Object :
       \/ Create(o)
       \/ \E u \in User : (\E given \in BOOLEAN : Approve(u, o, given)) \/ \E r \in Rule : Assign(o, r, u)
  \/ \E u \in User : \/ \E permissions \in SUBSET Permission : SetPermissions(u, permissions)
                     \/ \E groups \in SUBSET Group : SetGroups(u, groups)
  \/ \E r \in Rule : DeleteRule(r) \/ \E policy \in Policy : EditRule(r, policy)

Spec == Init /\ [][Next]_vars

-----------------------------------------------------------------------------
(* Properties.                                                             *)

\* The two drivers, one a query over joins and one a list of keys, find the same
\* approvals for every user.
DriversAgree == \A u \in User : OrmApprovals(u) = MsSqlApprovals(u)

\* docs/faq.rst of a change of the workflow: "Existing workflow objects are not affected".
\* No change of a rule changes a user's work list.
RulesDoNotReachObjects ==
  [][rules' # rules => \A u \in User : OrmApprovals(u)' = OrmApprovals(u)]_vars

\* docs/api/instance.rst of next_state: "redundant as long as there is only one next
\* state".  The transition is the only one: who can sign with next_state can without.
NextStateIsRedundant ==
  \A u \in User, o \in Object : Signable(u, o, TRUE) # {} => Signable(u, o, FALSE) # {}

\* Signatures are asked in the order of priority, from whoever is entitled then, also
\* when rules are deleted while some of their approvals are signed.
TurnIsKept ==
  \A o \in Object : \A r, q \in Rule :
    approvals[o][r].status = "approved" /\ approvals[o][q].status = "pending" =>
      Priority[r] <= Priority[q]

=============================================================================
