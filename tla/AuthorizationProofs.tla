------------------------ MODULE AuthorizationProofs -------------------------
(***************************************************************************)
(* Theorems about Authorization, for every set of users, groups,           *)
(* permissions, rules and objects.                                         *)
(***************************************************************************)
EXTENDS Authorization, WellFoundedInduction, TLAPS

-----------------------------------------------------------------------------
(* The least priority.                                                     *)

\* MIN() of a query that has rows.
LEMMA MinIsLeast ==
  ASSUME NEW S \in SUBSET Nat, S # {}
  PROVE  Min(S) \in S /\ \A y \in S : Min(S) <= y
<1>1. PICK R : R = OpToRel(<, Nat)
  OBVIOUS
<1>2. IsWellFoundedOn(R, Nat)
  BY <1>1, NatLessThanWellFounded
<1>3. PICK x \in S : \A y \in S : ~ (<<y, x>> \in R)
  BY <1>2, WFMin
<1>4. \A m, n \in Nat : m < n => <<m, n>> \in R
  BY <1>1 DEF OpToRel
<1>5. x \in Nat /\ \A y \in S : y \in Nat /\ ~ (y < x)
  BY <1>3, <1>4
<1>6. \A y \in S : x <= y
  BY <1>5
<1> QED
  BY <1>6 DEF Min

\* The minimum the SQL template groups by is the comparison of those_with_max_priority.
LEMMA FirstIsMinimal ==
  ASSUME NEW o \in Object, NEW r \in Rule, r \in Pending(o)
  PROVE  Priority[r] = MinPriority(o) <=> \A q \in Pending(o) : Priority[r] <= Priority[q]
<1> DEFINE S == {Priority[q] : q \in Pending(o)}
<1>1. S \in SUBSET Nat /\ Priority[r] \in S /\ MinPriority(o) = Min(S)
  BY AuthorizationAssumption DEF Pending, MinPriority
<1>2. \A q \in Pending(o) : Priority[q] \in S
  OBVIOUS
<1>3. \A y \in S : \E q \in Pending(o) : y = Priority[q]
  OBVIOUS
<1> HIDE DEF S
<1>4. Min(S) \in S /\ \A y \in S : Min(S) <= y
  BY <1>1, MinIsLeast
<1>5. PICK m, least : m = Min(S) /\ least = Priority[r]
  OBVIOUS
<1>6. m \in Nat /\ least \in Nat /\ least \in S /\ m \in S /\ \A y \in S : m <= y /\ y \in Nat
  BY <1>1, <1>4, <1>5
<1>7. least = m <=> \A y \in S : least <= y
  BY <1>6
<1> QED
  BY <1>1, <1>2, <1>3, <1>5, <1>7

\* What OrmDriver and MsSqlDriver take to be next in turn is the same.
LEMMA WaitingIsMinimal ==
  ASSUME NEW o \in Object, NEW r \in Rule
  PROVE  <<o, r>> \in Waiting <=>
           o \notin moved /\ r \in Pending(o) /\ Priority[r] = MinPriority(o)
  BY FirstIsMinimal DEF Waiting

-----------------------------------------------------------------------------
(* The joins and the lists of keys.                                        *)

\* The outer join keeps a row when the approval asks for nothing or for something the
\* user has.
LEMMA JoinsAreLists ==
  ASSUME TypeOK, NEW u \in User, NEW o \in Object, NEW r \in Rule
  PROVE  /\ PermissionRows(u, Conditions(o, r)) # {} <=>
              Allowed(approvals[o][r].permissions, PermissionIds(u))
         /\ GroupRows(u, Conditions(o, r)) # {} <=> Allowed(approvals[o][r].groups, member[u])
<1>1. PICK permissions, groups : /\ permissions = approvals[o][r].permissions
                                 /\ groups = approvals[o][r].groups
  OBVIOUS
<1>2. permissions \in SUBSET Permission /\ groups \in SUBSET Group
  BY <1>1 DEF TypeOK, Row
<1>3. Conditions(o, r).permissions = permissions /\ Conditions(o, r).groups = groups
  BY <1>1 DEF Conditions
<1>4. None \notin permissions /\ None \notin groups
  BY <1>2, AuthorizationAssumption
<1>5. PermissionRows(u, Conditions(o, r)) # {} <=> Allowed(permissions, PermissionIds(u))
  BY <1>2, <1>3, <1>4 DEF PermissionRows, Allowed, PermissionIds
<1>6. GroupRows(u, Conditions(o, r)) # {} <=> Allowed(groups, member[u])
  BY <1>2, <1>3, <1>4 DEF GroupRows, Allowed
<1> QED
  BY <1>1, <1>5, <1>6

\* An approval is in the answer of the query when each of its two joins has a row.
LEMMA OrmAnswer ==
  ASSUME NEW u \in User, NEW o \in Object, NEW r \in Rule
  PROVE  <<o, r>> \in OrmApprovals(u) <=>
           /\ <<o, r>> \in Waiting
           /\ NotReserved(u, approvals[o][r])
           /\ PermissionRows(u, Conditions(o, r)) # {}
           /\ GroupRows(u, Conditions(o, r)) # {}
<1> DEFINE Joined(w) == {<<w[1], w[2], p, g>> : p \in PermissionRows(u, Conditions(w[1], w[2])),
                                                 g \in GroupRows(u, Conditions(w[1], w[2]))}
           Free == {v \in Waiting : NotReserved(u, approvals[v[1]][v[2]])}
<1>1. OrmRows(u) = UNION {Joined(w) : w \in Free}
  BY DEF OrmRows
<1>2. <<o, r>> \in OrmApprovals(u) <=> \E row \in OrmRows(u) : row[1] = o /\ row[2] = r
  BY DEF OrmApprovals
<1>3. (\E row \in OrmRows(u) : row[1] = o /\ row[2] = r) <=>
        \E w \in Free : w[1] = o /\ w[2] = r /\ Joined(w) # {}
  BY <1>1
<1>4. (\E w \in Free : w[1] = o /\ w[2] = r /\ Joined(w) # {}) <=>
        <<o, r>> \in Free /\ Joined(<<o, r>>) # {}
  BY DEF Waiting
<1>5. Joined(<<o, r>>) # {} <=> /\ PermissionRows(u, Conditions(o, r)) # {}
                                /\ GroupRows(u, Conditions(o, r)) # {}
  <2>1. PICK w : w = <<o, r>>
    OBVIOUS
  <2>2. w[1] = o /\ w[2] = r
    BY <2>1
  <2>3. \A p \in PermissionRows(u, Conditions(o, r)), g \in GroupRows(u, Conditions(o, r)) :
          <<w[1], w[2], p, g>> \in Joined(w)
    BY <2>2
  <2>4. Joined(w) # {} => \E p \in PermissionRows(u, Conditions(o, r)),
                             g \in GroupRows(u, Conditions(o, r)) : TRUE
    BY <2>2
  <2> HIDE DEF Joined
  <2> QED
    BY <2>1, <2>3, <2>4
<1> QED
  BY <1>2, <1>3, <1>4, <1>5

\* The ORM query and the SQL template find the same approvals for a user.
LEMMA AnswersAgree == ASSUME TypeOK, NEW u \in User  PROVE OrmApprovals(u) = MsSqlApprovals(u)
<1>1. ASSUME NEW o \in Object, NEW r \in Rule
      PROVE  <<o, r>> \in OrmApprovals(u) <=> <<o, r>> \in MsSqlApprovals(u)
  <2>1. <<o, r>> \in MsSqlApprovals(u) <=>
          /\ o \notin moved /\ r \in Pending(o) /\ Priority[r] = MinPriority(o)
          /\ NotReserved(u, approvals[o][r])
          /\ Allowed(approvals[o][r].permissions, PermissionIds(u))
          /\ Allowed(approvals[o][r].groups, member[u])
    BY DEF MsSqlApprovals, Authorized, Pending
  <2> QED
    BY <2>1, OrmAnswer, WaitingIsMinimal, JoinsAreLists
<1>2. MsSqlApprovals(u) \subseteq Object \X Rule
  BY DEF MsSqlApprovals, Authorized
<1>3. OrmApprovals(u) \subseteq Object \X Rule
  BY DEF OrmApprovals, OrmRows, Waiting
<1> QED
  BY <1>1, <1>2, <1>3

-----------------------------------------------------------------------------
(* What approve() signs, whatever the driver.                              *)

\* What approve() signs is pending and is of the least priority that is.
LEMMA SignableWaits ==
  ASSUME TypeOK, NEW u \in User, NEW o \in Object, NEW given \in BOOLEAN, NEW r \in Signable(u, o, given)
  PROVE  r \in Rule /\ <<o, r>> \in Waiting
<1>1. PICK row \in DriverRows(u) : row[1] = o /\ row[2] = r
  BY DEF Signable, RowsOf
<1>2. CASE driver = "mssql"
  <2>1. row \in MsSqlApprovals(u)
    BY <1>1, <1>2 DEF DriverRows
  <2>2. row \in Object \X Rule /\ row = <<o, r>> /\ r \in Rule
    BY <1>1, <2>1 DEF MsSqlApprovals, Authorized
  <2>3. o \notin moved /\ r \in Pending(o) /\ Priority[r] = MinPriority(o)
    BY <2>1, <2>2 DEF MsSqlApprovals, Authorized, Pending
  <2> QED
    BY <2>2, <2>3, WaitingIsMinimal
<1>3. CASE driver # "mssql"
  <2>1. row \in OrmRows(u)
    BY <1>1, <1>3 DEF DriverRows
  <2>2. \E w \in Waiting : row[1] = w[1] /\ row[2] = w[2]
    BY <2>1 DEF OrmRows
  <2> QED
    BY <1>1, <2>2 DEF Waiting
<1> QED
  BY <1>2, <1>3

\* A signature changes one row of one object.
LEMMA SignedRows ==
  ASSUME TypeOK, NEW u \in User, NEW o \in Object, NEW r \in Rule,
         approvals' = [approvals EXCEPT ![o][r] = Signed(@, u)]
  PROVE  /\ approvals' \in [Object -> [Rule -> Row]]
         /\ \A x \in Object, q \in Rule :
              approvals'[x][q].status = IF x = o /\ q = r THEN "approved" ELSE approvals[x][q].status
<1>1. PICK new : new = Signed(approvals[o][r], u)
  OBVIOUS
<1>2. approvals[o][r] \in Row
  BY DEF TypeOK
<1>3. new \in Row /\ new.status = "approved"
  BY <1>1, <1>2 DEF Signed, Row
<1>4. approvals' = [approvals EXCEPT ![o] = [approvals[o] EXCEPT ![r] = new]]
  BY <1>1
<1> QED
  BY <1>3, <1>4 DEF TypeOK

-----------------------------------------------------------------------------
(* The inductive invariant and what every operation does to it.            *)

IInv == TypeOK /\ TurnIsKept

\* A policy of a rule that exists has permissions and groups.
LEMMA RulesHaveConditions ==
  ASSUME TypeOK, NEW r \in DOMAIN rules
  PROVE  r \in Rule /\ rules[r].permissions \in SUBSET Permission /\ rules[r].groups \in SUBSET Group
<1>1. PICK rs \in SUBSET Rule : rules \in [rs -> Policy]
  BY DEF TypeOK
<1>2. r \in Rule /\ rules[r] \in Policy
  BY <1>1
<1> QED
  BY <1>2, AuthorizationAssumption

\* The approvals of a new object are all pending.
LEMMA CreateStep == ASSUME IInv, NEW o \in Object, Create(o)  PROVE IInv'
<1> DEFINE New(r) == IF r \in DOMAIN rules
                     THEN [status |-> "pending", permissions |-> rules[r].permissions,
                           groups |-> rules[r].groups, transactioner |-> None]
                     ELSE NoRow
<1>1. \A r \in Rule : New(r) \in Row /\ New(r).status # "approved"
  <2>1. ASSUME NEW r \in Rule, r \in DOMAIN rules  PROVE New(r) \in Row /\ New(r).status # "approved"
    BY <2>1, RulesHaveConditions DEF IInv, Row
  <2>2. NoRow \in Row /\ NoRow.status # "approved"
    BY DEF NoRow, Row
  <2> QED
    BY <2>1, <2>2
<1>2. PICK rows : rows = [r \in Rule |-> New(r)]
  OBVIOUS
<1>3. approvals' = [approvals EXCEPT ![o] = rows]
  BY <1>2 DEF Create
<1>4. rows \in [Rule -> Row] /\ \A r \in Rule : rows[r].status # "approved"
  BY <1>1, <1>2
<1>5. approvals' \in [Object -> [Rule -> Row]]
  BY <1>3, <1>4 DEF IInv, TypeOK
<1>6. TurnIsKept'
  BY <1>3, <1>4 DEF IInv, TypeOK, TurnIsKept
<1> QED
  BY <1>5, <1>6 DEF IInv, TypeOK, Create

\* A signature is given in its turn.
LEMMA ApproveStep ==
  ASSUME IInv, NEW u \in User, NEW o \in Object, NEW given \in BOOLEAN, Approve(u, o, given)
  PROVE  IInv'
<1>1. PICK r \in Signable(u, o, given) :
        /\ approvals' = [approvals EXCEPT ![o][r] = Signed(@, u)]
        /\ moved' = IF Pending(o) = {r} THEN moved \cup {o} ELSE moved
  BY DEF Approve
<1>2. r \in Rule /\ \A q \in Rule : approvals[o][q].status = "pending" => Priority[r] <= Priority[q]
  BY SignableWaits DEF IInv, Waiting, Pending
<1>3. /\ approvals' \in [Object -> [Rule -> Row]]
      /\ \A x \in Object, q \in Rule :
           approvals'[x][q].status = IF x = o /\ q = r THEN "approved" ELSE approvals[x][q].status
  BY <1>1, <1>2, SignedRows DEF IInv
<1>4. TurnIsKept'
  BY <1>2, <1>3 DEF IInv, TurnIsKept
<1>5. TypeOK'
  BY <1>1, <1>3 DEF IInv, TypeOK, Approve
<1> QED
  BY <1>4, <1>5 DEF IInv

\* Assigning an approval to a user changes nobody's turn.
LEMMA AssignStep ==
  ASSUME IInv, NEW o \in Object, NEW r \in Rule, NEW u \in User, Assign(o, r, u)
  PROVE  IInv'
<1>1. PICK new : new = [approvals[o][r] EXCEPT !.transactioner = u]
  OBVIOUS
<1>2. approvals[o][r] \in Row
  BY DEF IInv, TypeOK
<1>3. new \in Row /\ new.status = approvals[o][r].status
  BY <1>1, <1>2 DEF Row
<1>4. approvals' = [approvals EXCEPT ![o] = [approvals[o] EXCEPT ![r] = new]]
  BY <1>1 DEF Assign
<1>5. /\ approvals' \in [Object -> [Rule -> Row]]
      /\ \A x \in Object, q \in Rule : approvals'[x][q].status = approvals[x][q].status
  BY <1>3, <1>4 DEF IInv, TypeOK
<1>6. TurnIsKept'
  BY <1>5 DEF IInv, TurnIsKept
<1> QED
  BY <1>5, <1>6 DEF IInv, TypeOK, Assign

\* What administrators grant and what rules ask from now on touches no approval.
LEMMA AdministrationStep ==
  ASSUME IInv,
         \/ \E u \in User : \/ \E permissions \in SUBSET Permission : SetPermissions(u, permissions)
                            \/ \E groups \in SUBSET Group : SetGroups(u, groups)
         \/ \E r \in Rule, policy \in Policy : EditRule(r, policy)
         \/ UNCHANGED vars
  PROVE  IInv'
<1>1. UNCHANGED <<created, approvals, moved, driver>>
  BY DEF SetPermissions, SetGroups, EditRule, vars
<1>2. TurnIsKept'
  BY <1>1 DEF IInv, TurnIsKept
<1>3. rules' \in UNION {[rs -> Policy] : rs \in SUBSET Rule}
  <2>1. PICK rs \in SUBSET Rule : rules \in [rs -> Policy]
    BY DEF IInv, TypeOK
  <2>2. rules' \in [rs -> Policy]
    BY <2>1 DEF SetPermissions, SetGroups, EditRule, vars
  <2> QED
    BY <2>2
<1>4. granted' \in [User -> SUBSET Permission] /\ member' \in [User -> SUBSET Group]
  BY DEF IInv, TypeOK, SetPermissions, SetGroups, EditRule, vars
<1> QED
  BY <1>1, <1>2, <1>3, <1>4 DEF IInv, TypeOK

\* A rule takes only pending approvals with it, so that nobody's turn is taken by them.
LEMMA DeleteStep == ASSUME IInv, NEW r \in Rule, DeleteRule(r)  PROVE IInv'
<1>1. NoRow \in Row /\ NoRow.status = "none"
  BY DEF NoRow, Row
<1>2. /\ approvals' \in [Object -> [Rule -> Row]]
      /\ \A o \in Object, q \in Rule : approvals'[o][q] \in {approvals[o][q], NoRow}
  BY <1>1 DEF DeleteRule, IInv, TypeOK
<1> HIDE DEF NoRow
<1>3. TurnIsKept'
  <2> SUFFICES ASSUME NEW o \in Object, NEW p \in Rule, NEW q \in Rule,
                      approvals'[o][p].status = "approved", approvals'[o][q].status = "pending"
               PROVE  Priority[p] <= Priority[q]
    BY DEF TurnIsKept
  <2>1. approvals[o][p].status = "approved" /\ approvals[o][q].status = "pending"
    <3>1. approvals'[o][p] \in {approvals[o][p], NoRow} /\ approvals'[o][q] \in {approvals[o][q], NoRow}
      BY <1>2
    <3> QED
      BY <3>1, <1>1
  <2> QED
    BY <2>1 DEF IInv, TurnIsKept
<1>4. rules' \in UNION {[rs -> Policy] : rs \in SUBSET Rule}
  <2>1. PICK rs \in SUBSET Rule : rules \in [rs -> Policy]
    BY DEF IInv, TypeOK
  <2>2. rules' \in [rs \ {r} -> Policy]
    BY <2>1 DEF DeleteRule
  <2> QED
    BY <2>2
<1> QED
  BY <1>2, <1>3, <1>4 DEF IInv, TypeOK, DeleteRule

\* Every operation keeps the invariant.
LEMMA Steps == IInv /\ [Next]_vars => IInv'
  BY CreateStep, ApproveStep, AssignStep, AdministrationStep, DeleteStep DEF Next

\* Nothing exists at first.
LEMMA Initially == Init => IInv
<1> SUFFICES ASSUME Init  PROVE IInv
  OBVIOUS
<1>1. NoRow \in Row /\ NoRow.status = "none"
  BY DEF NoRow, Row
<1>2. \A o \in Object : \A r \in Rule : approvals[o][r] = NoRow
  BY DEF Init
<1>3. approvals \in [Object -> [Rule -> Row]]
  BY <1>1 DEF Init
<1> HIDE DEF NoRow
<1>4. TurnIsKept
  BY <1>1, <1>2 DEF TurnIsKept
<1>5. rules \in UNION {[rs -> Policy] : rs \in SUBSET Rule}
  BY DEF Init
<1> QED
  BY <1>3, <1>4, <1>5 DEF Init, IInv, TypeOK

-----------------------------------------------------------------------------
(* Theorems.                                                               *)

\* The rows keep their type, and signatures are asked in the order of priority,
\* whichever driver answers and whoever is entitled when.
THEOREM Invariance == Spec => []IInv
  BY Initially, Steps, PTL DEF Spec

\* Every row, grant and rule has its type.
THEOREM TypeCorrect == Spec => []TypeOK
  BY Invariance, PTL DEF IInv

\* No approval is signed before one of the same object that has a lower priority.
THEOREM TurnKept == Spec => []TurnIsKept
  BY Invariance, PTL DEF IInv

\* For every user the two drivers find the same approvals, in every reachable state.
THEOREM DriversEqual == Spec => []DriversAgree
<1>1. IInv => DriversAgree
  BY AnswersAgree DEF IInv, DriversAgree
<1> QED
  BY <1>1, Invariance, PTL
=============================================================================
