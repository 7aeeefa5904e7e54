---------------------------- MODULE ObjectCopies ----------------------------
(***************************************************************************)
(* InstanceWorkflow with the Python objects it is called on.  A caller     *)
(* holds a copy of the object with the state it was loaded with.  approve  *)
(* chooses by the state in the database and then saves the whole copy; and *)
(* an exception from a hook or a signal receiver rolls the database back   *)
(* but not the copy.                                                       *)
(***************************************************************************)
EXTENDS InstanceWorkflow

CONSTANTS
  Copy,           \* the Python objects of the one database row
  HooksMayRaise   \* RIVER_STRICT_HOOKS with hooks that raise, or receivers that do

ASSUME CopiesAssumption == HooksMayRaise \in BOOLEAN

VARIABLE held   \* held[c]: the state field of copy c, NoObject if not loaded

copiesVars == <<vars, held>>

CopiesTypeOK == TypeOK /\ held \in [Copy -> State \cup {NoObject}]

Loaded(c) == held[c] # NoObject

\* The copy that is created has been saved with its state by then.
CreateCopy(c) ==
  \E given \in Given \cup {NotGiven} : Create(given) /\ held' = [held EXCEPT ![c] = state']

\* Model.objects.get(), refresh_from_db()
Load(c) ==
  /\ state # NoObject
  /\ held' = [held EXCEPT ![c] = state]
  /\ UNCHANGED vars

\* approve() without a transition still saves the copy.
ApprovePartOn(c, u, next) ==
  /\ Loaded(c)
  /\ SignPart(u, next)
  /\ state' = held[c]
  /\ UNCHANGED held

ApproveLastOn(c, u, next) ==
  /\ Loaded(c)
  /\ ApproveLast(u, next)
  /\ held' = [held EXCEPT ![c] = state']

\* The hooks run after set_state: the transaction rolls back, the copy has moved.
ApproveRollsBack(c, u, next) ==
  /\ HooksMayRaise
  /\ Loaded(c)
  /\ \E a \in Eligible(u, next) :
       LET signed == AfterSignature(a, next)[a[1]] IN
       /\ PendingApprovals(signed) = {}
       /\ held' = [held EXCEPT ![c] = Destination[signed.meta]]
  /\ UNCHANGED vars

JumpToOn(c, u, s) ==
  /\ Loaded(c)
  /\ JumpTo(u, s)
  /\ held' = [held EXCEPT ![c] = s]

CopiesInit == Init /\ held = [c \in Copy |-> NoObject]

CopiesNext ==
  \/ \E c \in Copy : CreateCopy(c) \/ Load(c)
  \/ \E c \in Copy, u \in User, next \in State \cup {NotGiven} :
       \/ ApprovePartOn(c, u, next)
       \/ ApproveLastOn(c, u, next)
       \/ ApproveRollsBack(c, u, next)
  \/ \E c \in Copy, u \in User, s \in State : JumpToOn(c, u, s)
  \/ \E r \in Rule : DeleteRule(r) /\ UNCHANGED held

CopiesSpec == CopiesInit /\ [][CopiesNext]_copiesVars

=============================================================================
