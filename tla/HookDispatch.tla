---------------------------- MODULE HookDispatch ----------------------------
(***************************************************************************)
(* What happens around the save of approve(): the three context managers of *)
(* signals.py with their BEFORE hooks, AFTER hooks and signals, entered in  *)
(* the order approve, transit, complete and left in the opposite one.      *)
(*                                                                         *)
(* The workflow is a chain: edge e leads from state e - 1 to state e and   *)
(* needs Signatures[e] signatures.  A hook may raise, may fail in a save of *)
(* its own (which marks the transaction for rollback), or may call         *)
(* approve() again on the object it is given.  Hooks run in the thread of  *)
(* the caller here; HookExecutor has those that do not.                    *)
(***************************************************************************)
EXTENDS Naturals, Sequences

CONSTANTS
  Signatures,     \* edge |-> signatures it needs
  Strict,         \* RIVER_STRICT_HOOKS
  HookDoes,       \* what hooks and receivers do: "raise", "db_error", "approve", "receiver"
  DepthBound      \* bound on the nesting of approve()

ASSUME ChainAssumption ==
  /\ Signatures \in Seq(Nat \ {0})
  /\ Strict \in BOOLEAN
  /\ HookDoes \subseteq {"raise", "db_error", "approve", "receiver"}
  /\ DepthBound \in Nat \ {0}

VARIABLES
  db,        \* the object's state and the signatures, as the transaction sees them
  held,      \* the state in the Python object
  calls,     \* the approve() calls under way, the innermost last
  doomed,    \* needs_rollback of the connection: no more queries in this atomic block
  events,    \* hooks run and signals sent since the outermost call began
  outcome    \* what the last outermost call did

vars == <<db, held, calls, doomed, events, outcome>>

Edge == DOMAIN Signatures
Managers == <<"approve", "transit", "complete">>
Final == Len(Signatures)

Database == [state: 0..Final, signed: [Edge -> Nat]]

\* A call of approve(): the database at its savepoint, the edge it has signed,
\* whether that moves the object (has_transit) and ends its workflow
\* (on_final_state), and where it is with manager number m: before its BEFORE
\* hooks ("enter"), after them ("entered"), before and after its AFTER hooks
\* ("exit", "left"), or between all that ("save").
Call == [before: Database, edge: Edge, transit: BOOLEAN, final: BOOLEAN,
         at: {"enter", "entered", "save", "exit", "left"}, m: 0..3, raising: BOOLEAN]

Event == [edge: Edge, manager: {"approve", "transit", "complete"},
          what: {"before", "pre", "after", "post"}, state: 0..Final]

TypeOK ==
  /\ db \in Database
  /\ held \in 0..Final
  /\ calls \in Seq(Call) /\ Len(calls) <= DepthBound
  /\ doomed \in BOOLEAN
  /\ events \in Seq(Event)
  /\ outcome \in {"none", "returned", "raised"}

-----------------------------------------------------------------------------
(* approve() up to the managers.                                           *)

\* The approval that can be signed is one of the state in the database.
CanSign == db.state < Final /\ db.signed[db.state + 1] < Signatures[db.state + 1]

\* The signature, the last one with set_state, and the first manager.
Sign(callers, inMemory) ==
  LET e == db.state + 1
      signed == [db.signed EXCEPT ![e] = @ + 1]
      moves == signed[e] = Signatures[e]
  IN /\ db' = [db EXCEPT !.signed = signed]
     /\ held' = IF moves THEN e ELSE inMemory
     /\ calls' = Append(callers, [before |-> db, edge |-> e, transit |-> moves, final |-> FALSE,
                                  at |-> "enter", m |-> 1, raising |-> FALSE])

\* A caller loads the object and approves.
Approve ==
  /\ calls = <<>>
  /\ CanSign
  /\ Sign(<<>>, db.state)
  /\ events' = <<>>
  /\ outcome' = "none"
  /\ UNCHANGED doomed

-----------------------------------------------------------------------------
(* One manager is entered or left: its query, its hooks, its signal.       *)

At(places) == calls # <<>> /\ calls[Len(calls)].at \in places
Top == calls[Len(calls)]
Becomes(call) == calls' = [calls EXCEPT ![Len(calls)] = call]

\* The managers whose status is true: their hooks run and their signals are sent.
Active(call) == CASE Managers[call.m] = "approve" -> TRUE
                  [] Managers[call.m] = "transit" -> call.transit
                  [] Managers[call.m] = "complete" -> call.final

Tell(what) == events' = Append(events, [edge |-> Top.edge, manager |-> Managers[Top.m],
                                        what |-> what, state |-> db.state])

HooksOver(call) == [call EXCEPT !.at = IF call.at = "enter" THEN "entered" ELSE "left"]

\* An exception in __enter__ leaves the managers entered before; one in __exit__
\* leaves those that are still open.
Raised(call) == [call EXCEPT !.at = "exit", !.m = @ - 1, !.raising = TRUE]

AtHooks == At({"enter", "exit"}) /\ Top.m > 0
HooksRun == AtHooks /\ Active(Top) /\ ~doomed
Ran == Tell(IF Top.at = "enter" THEN "before" ELSE "after")

NoHooks ==
  /\ AtHooks /\ ~Active(Top)
  /\ Becomes(HooksOver(Top))
  /\ UNCHANGED <<db, held, doomed, events, outcome>>

\* The query for the hooks, in a block that is to be rolled back.
QueryRefused ==
  /\ AtHooks /\ Active(Top) /\ doomed
  /\ Becomes(Raised(Top))
  /\ UNCHANGED <<db, held, doomed, events, outcome>>

HooksReturn ==
  /\ HooksRun
  /\ Ran
  /\ Becomes(HooksOver(Top))
  /\ UNCHANGED <<db, held, doomed, outcome>>

\* Mutant of AfterException: what a hook raises is always logged.
AlwaysLogged(call) == HooksOver(call)

\* execute_now logs the exception unless RIVER_STRICT_HOOKS is set.
AfterException(call) == IF Strict THEN Raised(call) ELSE HooksOver(call)

HookRaises ==
  /\ HooksRun /\ "raise" \in HookDoes
  /\ Ran
  /\ Becomes(AfterException(Top))
  /\ UNCHANGED <<db, held, doomed, outcome>>

\* A save that fails inside the hook marks the atomic block for rollback, and
\* logging the exception does not unmark it.
HookFailsInSave ==
  /\ HooksRun /\ "db_error" \in HookDoes
  /\ Ran
  /\ doomed' = TRUE
  /\ Becomes(AfterException(Top))
  /\ UNCHANGED <<db, held, outcome>>

\* The hook calls approve() on the object of its context.
HookApproves ==
  /\ HooksRun /\ "approve" \in HookDoes
  /\ CanSign
  /\ Len(calls) < DepthBound
  /\ Ran
  /\ Sign([calls EXCEPT ![Len(calls)] = HooksOver(Top)], held)
  /\ UNCHANGED <<doomed, outcome>>

\* The pre_* signal, and the next manager.  Before the last of them on_final_state
\* asks the database about the state in the Python object.
PreSignal ==
  /\ At({"entered"})
  /\ IF Active(Top) THEN Tell("pre") ELSE UNCHANGED events
  /\ Becomes(CASE Top.m = 3 -> [Top EXCEPT !.at = "save"]
               [] Top.m = 2 /\ doomed -> [Top EXCEPT !.at = "exit", !.raising = TRUE]
               [] OTHER -> [Top EXCEPT !.at = "enter", !.m = @ + 1,
                                       !.final = Top.m = 2 /\ held = Final])
  /\ UNCHANGED <<db, held, doomed, outcome>>

\* Mutant of Posts: whatever happened.
PostsAlways(call) == Active(call)

\* The post_* signal is sent unless an exception is on its way.
Posts(call) == Active(call) /\ ~call.raising

PostSignal ==
  /\ At({"left"})
  /\ IF Posts(Top) THEN Tell("post") ELSE UNCHANGED events
  /\ Becomes([Top EXCEPT !.at = "exit", !.m = @ - 1])
  /\ UNCHANGED <<db, held, doomed, outcome>>

\* Signal.send lets the exception of a receiver through.
ReceiverRaises ==
  /\ "receiver" \in HookDoes
  /\ \/ At({"entered"}) /\ Active(Top)
     \/ At({"left"}) /\ Posts(Top)
  /\ Tell(IF Top.at = "entered" THEN "pre" ELSE "post")
  /\ Becomes(Raised(Top))
  /\ UNCHANGED <<db, held, doomed, outcome>>

-----------------------------------------------------------------------------
(* The save and the end of the call.                                       *)

Save ==
  /\ At({"save"})
  /\ IF doomed
     THEN Becomes([Top EXCEPT !.at = "exit", !.raising = TRUE]) /\ UNCHANGED db
     ELSE Becomes([Top EXCEPT !.at = "exit"]) /\ db' = [db EXCEPT !.state = held]
  /\ UNCHANGED <<held, doomed, events, outcome>>

\* Mutant of AtEnd: approve() without @atomic.
AtEndAsIs(call) == db

\* The end of the atomic block: back to the savepoint when an exception leaves it,
\* and when it was marked for rollback, although nothing is raised then.
AtEnd(call) == IF call.raising \/ doomed THEN call.before ELSE db

\* The call returns or raises, to its caller or into the hook that has made it.
Return ==
  /\ At({"exit"}) /\ Top.m = 0
  /\ db' = AtEnd(Top)
  /\ doomed' = FALSE
  /\ LET depth == Len(calls)
         callers == SubSeq(calls, 1, depth - 1)
     IN IF depth > 1
        THEN /\ calls' = IF Top.raising /\ Strict
                         THEN [callers EXCEPT ![depth - 1] = Raised(@)] ELSE callers
             /\ UNCHANGED outcome
        ELSE /\ calls' = <<>>
             /\ outcome' = IF Top.raising THEN "raised" ELSE "returned"
  /\ UNCHANGED <<held, events>>

Init ==
  /\ db = [state |-> 0, signed |-> [e \in Edge |-> 0]]
  /\ held = 0
  /\ calls = <<>>
  /\ doomed = FALSE
  /\ events = <<>>
  /\ outcome = "none"

\* The statements of approve() once it has been called.
Continue ==
  \/ NoHooks \/ QueryRefused \/ HooksReturn \/ HookRaises \/ HookFailsInSave \/ HookApproves
  \/ PreSignal \/ PostSignal \/ ReceiverRaises \/ Save \/ Return

Next == Approve \/ Continue

Spec == Init /\ [][Next]_vars

-----------------------------------------------------------------------------
(* Properties.                                                             *)

\* Between calls signatures and state agree: the object is where its fully signed
\* edges have led it, whatever hooks and receivers did to the calls.
StateFollowsSignatures ==
  calls = <<>> => \A e \in Edge : db.state >= e <=> db.signed[e] = Signatures[e]

\* post_transition and post_on_complete are sent when the object has been saved in
\* its new state, by every call, also one made by a hook.
PostMeansSaved ==
  \A k \in DOMAIN events :
    events[k].what = "post" /\ events[k].manager # "approve" => events[k].state >= events[k].edge

\* With strict hooks a call that returns has signed: no failure of a hook, of its saves
\* or of the calls it makes takes the signature back without an exception.
ReturnedMeansSigned == [][outcome' = "returned" /\ outcome = "none" => db'.signed # calls[1].before.signed]_vars

-----------------------------------------------------------------------------
(* What the documents say of hooks that fail.                              *)

\* docs/hooking/hooking.rst: what a hook raises is logged, and execute() "lets the underlying
\* transition succeed anyway".  A call that ends returns, and has signed.
FailingHooksDoNotBlock ==
  [][outcome' # "none" /\ outcome = "none"
       => outcome' = "returned" /\ db'.signed # calls[1].before.signed]_vars

=============================================================================
