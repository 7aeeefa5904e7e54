--------------------------- MODULE WorkflowLedger ---------------------------
(***************************************************************************)
(* What core/instanceworkflowobject.py promises to whoever reads the state *)
(* of an object and its transitions, whatever approvals, iterations and    *)
(* cancellations it takes to get there.                                    *)
(***************************************************************************)
EXTENDS Integers, Sequences

CONSTANTS State, InitialState, NoObject, Meta, Source, Destination

VARIABLES
  place,   \* where the object is
  ledger   \* its transitions: an edge and what became of it

Entry == [edge : Meta, status : {"pending", "cancelled", "jumped", "done"}]

Open == {t \in DOMAIN ledger : ledger[t].status = "pending"}

\* Entry t stays as it is, or is open and closes with this status.
Keeps(t, status) ==
  \/ ledger'[t] = ledger[t]
  \/ t \in Open /\ ledger'[t] = [ledger[t] EXCEPT !.status = status]

Init == place = NoObject /\ ledger = <<>>

\* The object starts somewhere, with every edge out of the initial state open.
Start ==
  /\ place = NoObject
  /\ place' \in State
  /\ ledger' \in Seq([edge : Meta, status : {"pending"}])
  /\ \A m \in Meta : Source[m] = InitialState => \E t \in DOMAIN ledger' : ledger'[t].edge = m

\* A signature may close what can no longer happen, and moves nothing.
Sign ==
  /\ UNCHANGED place
  /\ DOMAIN ledger' = DOMAIN ledger
  /\ \A t \in DOMAIN ledger : Keeps(t, "cancelled")

\* The last signature moves the object over one open transition out of its place.
\* Only a return to a place that nothing open leads out of extends the ledger.
Move ==
  \E t \in Open :
    /\ place = Source[ledger[t].edge]
    /\ place' = Destination[ledger[t].edge]
    /\ ledger'[t] = [ledger[t] EXCEPT !.status = "done"]
    /\ DOMAIN ledger \subseteq DOMAIN ledger'
    /\ \A k \in DOMAIN ledger \ {t} : Keeps(k, "cancelled")
    /\ \A k \in DOMAIN ledger' \ DOMAIN ledger : ledger'[k].status = "pending"
    /\ DOMAIN ledger' # DOMAIN ledger =>
         /\ \E k \in DOMAIN ledger : /\ ledger'[k].status = "done"
                                     /\ Source[ledger[k].edge] = place'
         /\ \A k \in DOMAIN ledger : Source[ledger[k].edge] = place' =>
              ledger'[k].status # "pending"

\* A jump goes to where an open transition leads and skips it.
Jump ==
  /\ \E t \in Open : /\ Destination[ledger[t].edge] = place'
                     /\ ledger'[t].status = "jumped"
  /\ DOMAIN ledger' = DOMAIN ledger
  /\ \A t \in DOMAIN ledger : Keeps(t, "jumped")

Next == Start \/ Sign \/ Move \/ Jump

Spec == Init /\ [][Next]_<<place, ledger>>
=============================================================================
