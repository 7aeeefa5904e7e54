--------------------------- MODULE MCTwoWorkflows ---------------------------
(* An order that is packed, then sent or lost, and is waived or paid, then    *)
(* settled.                                                                 *)
EXTENDS TwoWorkflows

CONSTANTS new, packed, sent, lost, unpaid, paid, waived, settled, delivery, payment,
          pack, send, lose, pay, waive, settle

MCRows == [f \in Field |-> IF f = delivery THEN <<pack, send, lose>> ELSE <<pay, waive, settle>>]
MCInitial == [f \in Field |-> IF f = delivery THEN new ELSE unpaid]
MCSource == [t \in Transition |-> CASE t = pack -> new [] t \in {send, lose} -> packed [] t = settle -> paid [] OTHER -> unpaid]
MCIteration == [t \in Transition |-> IF t \in {send, lose, settle} THEN 1 ELSE 0]

\* The workflows have no state in common.
MCApart == [t \in Transition |-> CASE t = pack -> packed [] t = send -> sent [] t = lose -> lost
                                   [] t = pay -> paid [] t = waive -> waived [] t = settle -> settled]

\* They have one: what is lost is waived.
MCShared == [t \in Transition |-> IF t = lose THEN waived ELSE MCApart[t]]
=============================================================================
