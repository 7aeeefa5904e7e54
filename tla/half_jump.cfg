SPECIFICATION Spec
CONSTANTS
  new = new  packed = packed  sent = sent  lost = lost
  unpaid = unpaid  paid = paid  waived = waived  settled = settled
  delivery = delivery  payment = payment
  pack = pack  send = send  lose = lose  pay = pay  waive = waive  settle = settle
  NoObject = NoObject  NoApproval = NoApproval
  Field = {delivery, payment}
  State = {new, packed, sent, lost, unpaid, paid, waived, settled}
  Transition = {pack, send, lose, pay, waive, settle}
  InitialState <- MCInitial
  Rows <- MCRows
  Source <- MCSource
  Iteration <- MCIteration
  Destination <- MCShared
PROPERTY MovesCloseTransitions
CHECK_DEADLOCK FALSE
