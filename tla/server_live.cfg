SPECIFICATION FairSpec
CONSTANTS
  c1 = c1
  c2 = c2
  l1 = l1
  l2 = l2
  Conn = {c1, c2}
  Operators = {c2}
  JobCommands = {"acquire"}
  OperatorCommands = {"acquire", "stop"}
  Outside = {}
  Commands <- MCCommands
  Lease = {l1, l2}
  Monitor = monitor
  NoLease = none
  PrevProcess = previous
  SafeCanFail = FALSE
  MaxUrgent = 1
  MaxNormal = 1
PROPERTIES
  EndedLeaseFrees
  LostClientFrees
  NoStarvation
  StopStops
