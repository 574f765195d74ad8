SPECIFICATION Spec
CONSTANTS
  c1 = c1
  c2 = c2
  l1 = l1
  l2 = l2
  l3 = l3
  Conn = {c1, c2}
  Operators = {c2}
  JobCommands = {"acquire"}
  OperatorCommands = {"safe", "resume", "kick", "stop"}
  Outside = {"signal"}
  Commands <- MCCommands
  Lease = {l1, l2, l3}
  Monitor = monitor
  NoLease = none
  PrevProcess = previous
  SafeCanFail = FALSE
  MaxUrgent = 1
  MaxNormal = 1
SYMMETRY Symmetry
INVARIANTS
  SafeHolds
  ExitZeroIsQuiet
PROPERTIES
  KeepsPromise
