SPECIFICATION Spec
CONSTANTS
  Interruptible = {"call", "program"}
  MaxRequests = 5
  MaxJobs = 2
  MaxProgrammings = 3
CHECK_DEADLOCK FALSE
INVARIANTS
  RepliesMatch
  ProgrammingKnown
  IdentityTells
PROPERTIES
  EndIsFinal
