SPECIFICATION Spec
CONSTANTS
  b1 = b1
  b2 = b2
  Bands = {b1, b2}
  BandOrder <- MCBandOrder
  AttenMax = 3
  Start <- MCStart
  Locks <- MCLocks
  Backoffs <- MCBackoffs
  ConfirmSteps = 2
  MaxRuns = 3
INVARIANTS
  FolderFits
  CapturesAtLock
PROPERTIES
  KeepsStore
