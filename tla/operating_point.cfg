SPECIFICATION FairSpec
CONSTANTS
  Target <- MCTarget
  TolUp = 30
  TolDown = 60
  ClipDbfs <- MCClip
  DbPerIndex = 50
  StepMin = 25
  StepMax = 150
  EmptyStepIdx = 2
  None = None
  Benches <- MCBenches
  Ceiling <- MCCeiling
  GainMin = 185
  GainMax = 255
  EmptyRetakes = 2
  StartMarginIdx = 4
  MaxTrims = 16
  StartAtten = 2000
  AttenMin = 300
  AttenMax = 4195
  CoarseStep = 1000
  FineStep = 25
  TargetComp = 200
  CompTol = 30
  MaxIterations = 24
  SlopeNoise = 0
  Backoffs = {0, 3}
INVARIANTS
  GuardHolds
  RecordedLockHolds
  LevelsIntoWindow
  DriveUpKeepsLevel
  TargetReached
PROPERTIES
  Ends
CHECK_DEADLOCK FALSE
