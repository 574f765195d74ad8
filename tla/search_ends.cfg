SPECIFICATION FairSpec
CONSTANTS
  b1 = b1
  b2 = b2
  None = none
  Bands = {b1, b2}
  Modes = {"together", "pingpong", "joint"}
  Guards = {"on"}
  Start <- MCStart
  FloorMin <- MCFloor
  StartGain <- MCGain
  Levels <- MCLevels
  Errors <- MCErrors
  Slopes <- MCSlopes
  JointErrors <- MCJointErrors
  JointSlopes <- MCJointSlopes
  AttenMax = 3
  GainMin = 0
  GainMax = 1
  ClipStep = 1
  GrowMargin = 1
  MaxMove = 2
  Tol = 1
  MaxSteps = 3
  MaxRelevel = 1
  TurnSteps = 1
  EmptyRetakes = 1
  EmptyStep = 1
  IdleSteps = 2
PROPERTIES
  AlwaysEnds
