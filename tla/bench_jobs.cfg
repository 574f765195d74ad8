SPECIFICATION Spec
CONSTANTS
  Tx = {"TX1", "TX3"}
  TxOrder <- MCTxOrder
  LoOrder <- MCLoOrder
  LoOf <- MCLoOf
  OrxOf <- MCOrxOf
  RxInit <- MCRxInit
  Freqs = {2, 3}
  MHz = 2
  Levels = {1, 2}
  Gains = {1, 2}
  Waves = {"x", "u", "short"}
  LengthOf <- MCLengthOf
  StemOf <- MCStemOf
  Silent = "off"
  Rows = {"r0", "r1", "r2", "r3", "r4"}
  Saved <- MCSaved
  Replays <- MCReplays
  Commands <- MCCommands
  Labels <- MCLabels
  Sweeps <- MCSweeps
  Surveys <- MCSurveys
  StartLevel = 2
  MaxLevel = 2
  MaxIter = 2
  MaxJobs = 2
INVARIANTS
  RowsTellTheTruth
  SweepMeasuresThePlan
PROPERTIES
  RetunesQuietly
  EndsQuiet
