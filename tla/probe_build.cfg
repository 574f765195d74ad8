SPECIFICATION ProbeSpec
CONSTANTS
  NFull = 21
  Signals = {"a", "b"}
  SignalOrder <- MCSignalOrder
  Window = 4
  Crossfade = 1
  Unit = 3
  NoBudget = NoBudget
  Budgets = {7, NoBudget}
  MaxPeaks = 2
  PeakCount <- MCPeakCount
INVARIANTS
  WindowsStayReal
  OnceRound
