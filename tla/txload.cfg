SPECIFICATION Spec
CONSTANTS
  Channel = {TX1, TX2}
  Wave = {signal, zeros}
  Unknown = unknown
  Mode = {looping, once}
  Nothing = nothing
  SkipIdentical = TRUE
  DllCanFail = TRUE
INVARIANTS
  PlaysWhatWasAsked
  OnlyAskedTransmits
  MonitorSeesTx
